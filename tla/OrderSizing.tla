---------------------------- MODULE OrderSizing -----------------------------
(***************************************************************************)
(* How large an order execute_value_target_plan makes: the budget of a     *)
(* sell, of a buy in whole shares and of a buy in dollars, the plan's cash *)
(* and the rounding to whole shares.  Money is in cents.  Holdings are in  *)
(* units of 1/ShareUnits of a share, so that a fraction of a share can be  *)
(* held; orders are in whole shares.                                       *)
(***************************************************************************)
EXTENDS Integers

CONSTANT ShareUnits   \* units of a holding in one share

ASSUME ShareUnitsAssumption == ShareUnits \in Nat \ {0}

LimitBuyPremium == 1005    \* per thousand of the quote
LimitSellDiscount == 995   \* per thousand of the quote
MinNotionalBuy == 100      \* cents
CashUtilization == 98      \* percent of the cash a notional buy may use up
NoCap == 0                 \* max_order_notional_usd is not set
NoQuote == 0               \* the price could not be read

Least(a, b) == IF a <= b THEN a ELSE b
Greatest(a, b) == IF a >= b THEN a ELSE b
AtLeastZero(a) == Greatest(0, a)

Capped(amount, cap) == IF cap = NoCap THEN amount ELSE Least(amount, cap)

-----------------------------------------------------------------------------
(* The cash of a plan.  The decision mapper takes the reserve off the      *)
(* liquid cash; the execution reads that figure with Python's "or", which  *)
(* takes an investable cash of zero for a missing one.                     *)
InvestableCash(liquid, reserved) == AtLeastZero(liquid - reserved)

PlanCash(liquid, reserved) ==
  LET investable == InvestableCash(liquid, reserved)
  IN  IF investable # 0 THEN investable ELSE liquid

-----------------------------------------------------------------------------
(* A position is a record of target and market value, held quantity and    *)
(* quoted price of one symbol.                                             *)
Delta(pos) == pos.target - pos.value

LimitBuyPrice(pos) == (pos.price * LimitBuyPremium + 500) \div 1000
LimitSellPrice(pos) == (pos.price * LimitSellDiscount + 500) \div 1000

SellableNotional(pos) == (pos.held * pos.price) \div ShareUnits

(* Fault: the holding does not limit the budget. *)
SellBudgetOfDelta(pos, cap) ==
  Capped(Greatest(AtLeastZero(-Delta(pos)), AtLeastZero(SellableNotional(pos) - pos.target)), cap)

SellBudget(pos, cap) ==
  LET notional == SellableNotional(pos)
      wanted   == Greatest(AtLeastZero(-Delta(pos)), AtLeastZero(notional - pos.target))
  IN  Capped(Least(wanted, notional), cap)

SellShares(pos, cap) == SellBudget(pos, cap) \div pos.price

(* Faults: the cap, or the cash, does not limit the budget. *)
BuyBudgetUncapped(pos, cash, cap) == Least(Delta(pos), cash)
BuyBudgetOnCredit(pos, cash, cap) == Capped(Delta(pos), cap)

BuyBudget(pos, cash, cap) == Capped(Least(Delta(pos), cash), cap)

(* The account holds whole shares and the target rounds up to one more. *)
TopsUp(pos) ==
  LET shares == pos.held \div ShareUnits
      limit  == LimitBuyPrice(pos)
  IN  /\ shares >= 1
      /\ Delta(pos) > 0
      /\ Delta(pos) < limit
      /\ 2 * AtLeastZero(pos.target) >= limit * (2 * shares + 1)

(* Fault: the share topped up may exceed the cap. *)
BuySharesToppedUpPastCap(pos, cash, cap, mayTopUp) ==
  LET limit == LimitBuyPrice(pos)
      whole == BuyBudget(pos, cash, cap) \div limit
  IN  IF whole > 0 THEN whole
      ELSE IF mayTopUp /\ cash >= limit /\ TopsUp(pos) THEN 1 ELSE 0

BuyShares(pos, cash, cap, mayTopUp) ==
  LET limit == LimitBuyPrice(pos)
      whole == BuyBudget(pos, cash, cap) \div limit
  IN  IF whole > 0 THEN whole
      ELSE IF mayTopUp /\ Capped(cash, cap) >= limit /\ TopsUp(pos) THEN 1 ELSE 0

(* A buy in dollars that would use up the cash leaves some of it. *)
CashBuffered(budget, cash) ==
  LET most == (cash * CashUtilization) \div 100
      kept == IF budget >= MinNotionalBuy /\ cash >= MinNotionalBuy
                THEN Greatest(most, MinNotionalBuy) ELSE most
  IN  IF budget < cash THEN budget ELSE Least(budget, kept)

NotionalBuy(pos, cash, cap) == CashBuffered(BuyBudget(pos, cash, cap), cash)

-----------------------------------------------------------------------------
(* Targets of less than one share, in a plan for whole shares.  Ratios are *)
(* percent of a share's price: a position is kept at one share when its    *)
(* target is that close to it, and a first share is bought, when it can be *)
(* paid for at all.  Any other target below one share becomes cash.        *)
RetainsShare(pos, ratio) ==
  /\ pos.held >= ShareUnits
  /\ 0 < pos.target /\ pos.target < pos.price
  /\ 100 * pos.target >= ratio * pos.price

BuysFirstShare(pos, ratio, power) ==
  LET limit == LimitBuyPrice(pos) IN
  /\ pos.held = 0
  /\ 0 < pos.target /\ pos.target < limit /\ limit <= power
  /\ 100 * pos.target >= ratio * limit

WholeShareTarget(pos, retain, bootstrap, power) ==
  IF pos.price = NoQuote THEN pos.target
  ELSE IF RetainsShare(pos, retain) THEN pos.price
  ELSE IF BuysFirstShare(pos, bootstrap, power) THEN LimitBuyPrice(pos)
  ELSE IF pos.target < pos.price THEN 0 ELSE pos.target
=============================================================================
