------------------------ MODULE OrderExecutionProofs ------------------------
(***************************************************************************)
(* Theorems of OrderExecution for any number of symbols and any plan.      *)
(***************************************************************************)
EXTENDS OrderExecution, FiniteSetTheorems, TLAPS

-----------------------------------------------------------------------------
(* Sizes.                                                                  *)

LEMMA DivideIsNat == \A n \in Nat, d \in Nat \ {0} : n \div d \in Nat
BY SMT

LEMMA SharesWithinBudget ==
  \A n \in Nat, d \in Nat \ {0} : (n \div d) * d <= n
BY SMT

LEMMA LeastExists ==
  ASSUME NEW T \in SUBSET Nat, T # {}
  PROVE  \E x \in T : \A y \in T : x <= y
<1> DEFINE R == {ss \in Nat \X Nat : ss[1] < ss[2]}
<1>1. IsWellFoundedOn(R, Nat)
  BY NatLessThanWellFounded DEF OpToRel
<1>2. \E x \in T : \A y \in T : ~ (<<y, x>> \in R)
  <2> HIDE DEF R
  <2> QED
    BY <1>1, WFMin
<1>3. PICK x \in T : \A y \in T : ~ (<<y, x>> \in R)
  BY <1>2
<1>4. ASSUME NEW y \in T PROVE x <= y
  <2>1. ~ (y < x)
    BY <1>3, <1>4
  <2>2. QED
    BY <2>1, <1>3
<1>5. QED
  BY <1>4

LEMMA CurrentIsLeft ==
  ASSUME left \subseteq Symbols, left # {}
  PROVE  Current \in left
<1>1. \E x \in left : \A y \in left : x =< y
  BY LeastExists DEF Symbols
<1>2. QED
  BY <1>1, Zenon DEF Current, Min

LEMMA LimitPrices ==
  ASSUME NEW pos, pos.price \in Nat \ {0}
  PROVE  LimitBuyPrice(pos) \in Nat \ {0} /\ LimitSellPrice(pos) \in Nat
<1>1. \A p \in Nat \ {0} : /\ (p * 1005 + 500) \div 1000 \in Nat \ {0}
                           /\ (p * 995 + 500) \div 1000 \in Nat
  BY SMT
<1>2. QED
  BY <1>1 DEF LimitBuyPrice, LimitSellPrice, LimitBuyPremium, LimitSellDiscount

LEMMA BuyBudgetFits ==
  ASSUME NEW pos, Delta(pos) \in Nat, NEW available \in Nat, NEW cap \in Nat
  PROVE  BuyBudget(pos, available, cap) \in Nat /\ BuyBudget(pos, available, cap) <= available
BY DEF BuyBudget, Capped, Least, NoCap

(* Whole shares, the share topped up included, cost no more than the cash. *)
LEMMA BuySharesFit ==
  ASSUME NEW pos, pos.price \in Nat \ {0}, Delta(pos) \in Nat,
         NEW available \in Nat, NEW cap \in Nat, NEW mayTopUp
  PROVE  /\ BuyShares(pos, available, cap, mayTopUp) \in Nat
         /\ BuyShares(pos, available, cap, mayTopUp) * LimitBuyPrice(pos) \in Nat
         /\ BuyShares(pos, available, cap, mayTopUp) * LimitBuyPrice(pos) <= available
<1> DEFINE limit  == LimitBuyPrice(pos)
           budget == BuyBudget(pos, available, cap)
           whole  == budget \div limit
           shares == BuyShares(pos, available, cap, mayTopUp)
<1>1. limit \in Nat \ {0}
  BY LimitPrices
<1>2. budget \in Nat /\ budget <= available
  BY BuyBudgetFits
<1>3. whole \in Nat /\ whole * limit <= budget
  <2> HIDE DEF limit, budget
  <2> QED
    BY <1>1, <1>2, DivideIsNat, SharesWithinBudget
<1>4. \/ shares = whole
      \/ shares = 1 /\ Capped(available, cap) >= limit
      \/ shares = 0
  BY DEF BuyShares
<1>5. Capped(available, cap) \in Nat /\ Capped(available, cap) <= available
  BY DEF Capped, Least, NoCap
<1>6. shares \in Nat /\ shares * limit \in Nat /\ shares * limit <= available
  <2> HIDE DEF limit, budget, whole, shares
  <2>1. CASE shares = whole
    <3>1. whole * limit \in Nat
      BY <1>1, <1>3, SMT
    <3>2. QED
      BY <2>1, <3>1, <1>1, <1>2, <1>3
  <2>2. CASE shares = 1 /\ Capped(available, cap) >= limit
    BY <2>2, <1>1, <1>5
  <2>3. CASE shares = 0
    BY <2>3, <1>1
  <2>4. QED
    BY <1>4, <2>1, <2>2, <2>3
<1>7. QED
  BY <1>6

LEMMA NotionalBuyFits ==
  ASSUME NEW pos, Delta(pos) \in Nat, NEW available \in Nat, NEW cap \in Nat
  PROVE  NotionalBuy(pos, available, cap) \in Nat /\ NotionalBuy(pos, available, cap) <= available
<1> DEFINE budget == BuyBudget(pos, available, cap)
<1>1. budget \in Nat /\ budget <= available
  BY BuyBudgetFits
<1>2. (available * CashUtilization) \div 100 \in Nat
  BY DEF CashUtilization
<1>3. CashBuffered(budget, available) \in Nat /\ CashBuffered(budget, available) <= budget
  <2> HIDE DEF budget
  <2> QED
    BY <1>1, <1>2 DEF CashBuffered, Least, Greatest, MinNotionalBuy
<1>4. QED
  BY <1>1, <1>3 DEF NotionalBuy

-----------------------------------------------------------------------------
(* Types of what an order is made of.                                      *)

LEMMA PlanFields ==
  ASSUME TypeOK
  PROVE  /\ plan.liquid \in Int /\ plan.reserved \in Nat /\ plan.cap \in Nat
         /\ plan.live \in BOOLEAN /\ plan.retained \subseteq Symbols
         /\ \A s \in Symbols : /\ plan.position[s].target \in Nat
                              /\ plan.position[s].value \in Nat
                              /\ plan.position[s].held \in Nat
                              /\ price[s] \in Nat
<1>1. /\ plan.liquid \in LiquidCash /\ plan.reserved \in Reserves /\ plan.cap \in Caps
      /\ plan.live \in LiveModes /\ plan.retained \subseteq Symbols
      /\ plan.position \in [Symbols -> [target : Nat, value : Nat, held : Nat]]
  BY DEF TypeOK, Plans
<1>2. ASSUME NEW s \in Symbols
      PROVE  /\ plan.position[s].target \in Nat
             /\ plan.position[s].value \in Nat
             /\ plan.position[s].held \in Nat
  <2>1. plan.position[s] \in [target : Nat, value : Nat, held : Nat]
    BY <1>1
  <2>2. QED
    BY <2>1
<1>3. ASSUME NEW s \in Symbols PROVE price[s] \in Nat
  <2>1. price[s] \in Quotes \cup {NoQuote}
    BY DEF TypeOK
  <2>2. Quotes \subseteq Nat
    BY OrderExecutionAssumption
  <2>3. NoQuote \in Nat
    BY DEF NoQuote
  <2>4. QED
    BY <2>1, <2>2, <2>3, Zenon
<1>4. QED
  BY <1>1, <1>2, <1>3, OrderExecutionAssumption

LEMMA DeltaOfPosition ==
  ASSUME NEW s \in Symbols PROVE Delta(Position(s)) = Delta(plan.position[s])
BY DEF Delta, Position

LEMMA BuyOrderFits ==
  ASSUME TypeOK, NEW s \in Buys, NEW available \in Nat
  PROVE  /\ BuyOrder(s, available).shares \in Nat
         /\ BuyOrder(s, available).amount \in Nat
         /\ BuyOrder(s, available).amount <= available
<1> DEFINE pos == Position(s)
<1>1. s \in Symbols /\ price[s] # NoQuote /\ Delta(plan.position[s]) > 0
  BY DEF Buys, Tradable
<1>2. pos.price \in Nat \ {0} /\ plan.cap \in Nat
  BY <1>1, PlanFields DEF Position, NoQuote
<1>3. Delta(pos) \in Nat
  <2>1. Delta(plan.position[s]) \in Int
    BY <1>1, PlanFields DEF Delta
  <2>2. QED
    BY <2>1, <1>1, DeltaOfPosition
<1> HIDE DEF pos
<1>4. /\ BuyShares(pos, available, plan.cap, SellAccepted) \in Nat
      /\ BuyShares(pos, available, plan.cap, SellAccepted) * LimitBuyPrice(pos) \in Nat
      /\ BuyShares(pos, available, plan.cap, SellAccepted) * LimitBuyPrice(pos) <= available
  BY <1>2, <1>3, BuySharesFit
<1>5. NotionalBuy(pos, available, plan.cap) \in Nat /\ NotionalBuy(pos, available, plan.cap) <= available
  BY <1>2, <1>3, NotionalBuyFits
<1>6. BuyOrder(s, available) =
        IF plan.notional
          THEN [shares |-> 0, amount |-> NotionalBuy(pos, available, plan.cap)]
          ELSE [shares |-> BuyShares(pos, available, plan.cap, SellAccepted),
                amount |-> BuyShares(pos, available, plan.cap, SellAccepted) * LimitBuyPrice(pos)]
  BY DEF BuyOrder, pos
<1>7. QED
  BY <1>4, <1>5, <1>6

LEMMA SellSharesType ==
  ASSUME TypeOK, NEW s \in Sells
  PROVE  /\ SellShares(Position(s), plan.cap) \in Nat
         /\ SellShares(Position(s), plan.cap) * LimitSellPrice(Position(s)) \in Nat
<1> DEFINE pos == Position(s)
<1>1. s \in Symbols /\ price[s] # NoQuote
  BY DEF Sells, Tradable
<1>2. pos.price \in Nat \ {0} /\ pos.held \in Nat /\ pos.target \in Nat
  BY <1>1, PlanFields DEF Position, NoQuote
<1>3. Delta(pos) \in Int
  BY <1>1, PlanFields, DeltaOfPosition DEF Delta
<1>4. LimitSellPrice(pos) \in Nat
  BY <1>2, LimitPrices
<1> HIDE DEF pos
<1>5. SellableNotional(pos) \in Nat
  <2>1. pos.held * pos.price \in Nat
    BY <1>2, SMT
  <2>2. QED
    BY <2>1, DivideIsNat, ShareUnitsAssumption DEF SellableNotional
<1>6. SellBudget(pos, plan.cap) \in Nat
  BY <1>2, <1>3, <1>5, PlanFields DEF SellBudget, Capped, Least, Greatest, AtLeastZero, NoCap
<1>7. SellShares(pos, plan.cap) \in Nat
  BY <1>2, <1>6, DivideIsNat DEF SellShares
<1>8. SellShares(pos, plan.cap) * LimitSellPrice(pos) \in Nat
  BY <1>4, <1>7, SMT
<1>9. QED
  BY <1>7, <1>8 DEF pos

(* The next order, in the phase it belongs to. *)
LEMMA NextOrderFits ==
  ASSUME TypeOK, CashIsThere, NEW order \in NextOrder
  PROVE  /\ order.symbol \in Symbols /\ order.side \in {"sell", "buy"}
         /\ order.shares \in Nat /\ order.amount \in Nat
         /\ phase \in {"sells", "buys"}
         /\ phase = "sells" => Spends(order) = 0
         /\ Spends(order) \in Nat
         /\ phase = "buys" => Spends(order) <= cash
<1>1. \/ phase = "sells" /\ left # {} /\ order \in NextSell
      \/ phase = "buys" /\ left # {} /\ order \in NextBuy
  BY DEF NextOrder
<1>2. left # {} => Current \in left
  BY CurrentIsLeft DEF TypeOK
<1>3. CASE phase = "sells" /\ left # {} /\ order \in NextSell
  <2>1. Current \in Sells
    BY <1>2, <1>3 DEF CashIsThere
  <2>2. Current \in Symbols
    BY <2>1 DEF Sells, Tradable
  <2>3. /\ SellShares(Position(Current), plan.cap) \in Nat
        /\ SellShares(Position(Current), plan.cap) * LimitSellPrice(Position(Current)) \in Nat
    BY <2>1, SellSharesType
  <2>4. /\ order.symbol = Current /\ order.side = "sell"
        /\ order.shares = SellShares(Position(Current), plan.cap)
        /\ order.amount = SellShares(Position(Current), plan.cap)
                          * LimitSellPrice(Position(Current))
    BY <1>3 DEF NextSell
  <2>5. QED
    BY <1>3, <2>2, <2>3, <2>4 DEF Spends
<1>4. CASE phase = "buys" /\ left # {} /\ order \in NextBuy
  <2>1. Current \in Buys
    BY <1>2, <1>4 DEF CashIsThere
  <2>2. Current \in Symbols
    BY <2>1 DEF Buys, Tradable
  <2>3. /\ BuyOrder(Current, cash).shares \in Nat /\ BuyOrder(Current, cash).amount \in Nat
        /\ BuyOrder(Current, cash).amount <= cash
    BY <2>1, BuyOrderFits DEF TypeOK
  <2>4. /\ order.symbol = Current /\ order.side = "buy"
        /\ order.shares = BuyOrder(Current, cash).shares
        /\ order.amount = BuyOrder(Current, cash).amount
    BY <1>4 DEF NextBuy
  <2>5. QED
    BY <1>4, <2>2, <2>3, <2>4 DEF Spends
<1>5. QED
  BY <1>1, <1>3, <1>4

-----------------------------------------------------------------------------
(* Every step keeps the types.                                             *)

LEMMA StartTypes == Init => TypeOK
<1> SUFFICES ASSUME Init PROVE TypeOK
  OBVIOUS
<1>0. plan \in Plans
  BY OrderExecutionAssumption DEF Init, Plans
<1>1. AtLeastZero(PlanCash(plan.liquid, plan.reserved)) \in Nat
  <2>1. plan.liquid \in Int /\ plan.reserved \in Nat
    BY <1>0, OrderExecutionAssumption DEF Plans
  <2>2. QED
    BY <2>1 DEF AtLeastZero, Greatest, PlanCash, InvestableCash
<1>2. QED
  BY <1>0, <1>1 DEF Init, TypeOK, Phases, Results, NoResult

(* The targets adjusted to cash and whole shares are amounts still, and    *)
(* only symbols of the plan are retained.                                  *)
LEMMA AdjustTypes ==
  ASSUME TypeOK, AdjustTargets
  PROVE  plan' \in Plans /\ plan'.liquid = plan.liquid
<1>1. PICK first \in [Symbols -> Quotes \cup {NoQuote}], swept \in BOOLEAN :
        plan' = [position |-> [s \in Symbols |->
                                 [target |-> AdjustedTarget(s, first, swept),
                                  value |-> plan.position[s].value, held |-> plan.position[s].held]],
                 retained |-> {s \in Symbols : first[s] # NoQuote
                                                /\ RetainsShare(Quoted(s, first), RetainRatio[s])},
                 liquid |-> plan.liquid, reserved |-> plan.reserved, cap |-> plan.cap,
                 live |-> plan.live, cashOnly |-> plan.cashOnly, notional |-> plan.notional]
  BY DEF AdjustTargets
<1>2. ASSUME NEW s \in Symbols PROVE AdjustedTarget(s, first, swept) \in Nat
  <2>1. HavenAsCash(s) \in Nat
    BY PlanFields DEF HavenAsCash
  <2>2. first[s] \in Nat
    <3>1. first[s] \in Quotes \cup {NoQuote}
      OBVIOUS
    <3>2. Quotes \subseteq Nat /\ NoQuote \in Nat
      BY OrderExecutionAssumption DEF NoQuote
    <3>3. QED
      BY <3>1, <3>2, Zenon
  <2>3. WholeShares(s, first) \in Nat
    <3> DEFINE pos == Quoted(s, first)
    <3>1. pos.price \in Nat /\ pos.target \in Nat
      BY <2>1, <2>2 DEF Quoted
    <3> HIDE DEF pos
    <3>2. CASE pos.price = NoQuote
      BY <3>1, <3>2 DEF WholeShares, WholeShareTarget, pos
    <3>3. CASE pos.price # NoQuote
      <4>1. LimitBuyPrice(pos) \in Nat
        BY <3>1, <3>3, LimitPrices DEF NoQuote
      <4>2. WholeShares(s, first) \in {pos.price, LimitBuyPrice(pos), 0, pos.target}
        BY <3>3 DEF WholeShares, WholeShareTarget, pos
      <4>3. QED
        BY <3>1, <4>1, <4>2
    <3>4. QED
      BY <3>2, <3>3
  <2>4. QED
    BY <2>1, <2>3 DEF AdjustedTarget
<1>3. /\ plan.liquid \in LiquidCash /\ plan.reserved \in Reserves /\ plan.cap \in Caps
      /\ plan.live \in LiveModes /\ plan.cashOnly \in CashOnly /\ plan.notional \in Notional
  BY DEF TypeOK, Plans
<1>4. plan'.position \in [Symbols -> [target : Nat, value : Nat, held : Nat]]
  BY <1>1, <1>2, PlanFields
<1>5. QED
  BY <1>1, <1>3, <1>4 DEF Plans

LEMMA SubmitTypes ==
  ASSUME TypeOK, CashIsThere, NEW order \in NextOrder, NEW answer \in Statuses,
         Submit(order, answer)
  PROVE  /\ plan' = plan /\ price' = price /\ release' = release
         /\ left' \subseteq left
         /\ cash' \in Nat /\ committed' \in Nat
         /\ sellsOpen' \subseteq Symbols /\ sent' \subseteq Orders
         /\ skipped' \subseteq Symbols \X Reasons /\ claimed' \in BOOLEAN
<1>1. /\ order.symbol \in Symbols /\ order.side \in {"sell", "buy"}
      /\ order.shares \in Nat /\ order.amount \in Nat /\ Spends(order) \in Nat
  BY NextOrderFits
<1>2. cash' \in Nat /\ committed' \in Nat
  BY <1>1 DEF TypeOK, Submit, AtLeastZero, Greatest
<1>3. sent' \subseteq Orders
  BY <1>1 DEF TypeOK, Submit, Orders
<1>4. sellsOpen' \subseteq Symbols /\ claimed' \in BOOLEAN
  BY <1>1, PlanFields DEF TypeOK, Submit
<1>5. skipped' \subseteq Symbols \X Reasons
  BY <1>1 DEF TypeOK, Submit, Reasons
<1>6. QED
  BY <1>2, <1>3, <1>4, <1>5 DEF Submit

LEMMA StepTypes == TypeOK /\ CashIsThere /\ [Next]_vars => TypeOK'
<1> SUFFICES ASSUME TypeOK, CashIsThere, [Next]_vars PROVE TypeOK'
  OBVIOUS
<1>1. CASE QuoteAll
  <2>1. PICK quoted \in [Symbols -> Quotes \cup {NoQuote}] :
          /\ price' = quoted
          /\ skipped' = {<<s, IF BelowThreshold(s) THEN "below_trade_threshold"
                                                  ELSE "quote_unavailable">> :
                           s \in {t \in Symbols : quoted[t] = NoQuote}}
          /\ left' = {s \in Symbols : quoted[s] # NoQuote /\ Delta(plan.position[s]) < 0}
    BY <1>1 DEF QuoteAll
  <2>2. skipped' \subseteq Symbols \X Reasons
    BY <2>1 DEF Reasons
  <2>3. QED
    BY <1>1, <2>1, <2>2 DEF QuoteAll, TypeOK, Phases, Plans
<1>2. CASE SellZero
  <2>1. Current \in Symbols
    BY <1>2, CurrentIsLeft DEF SellZero, TypeOK
  <2>2. QED
    BY <1>2, <2>1 DEF SellZero, TypeOK, Reasons, Plans
<1>3. CASE SubmitOrder
  <2>1. PICK order \in NextOrder, answer \in Answers :
          /\ Submit(order, answer)
          /\ \/ phase' = "done" /\ result' = UnknownResult
             \/ UNCHANGED <<phase, result>>
    BY <1>3 DEF SubmitOrder
  <2>2. answer \in Statuses
    BY DEF Answers, Statuses
  <2>3. UnknownResult \in Results
    BY DEF UnknownResult, Results
  <2>4. QED
    BY <2>1, <2>2, <2>3, SubmitTypes DEF TypeOK, Phases, Plans
<1>4. CASE SubmitRaises
  <2>1. PICK order \in NextOrder : Submit(order, "lost")
    BY <1>4 DEF SubmitRaises
  <2>2. "lost" \in Statuses
    BY DEF Statuses
  <2>3. QED
    BY <1>4, <2>1, <2>2, SubmitTypes DEF SubmitRaises, TypeOK, Phases, Plans
<1>5. CASE ClaimUnavailable
  <2>1. PICK order \in NextOrder :
          skipped' = skipped \cup {<<order.symbol, "duplicate_live_strategy_run">>}
    BY <1>5 DEF ClaimUnavailable
  <2>2. order.symbol \in Symbols
    BY NextOrderFits
  <2>3. result' \in Results
    BY <1>5 DEF ClaimUnavailable, NoResult, Results
  <2>4. QED
    BY <1>5, <2>1, <2>2, <2>3 DEF ClaimUnavailable, TypeOK, Phases, Reasons, Plans
<1>6. CASE BeginRelease
  BY <1>6 DEF BeginRelease, SellReleases, TypeOK, Orders, Phases, Plans
<1>7. CASE ConfirmFill
  <2>1. PICK order \in SellReleases : \E proceeds \in Fills(order) : release' = release + proceeds
    BY <1>7 DEF ConfirmFill
  <2>2. order \in Orders
    BY DEF SellReleases, TypeOK
  <2>3. order.amount \in Nat /\ order.symbol \in Symbols
    BY <2>2 DEF Orders
  <2>4. LimitSellPrice(Position(order.symbol)) \in Nat
    <3>1. \A p \in Nat : (p * 995 + 500) \div 1000 \in Nat
      BY SMT
    <3>2. QED
      BY <2>3, <3>1, PlanFields DEF LimitSellPrice, LimitSellDiscount, Position
  <2>5. release' \in Nat
    BY <2>1, <2>3, <2>4 DEF Fills, TypeOK
  <2>6. QED
    BY <1>7, <2>5 DEF ConfirmFill, TypeOK, Plans
<1>8. CASE StatusQueryRaises
  BY <1>8 DEF StatusQueryRaises, TypeOK, Phases, Plans
<1>9. CASE DecideBuys
  <2>1. cash' \in Nat
    BY <1>9, PlanFields DEF DecideBuys, TypeOK, AtLeastZero, Greatest, PlanCash, InvestableCash
  <2>2. Buys \subseteq Symbols
    BY DEF Buys, Tradable
  <2>3. Buys \X BuysBlockedBy(cash') \subseteq Symbols \X Reasons
    BY <2>2 DEF BuysBlockedBy, Reasons
  <2>4. QED
    BY <1>9, <2>1, <2>2, <2>3 DEF DecideBuys, TypeOK, Phases, Plans
<1>10. CASE BuyZero
  <2>1. Current \in Symbols
    BY <1>10, CurrentIsLeft DEF BuyZero, TypeOK
  <2>2. QED
    BY <1>10, <2>1 DEF BuyZero, TypeOK, Reasons, Plans
<1>11. CASE Finish
  <2>1. result' \in Results
    BY <1>11 DEF Finish, Results
  <2>2. QED
    BY <1>11, <2>1 DEF Finish, TypeOK, Phases, Plans
<1>12. CASE AdjustTargets
  BY <1>12, AdjustTypes DEF AdjustTargets, TypeOK, Phases
<1>13. CASE UNCHANGED vars
  BY <1>13 DEF vars, TypeOK, Plans
<1>14. QED
  BY <1>1, <1>2, <1>3, <1>4, <1>5, <1>6, <1>7, <1>8, <1>9, <1>10, <1>11, <1>12, <1>13
     DEF Next, Ended

-----------------------------------------------------------------------------
(* Every step keeps the cash.                                              *)

LEMMA StartCash == Init => CashIsThere
<1> SUFFICES ASSUME Init PROVE CashIsThere
  OBVIOUS
<1>1. plan.liquid \in Int
  BY OrderExecutionAssumption DEF Init, Plans
<1>2. QED
  BY <1>1 DEF Init, CashIsThere, BuysCoveredByCash, AtLeastZero, Greatest

(* The plan's cash is never above the liquid cash. *)
LEMMA PlanCashIsLiquid ==
  ASSUME NEW liquid \in Int, NEW reserved \in Nat
  PROVE  PlanCash(liquid, reserved) \in Int /\ PlanCash(liquid, reserved) <= liquid
BY DEF PlanCash, InvestableCash, AtLeastZero, Greatest

(* The sets of symbols to sell and to buy depend on plan and quotes alone. *)
LEMMA SameSymbols ==
  ASSUME plan' = plan, price' = price
  PROVE  Sells' = Sells /\ Buys' = Buys
BY DEF Sells, Buys, Tradable, BelowThreshold

LEMMA SubmitCash ==
  ASSUME TypeOK, CashIsThere, NEW order \in NextOrder, NEW answer \in Statuses,
         Submit(order, answer)
  PROVE  /\ BuysCoveredByCash'
         /\ phase = "sells" => committed' = 0 /\ left' \subseteq Sells
         /\ phase = "buys" /\ answer \in {"submitted", "rejected", "previewed"} =>
              /\ cash' + committed' <= AtLeastZero(plan.liquid + release)
              /\ left' \subseteq Buys
<1>1. /\ Spends(order) \in Nat /\ phase \in {"sells", "buys"}
      /\ phase = "sells" => Spends(order) = 0
      /\ phase = "buys" => Spends(order) <= cash
  BY NextOrderFits
<1>2. /\ committed' = (IF answer = "rejected" THEN committed ELSE committed + Spends(order))
      /\ cash' = (IF answer \in {"submitted", "previewed"}
                    THEN AtLeastZero(cash - Spends(order)) ELSE cash)
      /\ left' \subseteq left /\ plan' = plan /\ release' = release
  BY DEF Submit
<1>3. /\ cash \in Nat /\ committed \in Nat /\ release \in Nat /\ plan.liquid \in Int
      /\ committed <= AtLeastZero(plan.liquid + release)
      /\ phase = "sells" => committed = 0 /\ left \subseteq Sells
      /\ phase = "buys" => /\ cash + committed <= AtLeastZero(plan.liquid + release)
                           /\ left \subseteq Buys
  BY PlanFields DEF TypeOK, CashIsThere, BuysCoveredByCash
<1>4. AtLeastZero(plan.liquid + release) \in Nat
  BY <1>3 DEF AtLeastZero, Greatest
<1>5. committed' <= AtLeastZero(plan.liquid + release)
  BY <1>1, <1>2, <1>3, <1>4
<1>6. CASE phase = "sells"
  BY <1>1, <1>2, <1>3, <1>5, <1>6 DEF BuysCoveredByCash
<1>7. CASE phase = "buys"
  <2>1. answer \in {"submitted", "previewed"} => cash' = cash - Spends(order)
    BY <1>1, <1>2, <1>3, <1>7 DEF AtLeastZero, Greatest
  <2>2. answer \in {"submitted", "rejected", "previewed"} =>
          cash' + committed' <= AtLeastZero(plan.liquid + release)
    BY <1>1, <1>2, <1>3, <1>4, <1>7, <2>1
  <2>3. QED
    BY <1>2, <1>3, <1>5, <1>7, <2>2 DEF BuysCoveredByCash
<1>8. QED
  BY <1>1, <1>6, <1>7

LEMMA StepCash == TypeOK /\ CashIsThere /\ [Next]_vars => CashIsThere'
<1> SUFFICES ASSUME TypeOK, CashIsThere, [Next]_vars PROVE CashIsThere'
  OBVIOUS
<1>1. CASE QuoteAll
  <2>1. /\ plan' = plan /\ release' = release /\ committed' = committed
        /\ phase = "quotes" /\ phase' = "sells"
        /\ left' \subseteq {s \in Symbols : /\ ~BelowThreshold(s) /\ price'[s] # NoQuote
                                          /\ Delta(plan.position[s]) < 0}
    BY <1>1 DEF QuoteAll
  <2>2. left' \subseteq Sells'
    BY <2>1 DEF Sells, Tradable, BelowThreshold
  <2>3. QED
    BY <2>1, <2>2 DEF CashIsThere, BuysCoveredByCash
<1>2. CASE SellZero
  BY <1>2, SameSymbols DEF SellZero, CashIsThere, BuysCoveredByCash
<1>3. CASE SubmitOrder
  <2>1. PICK order \in NextOrder, answer \in Answers :
          /\ Submit(order, answer)
          /\ \/ answer = "unknown" /\ phase' = "done"
             \/ answer # "unknown" /\ phase' = phase
    BY <1>3 DEF SubmitOrder
  <2>2. answer \in Statuses /\ answer \in {"submitted", "rejected", "unknown", "previewed"}
    BY DEF Answers, Statuses
  <2>3. phase \in {"sells", "buys"} /\ plan' = plan /\ price' = price /\ release' = release
    BY <2>1, NextOrderFits DEF Submit
  <2>4. QED
    BY <2>1, <2>2, <2>3, SubmitCash, SameSymbols DEF CashIsThere
<1>4. CASE SubmitRaises
  <2>1. PICK order \in NextOrder : Submit(order, "lost")
    BY <1>4 DEF SubmitRaises
  <2>2. "lost" \in Statuses
    BY DEF Statuses
  <2>3. QED
    BY <1>4, <2>1, <2>2, SubmitCash DEF SubmitRaises, CashIsThere
<1>5. CASE ClaimUnavailable
  BY <1>5 DEF ClaimUnavailable, CashIsThere, BuysCoveredByCash
<1>6. CASE BeginRelease
  BY <1>6 DEF BeginRelease, CashIsThere, BuysCoveredByCash
<1>7. CASE ConfirmFill
  <2>1. /\ phase = "release" /\ phase' = "release" /\ plan' = plan /\ committed' = committed
        /\ committed = 0
    BY <1>7 DEF ConfirmFill, CashIsThere
  <2>2. release' \in Nat /\ plan.liquid \in Int
    BY StepTypes, PlanFields DEF TypeOK
  <2>3. AtLeastZero(plan.liquid + release') >= 0
    BY <2>2 DEF AtLeastZero, Greatest
  <2>4. QED
    BY <2>1, <2>3 DEF CashIsThere, BuysCoveredByCash
<1>8. CASE StatusQueryRaises
  BY <1>8 DEF StatusQueryRaises, CashIsThere, BuysCoveredByCash
<1>9. CASE DecideBuys
  <2>1. /\ phase' = "buys" /\ plan' = plan /\ price' = price /\ release' = release
        /\ committed' = committed /\ committed = 0
        /\ cash' = AtLeastZero(PlanCash(plan.liquid, plan.reserved) + release)
        /\ left' \subseteq Buys
    BY <1>9 DEF DecideBuys, CashIsThere
  <2>2. plan.liquid \in Int /\ plan.reserved \in Nat /\ release \in Nat
    BY PlanFields DEF TypeOK
  <2>3. /\ PlanCash(plan.liquid, plan.reserved) \in Int
        /\ PlanCash(plan.liquid, plan.reserved) <= plan.liquid
    BY <2>2, PlanCashIsLiquid
  <2>4. /\ cash' \in Nat /\ cash' <= AtLeastZero(plan.liquid + release)
        /\ AtLeastZero(plan.liquid + release) >= 0
    BY <2>1, <2>2, <2>3 DEF AtLeastZero, Greatest
  <2>5. QED
    BY <2>1, <2>4, SameSymbols DEF CashIsThere, BuysCoveredByCash
<1>10. CASE BuyZero
  BY <1>10, SameSymbols DEF BuyZero, CashIsThere, BuysCoveredByCash
<1>11. CASE Finish
  BY <1>11 DEF Finish, CashIsThere, BuysCoveredByCash
<1>12. CASE AdjustTargets
  <2>1. /\ phase = "targets" /\ phase' = "quotes"
        /\ release' = release /\ committed' = committed
    BY <1>12 DEF AdjustTargets
  <2>2. plan'.liquid = plan.liquid
    BY <1>12, AdjustTypes
  <2>3. QED
    BY <2>1, <2>2 DEF CashIsThere, BuysCoveredByCash
<1>13. CASE UNCHANGED vars
  BY <1>13, SameSymbols DEF vars, CashIsThere, BuysCoveredByCash
<1>14. QED
  BY <1>1, <1>2, <1>3, <1>4, <1>5, <1>6, <1>7, <1>8, <1>9, <1>10, <1>11, <1>12, <1>13
     DEF Next, Ended

-----------------------------------------------------------------------------
(* The execution keeps its types and its inductive cash invariant for any  *)
(* plan, cap, reserve and broker answers.                                  *)
THEOREM ExecutionInvariant == Spec => [](TypeOK /\ CashIsThere)
<1>1. Init => TypeOK /\ CashIsThere
  BY StartTypes, StartCash
<1>2. (TypeOK /\ CashIsThere) /\ [Next]_vars => (TypeOK /\ CashIsThere)'
  BY StepTypes, StepCash
<1>3. QED
  BY <1>1, <1>2, PTL DEF Spec

(* However many symbols a plan has and whatever the broker answers, a live *)
(* or dry-run execution commits no more to buys than the liquid cash and   *)
(* the sells the broker has confirmed: what the investable_cash updates of *)
(* execute_value_target_plan are for.                                      *)
THEOREM CashCoversBuys == Spec => []BuysCoveredByCash
<1>1. CashIsThere => BuysCoveredByCash
  BY DEF CashIsThere
<1>2. QED
  BY <1>1, ExecutionInvariant, PTL

-----------------------------------------------------------------------------
(* What limits a single order.                                             *)

LEMMA CancelFactor ==
  ASSUME NEW a \in Int, NEW b \in Int, NEW p \in Nat \ {0}, a * p <= b * p
  PROVE  a <= b
<1>1. SUFFICES ASSUME a > b PROVE FALSE
  OBVIOUS
<1>2. a - b \in Nat \ {0} /\ (a - b) * p = a * p - b * p
  BY <1>1
<1>3. \A x \in Nat \ {0}, y \in Nat \ {0} : x * y > 0
  OBVIOUS
<1>4. (a - b) * p > 0
  BY <1>2, <1>3
<1>5. a * p \in Int /\ b * p \in Int
  OBVIOUS
<1>6. QED
  BY <1>2, <1>4, <1>5

(* A number of shares worth at most a part of a holding's worth.           *)
LEMMA WorthOfHolding ==
  ASSUME NEW held \in Nat, NEW quote \in Nat \ {0}, NEW shares \in Nat, NEW kept \in Nat,
         shares * quote <= (held * quote) \div ShareUnits - kept
  PROVE  kept * ShareUnits <= (held - shares * ShareUnits) * quote
<1> DEFINE U == ShareUnits
           worth == (held * quote) \div U
<1>1. U \in Nat \ {0}
  BY ShareUnitsAssumption
<1>2. held * quote \in Nat
  OBVIOUS
<1>3. worth \in Nat /\ worth * U <= held * quote
  <2> HIDE DEF U
  <2>1. QED
    BY <1>1, <1>2, DivideIsNat, SharesWithinBudget
<1>4. shares * quote + kept <= worth
  <2> HIDE DEF worth
  <2>1. shares * quote \in Nat
    OBVIOUS
  <2>2. shares * quote <= worth - kept
    BY DEF worth
  <2>3. QED
    BY <1>3, <2>1, <2>2
<1> HIDE DEF worth, U
<1>5. (shares * quote + kept) * U <= worth * U
  <2>1. shares * quote + kept \in Nat
    OBVIOUS
  <2>2. \A x \in Nat, y \in Nat, z \in Nat : x <= y => x * z <= y * z
    OBVIOUS
  <2>3. QED
    BY <1>1, <1>3, <1>4, <2>1, <2>2
<1>6. (shares * quote + kept) * U = shares * U * quote + kept * U
  BY <1>1
<1>7. (held - shares * U) * quote = held * quote - shares * U * quote
  BY <1>1
<1>8. shares * U * quote \in Int /\ kept * U \in Int /\ worth * U \in Int
  BY <1>1, <1>3
<1>9. kept * U <= (held - shares * U) * quote
  BY <1>2, <1>3, <1>5, <1>6, <1>7, <1>8
<1>10. QED
  BY <1>9 DEF U

(* What a sell's budget is at most: the worth held, the cap, and where the *)
(* market value is not above the worth, what goes beyond the target.       *)
LEMMA SellBudgetLimits ==
  ASSUME NEW pos, pos.price \in Nat, pos.held \in Nat, pos.target \in Nat, pos.value \in Nat,
         NEW cap \in Nat
  PROVE  /\ SellBudget(pos, cap) \in Nat
         /\ SellBudget(pos, cap) <= SellableNotional(pos)
         /\ cap # NoCap => SellBudget(pos, cap) <= cap
         /\ pos.value <= SellableNotional(pos) =>
              SellBudget(pos, cap) <= AtLeastZero(SellableNotional(pos) - pos.target)
<1>1. SellableNotional(pos) \in Nat
  <2>1. pos.held * pos.price \in Nat
    BY SMT
  <2>2. QED
    BY <2>1, DivideIsNat, ShareUnitsAssumption DEF SellableNotional
<1>2. Delta(pos) = pos.target - pos.value
  BY DEF Delta
<1>3. QED
  BY <1>1, <1>2 DEF SellBudget, Capped, Least, Greatest, AtLeastZero, NoCap

LEMMA SellLimits ==
  ASSUME NEW pos, pos.price \in Nat \ {0}, pos.held \in Nat, pos.target \in Nat,
         pos.value \in Nat, NEW cap \in Nat
  PROVE  LET shares == SellShares(pos, cap) IN
         /\ shares \in Nat
         /\ shares * ShareUnits <= pos.held
         /\ cap # NoCap => shares * pos.price <= cap
         /\ shares > 0 /\ pos.value <= SellableNotional(pos) =>
              pos.target * ShareUnits <= (pos.held - shares * ShareUnits) * pos.price
<1> DEFINE shares == SellShares(pos, cap)
           budget == SellBudget(pos, cap)
           worth  == SellableNotional(pos)
           U == ShareUnits
<1>1. /\ budget \in Nat /\ budget <= worth /\ (cap # NoCap => budget <= cap)
      /\ pos.value <= worth => budget <= AtLeastZero(worth - pos.target)
  BY SellBudgetLimits
<1>2. worth \in Nat /\ U \in Nat \ {0}
  <2>1. pos.held * pos.price \in Nat
    BY SMT
  <2>2. QED
    BY <2>1, DivideIsNat, ShareUnitsAssumption DEF SellableNotional
<1>3. shares \in Nat /\ shares * pos.price <= budget
  <2> HIDE DEF budget
  <2>1. shares = budget \div pos.price
    BY DEF SellShares, budget
  <2>2. QED
    BY <1>1, <2>1, DivideIsNat, SharesWithinBudget
<1>4. worth = (pos.held * pos.price) \div ShareUnits
  BY DEF SellableNotional
<1>5. shares * U <= pos.held
  <2> HIDE DEF shares, budget, worth
  <2>1. shares * pos.price <= worth - 0
    BY <1>1, <1>2, <1>3, SMT
  <2>2. 0 * ShareUnits <= (pos.held - shares * ShareUnits) * pos.price
    BY <1>3, <1>4, <2>1, WorthOfHolding
  <2>3. (pos.held - shares * U) * pos.price = pos.held * pos.price - shares * U * pos.price
    BY <1>2, <1>3
  <2>4. shares * U \in Nat
    BY <1>2, <1>3
  <2>5. (shares * U) * pos.price <= pos.held * pos.price
    BY <1>2, <1>3, <2>2, <2>3, <2>4
  <2> HIDE DEF U
  <2>6. QED
    BY <2>4, <2>5, CancelFactor
<1>6. cap # NoCap => shares * pos.price <= cap
  <2> HIDE DEF shares, budget
  <2>1. shares * pos.price \in Nat
    BY <1>3
  <2>2. QED
    BY <1>1, <1>3, <2>1
<1>7. ASSUME shares > 0, pos.value <= worth
      PROVE  pos.target * U <= (pos.held - shares * U) * pos.price
  <2> HIDE DEF shares, budget, worth
  <2>1. shares * pos.price \in Nat \ {0}
    <3>1. \A x \in Nat \ {0}, y \in Nat \ {0} : x * y \in Nat \ {0}
      OBVIOUS
    <3>2. QED
      BY <1>3, <1>7, <3>1
  <2>2. shares * pos.price <= worth - pos.target
    BY <1>1, <1>2, <1>3, <1>7, <2>1 DEF AtLeastZero, Greatest
  <2>3. QED
    BY <1>3, <1>4, <2>2, WorthOfHolding
<1>8. QED
  BY <1>3, <1>5, <1>6, <1>7

(* A buy stays within the cap, topped up or in dollars.                    *)
LEMMA BuyCapped ==
  ASSUME NEW pos, pos.price \in Nat \ {0}, Delta(pos) \in Nat,
         NEW available \in Nat, NEW cap \in Nat \ {NoCap}, NEW mayTopUp
  PROVE  /\ BuyShares(pos, available, cap, mayTopUp) * LimitBuyPrice(pos) <= cap
         /\ NotionalBuy(pos, available, cap) <= cap
<1> DEFINE limit  == LimitBuyPrice(pos)
           budget == BuyBudget(pos, available, cap)
           whole  == budget \div limit
           shares == BuyShares(pos, available, cap, mayTopUp)
<1>1. limit \in Nat \ {0}
  BY LimitPrices
<1>2. budget \in Nat /\ budget <= cap
  BY DEF BuyBudget, Capped, Least, NoCap
<1>3. whole \in Nat /\ whole * limit <= budget
  <2> HIDE DEF limit, budget
  <2> QED
    BY <1>1, <1>2, DivideIsNat, SharesWithinBudget
<1>4. \/ shares = whole
      \/ shares = 1 /\ Capped(available, cap) >= limit
      \/ shares = 0
  BY DEF BuyShares
<1>5. Capped(available, cap) \in Nat /\ Capped(available, cap) <= cap
  BY DEF Capped, Least, NoCap
<1>6. shares * limit <= cap
  <2> HIDE DEF limit, budget, whole, shares
  <2>1. whole * limit \in Nat
    BY <1>1, <1>3
  <2>2. CASE shares = whole
    BY <2>1, <2>2, <1>2, <1>3
  <2>3. CASE shares = 1 /\ Capped(available, cap) >= limit
    BY <2>3, <1>1, <1>5
  <2>4. CASE shares = 0
    BY <2>4, <1>1
  <2>5. QED
    BY <1>4, <2>2, <2>3, <2>4
<1>7. (available * CashUtilization) \div 100 \in Nat
  BY DEF CashUtilization
<1>8. NotionalBuy(pos, available, cap) <= cap
  <2>1. CashBuffered(budget, available) <= budget /\ CashBuffered(budget, available) \in Nat
    <3> HIDE DEF budget
    <3>1. QED
      BY <1>2, <1>7 DEF CashBuffered, Least, Greatest, MinNotionalBuy
  <2>2. NotionalBuy(pos, available, cap) = CashBuffered(budget, available)
    BY DEF NotionalBuy
  <2> HIDE DEF budget
  <2>3. QED
    BY <1>2, <2>1, <2>2
<1>9. QED
  BY <1>6, <1>8

(* An order as it was sized: from plan and quotes, which change no more    *)
(* once an order is sent.                                                  *)
Sized(o) ==
  /\ o.side = "sell" => /\ o.symbol \in Sells /\ o.shares # 0
                        /\ o.shares = SellShares(Position(o.symbol), plan.cap)
  /\ o.side = "buy" /\ plan.cap # NoCap => o.amount <= plan.cap

OrdersAreSized ==
  /\ phase \in {"targets", "quotes"} => sent = {}
  /\ \A o \in sent : Sized(o)

LEMMA SizedStays ==
  ASSUME plan' = plan, price' = price
  PROVE  \A o : Sized(o)' <=> Sized(o)
BY SameSymbols DEF Sized, Position

LEMMA NextOrderSized ==
  ASSUME TypeOK, CashIsThere, NEW order \in NextOrder
  PROVE  Sized(order)
<1>1. left # {} => Current \in left
  BY CurrentIsLeft DEF TypeOK
<1>2. CASE phase = "sells" /\ left # {} /\ order \in NextSell
  BY <1>1, <1>2 DEF CashIsThere, NextSell, Sized
<1>3. CASE phase = "buys" /\ left # {} /\ order \in NextBuy
  <2> DEFINE pos == Position(Current)
  <2>1. Current \in Buys /\ order.side = "buy" /\ order.amount = BuyOrder(Current, cash).amount
    BY <1>1, <1>3 DEF CashIsThere, NextBuy
  <2>2. Current \in Symbols /\ price[Current] # NoQuote /\ Delta(plan.position[Current]) > 0
    BY <2>1 DEF Buys, Tradable
  <2>3. pos.price \in Nat \ {0} /\ plan.cap \in Nat /\ cash \in Nat
    BY <2>2, PlanFields DEF Position, NoQuote, TypeOK
  <2>4. Delta(pos) \in Nat
    <3>1. Delta(plan.position[Current]) \in Int
      BY <2>2, PlanFields DEF Delta
    <3>2. QED
      BY <2>2, <3>1, DeltaOfPosition
  <2>5. order.amount \in {NotionalBuy(pos, cash, plan.cap),
                          BuyShares(pos, cash, plan.cap, SellAccepted) * LimitBuyPrice(pos)}
    BY <2>1 DEF BuyOrder
  <2> HIDE DEF pos
  <2>6. plan.cap # NoCap => order.amount <= plan.cap
    BY <2>3, <2>4, <2>5, BuyCapped
  <2>7. QED
    BY <2>1, <2>6 DEF Sized
<1>4. QED
  BY <1>2, <1>3 DEF NextOrder

LEMMA SubmitSized ==
  ASSUME TypeOK, CashIsThere, OrdersAreSized, NEW order \in NextOrder, NEW answer,
         Submit(order, answer)
  PROVE  /\ \A o \in sent' : Sized(o)'
         /\ phase \in {"sells", "buys"}
<1>1. plan' = plan /\ price' = price
  BY DEF Submit
<1>2. Sized(order) /\ phase \in {"sells", "buys"}
  BY NextOrderSized, NextOrderFits
<1>3. \A o \in sent' : Sized(o)
  <2>1. Sized([symbol |-> order.symbol, side |-> order.side, shares |-> order.shares,
               amount |-> order.amount, status |-> answer])
    BY <1>2 DEF Sized
  <2>2. QED
    BY <2>1 DEF Submit, OrdersAreSized
<1>4. QED
  BY <1>1, <1>2, <1>3, SizedStays

LEMMA StepSized ==
  ASSUME TypeOK, CashIsThere, OrdersAreSized, [Next]_vars
  PROVE  OrdersAreSized'
<1>1. CASE AdjustTargets
  BY <1>1 DEF AdjustTargets, OrdersAreSized
<1>2. CASE QuoteAll
  BY <1>2 DEF QuoteAll, OrdersAreSized
<1>3. CASE SubmitOrder
  <2>1. PICK order \in NextOrder, answer \in Answers :
          Submit(order, answer) /\ phase' \in {"done", phase}
    BY <1>3 DEF SubmitOrder
  <2>2. QED
    BY <2>1, SubmitSized DEF OrdersAreSized
<1>4. CASE SubmitRaises
  BY <1>4, SubmitSized DEF SubmitRaises, OrdersAreSized
<1>5. CASE \/ SellZero \/ ClaimUnavailable \/ BeginRelease \/ ConfirmFill \/ StatusQueryRaises
           \/ DecideBuys \/ BuyZero \/ Finish
  <2>1. plan' = plan /\ price' = price /\ sent' = sent /\ phase' \notin {"targets", "quotes"}
    BY <1>5, NextOrderFits DEF SellZero, ClaimUnavailable, BeginRelease, ConfirmFill,
         StatusQueryRaises, DecideBuys, BuyZero, Finish
  <2>2. QED
    BY <2>1, SizedStays DEF OrdersAreSized
<1>6. CASE UNCHANGED vars
  BY <1>6, SizedStays DEF vars, OrdersAreSized
<1>7. QED
  BY <1>1, <1>2, <1>3, <1>4, <1>5, <1>6 DEF Next, Ended

(* At least one share is left when its worth is, by the two prices or by   *)
(* whole shares.                                                           *)
LEMMA ShareIsLeft ==
  ASSUME NEW held \in Nat, NEW shares \in Nat, NEW quote \in Nat \ {0}, NEW target \in Nat,
         shares * ShareUnits <= held,
         target * ShareUnits <= (held - shares * ShareUnits) * quote,
         \/ quote <= target
         \/ held % ShareUnits = 0 /\ quote < 2 * target
  PROVE  held - shares * ShareUnits >= ShareUnits
<1> DEFINE U == ShareUnits
           rest == held - shares * U
<1>1. U \in Nat \ {0}
  BY ShareUnitsAssumption
<1>2. rest \in Nat
  <2>1. shares * U \in Nat
    BY <1>1
  <2> HIDE DEF U
  <2>2. QED
    BY <2>1 DEF U
<1>3. CASE quote <= target
  <2>1. U * quote <= rest * quote
    <3> HIDE DEF U, rest
    <3>1. U * quote <= target * U
      <4>1. \A x \in Nat, y \in Nat, z \in Nat : x <= y => z * x <= y * z
        OBVIOUS
      <4>2. QED
        BY <1>1, <1>3, <4>1
    <3>2. U * quote \in Nat /\ target * U \in Nat /\ rest * quote \in Nat
      BY <1>1, <1>2
    <3>3. target * U <= rest * quote
      BY DEF U, rest
    <3>4. QED
      BY <3>1, <3>2, <3>3
  <2> HIDE DEF U, rest
  <2>2. U <= rest
    BY <1>1, <1>2, <2>1, CancelFactor
  <2>3. QED
    BY <2>2 DEF U, rest
<1>4. CASE held % U = 0 /\ quote < 2 * target
  <2>1. U * quote < (2 * rest) * quote
    <3> HIDE DEF U, rest
    <3>1. U * quote < 2 * (target * U)
      <4>1. \A x \in Nat, y \in Nat, z \in Nat \ {0} : x < 2 * y => z * x < 2 * (y * z)
        <5>1. SUFFICES ASSUME NEW x \in Nat, NEW y \in Nat, NEW z \in Nat \ {0}, x < 2 * y
                       PROVE  z * x < 2 * (y * z)
          OBVIOUS
        <5>2. \A d \in Nat \ {0} : z * d > 0
          OBVIOUS
        <5>3. 2 * y - x \in Nat \ {0}
          BY <5>1
        <5>4. z * (2 * y - x) = 2 * (y * z) - z * x
          OBVIOUS
        <5>5. z * x \in Int /\ y * z \in Int
          OBVIOUS
        <5>6. QED
          BY <5>2, <5>3, <5>4, <5>5
      <4>2. QED
        BY <1>1, <1>4, <4>1
    <3>2. U * quote \in Nat /\ target * U \in Nat /\ rest * quote \in Nat
      BY <1>1, <1>2
    <3>3. target * U <= rest * quote
      BY DEF U, rest
    <3>4. (2 * rest) * quote = 2 * (rest * quote)
      BY <1>2
    <3>5. QED
      BY <3>1, <3>2, <3>3, <3>4
  <2>2. U < 2 * rest
    <3> HIDE DEF U, rest
    <3>1. CASE 2 * rest <= U
      <4>1. \A x \in Nat, y \in Nat, z \in Nat : x <= y => x * z <= y * z
        OBVIOUS
      <4>2. (2 * rest) * quote <= U * quote
        BY <1>1, <1>2, <3>1, <4>1
      <4>3. (2 * rest) * quote \in Nat /\ U * quote \in Nat
        BY <1>1, <1>2
      <4>4. QED
        BY <2>1, <4>2, <4>3
    <3>2. QED
      BY <1>1, <1>2, <3>1
  <2>3. rest >= U
    <3>1. held = U * (held \div U)
      <4> HIDE DEF U
      <4>1. QED
        BY <1>1, <1>4
    <3>2. held \div U \in Nat
      BY <1>1, DivideIsNat
    <3> DEFINE k == held \div U
    <3>3. rest = U * (k - shares)
      <4> HIDE DEF U, k
      <4>1. U * (k - shares) = U * k - shares * U
        BY <1>1, <3>2 DEF k
      <4>2. QED
        BY <3>1, <4>1 DEF k
    <3> HIDE DEF U, k, rest
    <3>4. k - shares \in Int
      BY <3>2 DEF k
    <3>5. k - shares >= 1
      <4>1. ASSUME k - shares <= 0 PROVE FALSE
        <5>1. \A x \in Nat, y \in Int : y <= 0 => x * y <= 0
          OBVIOUS
        <5>2. rest <= 0
          BY <1>1, <3>3, <3>4, <4>1, <5>1
        <5>3. QED
          BY <1>1, <1>2, <2>2, <5>2
      <4>2. QED
        BY <3>4, <4>1
    <3>6. U * (k - shares) >= U
      <4>1. \A x \in Nat, y \in Int : y >= 1 => x * y >= x
        OBVIOUS
      <4>2. QED
        BY <1>1, <3>4, <3>5, <4>1
    <3>7. QED
      BY <3>3, <3>6
  <2>4. QED
    BY <2>3
<1>5. QED
  BY <1>3, <1>4

(* No order goes past what limits it, for any plan, cap, holding and pair  *)
(* of quotes: a sell stays within the whole shares held and leaves the     *)
(* worth of the target, and a share the plan retains; no order exceeds the *)
(* cap, a share topped up included.                                        *)
THEOREM OrdersStayWithinLimits == Spec => []OrdersWithinLimits
<1>1. Init => OrdersAreSized
  BY DEF Init, OrdersAreSized
<1>2. (TypeOK /\ CashIsThere) /\ OrdersAreSized /\ [Next]_vars => OrdersAreSized'
  BY StepSized
<1>3. (TypeOK /\ CashIsThere) /\ OrdersAreSized => OrdersWithinLimits
  <2> SUFFICES ASSUME TypeOK, OrdersAreSized PROVE OrdersWithinLimits
    OBVIOUS
  <2>1. ASSUME NEW o \in sent, o.side = "sell"
        PROVE  /\ o.shares * ShareUnits <= plan.position[o.symbol].held
               /\ plan.cap # NoCap => o.shares * price[o.symbol] <= plan.cap
               /\ Position(o.symbol).value <= SellableNotional(Position(o.symbol)) =>
                    LET pos  == Position(o.symbol)
                        rest == pos.held - o.shares * ShareUnits
                    IN  /\ rest * pos.price >= pos.target * ShareUnits
                        /\ /\ o.symbol \in plan.retained
                           /\ \/ pos.price <= pos.target
                              \/ pos.held % ShareUnits = 0 /\ pos.price < 2 * pos.target
                           => rest >= ShareUnits
    <3> DEFINE pos == Position(o.symbol)
               shares == SellShares(pos, plan.cap)
    <3>1. o.symbol \in Sells /\ o.shares = shares
      BY <2>1 DEF OrdersAreSized, Sized
    <3>2. o.symbol \in Symbols /\ price[o.symbol] # NoQuote
      BY <3>1 DEF Sells, Tradable
    <3>3. /\ pos.price \in Nat \ {0} /\ pos.held \in Nat /\ pos.target \in Nat
          /\ pos.value \in Nat /\ plan.cap \in Nat
          /\ pos.held = plan.position[o.symbol].held /\ pos.price = price[o.symbol]
      BY <3>2, PlanFields DEF Position, NoQuote
    <3> HIDE DEF pos
    <3>4. /\ shares \in Nat /\ shares * ShareUnits <= pos.held
          /\ plan.cap # NoCap => shares * pos.price <= plan.cap
          /\ shares > 0 /\ pos.value <= SellableNotional(pos) =>
               pos.target * ShareUnits <= (pos.held - shares * ShareUnits) * pos.price
      BY <3>3, SellLimits
    <3>5. shares > 0
      BY <2>1, <3>1, <3>4 DEF OrdersAreSized, Sized
    <3>6. pos.value <= SellableNotional(pos) =>
            /\ (pos.held - shares * ShareUnits) * pos.price >= pos.target * ShareUnits
            /\ \/ pos.price <= pos.target
               \/ pos.held % ShareUnits = 0 /\ pos.price < 2 * pos.target
               => pos.held - shares * ShareUnits >= ShareUnits
      BY <3>3, <3>4, <3>5, ShareIsLeft
    <3>7. QED
      BY <3>1, <3>3, <3>4, <3>6 DEF pos
  <2>2. SellsWithinHolding /\ SellsLeaveTarget
    BY <2>1 DEF SellsWithinHolding, SellsLeaveTarget
  <2>3. OrdersWithinCap
    BY <2>1 DEF OrdersWithinCap, OrdersAreSized, Sized
  <2>4. QED
    BY <2>2, <2>3 DEF OrdersWithinLimits
<1>4. QED
  BY <1>1, <1>2, <1>3, ExecutionInvariant, PTL DEF Spec

-----------------------------------------------------------------------------
(* What the answers of the broker are to the phase and the result: an      *)
(* unknown or lost one has ended the execution, a dry run only previews,   *)
(* and a live execution without the claim has sent nothing.                *)
AnswersAreHeeded ==
  /\ (\E o \in sent : o.status \in {"unknown", "lost"}) => phase \in {"done", "raised"}
  /\ \A o \in sent : o.status = "previewed" <=> ~plan.live
  /\ plan.live /\ sent # {} => claimed
  /\ ResultCoversLiveOrders

LEMMA SubmitAnswers ==
  ASSUME AnswersAreHeeded, TypeOK, NEW order \in NextOrder, NEW answer, Submit(order, answer),
         answer = "previewed" <=> ~plan.live, phase \notin {"done", "raised"}
  PROVE  /\ \A o \in sent' : o.status = "previewed" <=> ~plan'.live
         /\ plan'.live /\ sent' # {} => claimed'
         /\ (\E o \in sent' : o.status = answer)
         /\ \A o \in sent' : o.status \in {"unknown", "lost"} => answer \in {"unknown", "lost"}
<1>1. \A o \in sent' : o \in sent \/ o.status = answer
  BY DEF Submit
<1>2. \E o \in sent' : o.status = answer
  <2> DEFINE o == [symbol |-> order.symbol, side |-> order.side, shares |-> order.shares,
                   amount |-> order.amount, status |-> answer]
  <2>1. o \in sent'
    BY DEF Submit
  <2>2. o.status = answer
    OBVIOUS
  <2> HIDE DEF o
  <2>3. QED
    BY <2>1, <2>2
<1>3. plan' = plan /\ (plan.live => claimed')
  BY PlanFields DEF Submit
<1>4. QED
  BY <1>1, <1>2, <1>3 DEF AnswersAreHeeded

LEMMA StepAnswers ==
  ASSUME TypeOK, CashIsThere, AnswersAreHeeded, [Next]_vars
  PROVE  AnswersAreHeeded'
<1>1. CASE SubmitOrder
  <2>1. PICK order \in NextOrder, answer \in Answers :
          /\ Submit(order, answer)
          /\ IF answer = "unknown" THEN phase' = "done" /\ result' = UnknownResult
                                   ELSE phase' = phase /\ result' = result
    BY <1>1 DEF SubmitOrder
  <2>2. answer = "previewed" <=> ~plan.live
    BY PlanFields DEF Answers
  <2>3. phase \in {"sells", "buys"} /\ answer # "lost"
    BY NextOrderFits DEF Answers
  <2>4. /\ \A o \in sent' : o.status = "previewed" <=> ~plan'.live
        /\ plan'.live /\ sent' # {} => claimed'
        /\ (\E o \in sent' : o.status = answer)
        /\ \A o \in sent' : o.status \in {"unknown", "lost"} => answer \in {"unknown", "lost"}
    BY <2>1, <2>2, <2>3, SubmitAnswers
  <2>5. ResultCoversLiveOrders'
    BY <2>1, <2>3, <2>4 DEF ResultCoversLiveOrders, UnknownResult
  <2>6. (\E o \in sent' : o.status \in {"unknown", "lost"}) => phase' \in {"done", "raised"}
    BY <2>1, <2>3, <2>4
  <2>7. QED
    BY <2>4, <2>5, <2>6 DEF AnswersAreHeeded
<1>2. CASE SubmitRaises
  <2>1. PICK order \in NextOrder : Submit(order, "lost")
    BY <1>2 DEF SubmitRaises
  <2>2. plan.live /\ phase \in {"sells", "buys"} /\ phase' = "raised"
    BY <1>2, <2>1, NextOrderFits DEF SubmitRaises
  <2>3. QED
    BY <2>1, <2>2, SubmitAnswers DEF AnswersAreHeeded, ResultCoversLiveOrders
<1>3. CASE ClaimUnavailable
  <2>1. sent' = sent /\ plan' = plan /\ claimed' = claimed /\ phase' = "done" /\ sent = {}
        /\ result' = [NoResult EXCEPT !.blocked = TRUE]
    BY <1>3 DEF ClaimUnavailable, AnswersAreHeeded
  <2>2. QED
    BY <2>1 DEF AnswersAreHeeded, ResultCoversLiveOrders, NoResult
<1>4. CASE Finish
  <2>1. /\ sent' = sent /\ plan' = plan /\ claimed' = claimed /\ phase' = "done" /\ phase = "buys"
    BY <1>4 DEF Finish
  <2>2. \A o \in sent : o.status \notin {"unknown", "lost"}
    BY <2>1 DEF AnswersAreHeeded
  <2> DEFINE live == {x \in sent : x.status # "rejected"}
             statuses == {o.status : o \in live}
  <2>3. /\ result'.pending = ("submitted" \in statuses)
        /\ result'.actionDone = (statuses # {} /\ ~("submitted" \in statuses)
                                 /\ statuses \subseteq {"previewed"})
        /\ result'.blocked = FALSE
    BY <1>4 DEF Finish
  <2>4. "submitted" \in statuses <=> \E o \in sent : o.status = "submitted"
    OBVIOUS
  <2>5. result'.actionDone => \E o \in sent : o.status = "previewed"
    BY <2>3
  <2>6. result'.actionDone => \A o \in sent : o.status = "previewed"
    BY <2>5 DEF AnswersAreHeeded
  <2> HIDE DEF live, statuses
  <2>7. result'.pending <=> \E o \in sent : o.status \in {"submitted", "unknown"}
    BY <2>2, <2>3, <2>4
  <2>8. QED
    BY <2>1, <2>3, <2>6, <2>7 DEF AnswersAreHeeded, ResultCoversLiveOrders
<1>5. CASE AdjustTargets
  <2>1. sent' = sent /\ claimed' = claimed /\ plan'.live = plan.live /\ phase' = "quotes"
        /\ phase = "targets"
    BY <1>5 DEF AdjustTargets
  <2>2. QED
    BY <2>1 DEF AnswersAreHeeded, ResultCoversLiveOrders
<1>6. CASE \/ QuoteAll \/ SellZero \/ BeginRelease \/ ConfirmFill \/ StatusQueryRaises
           \/ DecideBuys \/ BuyZero
  <2>1. sent' = sent /\ claimed' = claimed /\ plan' = plan /\ phase' # "done"
        /\ phase \notin {"done", "raised"}
    BY <1>6 DEF QuoteAll, SellZero, BeginRelease, ConfirmFill, StatusQueryRaises, DecideBuys, BuyZero
  <2>2. QED
    BY <2>1 DEF AnswersAreHeeded, ResultCoversLiveOrders
<1>7. CASE UNCHANGED vars
  BY <1>7 DEF vars, AnswersAreHeeded, ResultCoversLiveOrders
<1>8. QED
  BY <1>1, <1>2, <1>3, <1>4, <1>5, <1>6, <1>7 DEF Next, Ended

LEMMA AnswersHeeded == Spec => []AnswersAreHeeded
<1>1. Init => AnswersAreHeeded
  BY DEF Init, AnswersAreHeeded, ResultCoversLiveOrders
<1>2. (TypeOK /\ CashIsThere) /\ AnswersAreHeeded /\ [Next]_vars => AnswersAreHeeded'
  BY StepAnswers
<1>3. QED
  BY <1>1, <1>2, ExecutionInvariant, PTL DEF Spec

(* The result asks for reconciliation exactly when the broker may hold an  *)
(* order of the cycle, and a cycle that lost the claim has sent nothing:   *)
(* the statuses execute_value_target_plan reads its result off.            *)
THEOREM ResultsCoverLiveOrders == Spec => []ResultCoversLiveOrders
<1>1. AnswersAreHeeded => ResultCoversLiveOrders
  BY DEF AnswersAreHeeded
<1>2. QED
  BY <1>1, AnswersHeeded, PTL

(* After a request with an unknown outcome, or one that raised, the        *)
(* execution sends nothing more: what the early return of                  *)
(* execute_value_target_plan is for.                                       *)
THEOREM NothingAfterUnknown == Spec => UnknownEndsExecution
<1> DEFINE Quiet == (\E o \in sent : o.status \in {"unknown", "lost"}) => sent' = sent
<1>1. ASSUME TypeOK, CashIsThere, AnswersAreHeeded, [Next]_vars PROVE Quiet
  <2> SUFFICES ASSUME \E o \in sent : o.status \in {"unknown", "lost"} PROVE sent' = sent
    OBVIOUS
  <2>1. phase \in {"done", "raised"}
    BY <1>1 DEF AnswersAreHeeded
  <2>2. ~SubmitOrder /\ ~SubmitRaises
    BY <1>1, <2>1, NextOrderFits DEF SubmitOrder, SubmitRaises
  <2>3. QED
    BY <1>1, <2>2 DEF Next, AdjustTargets, QuoteAll, SellZero, ClaimUnavailable, BeginRelease,
       ConfirmFill, StatusQueryRaises, DecideBuys, BuyZero, Finish, Ended, vars
<1>2. QED
  BY <1>1, ExecutionInvariant, AnswersHeeded, PTL DEF Spec, UnknownEndsExecution
-----------------------------------------------------------------------------
(* Sums.  There is a function with the recursion of the sum on every       *)
(* finite set, since a smallest set without one would have it.             *)

(* A set of finite sets has one that contains no other of them.            *)
LEMMA MinimalSet ==
  ASSUME NEW X, X # {}, \A T \in X : IsFiniteSet(T)
  PROVE  \E T \in X : \A U \in X : U \subseteq T => U = T
<1> DEFINE R == OpToRel(<, Nat)
           N == {Cardinality(T) : T \in X}
<1>1. N \subseteq Nat /\ N # {}
  BY FS_CardinalityType
<1>2. IsWellFoundedOn(R, Nat)
  BY NatLessThanWellFounded
<1>3. \A x, y \in Nat : y < x => <<y, x>> \in R
  BY DEF OpToRel
<1> HIDE DEF R
<1>4. PICK n \in N : \A m \in N : <<m, n>> \notin R
  BY <1>1, <1>2, WFMin
<1>5. PICK T \in X : n = Cardinality(T)
  BY <1>4
<1>6. ASSUME NEW U \in X, U \subseteq T PROVE U = T
  <2>1. Cardinality(U) \in N /\ Cardinality(U) \in Nat /\ n \in Nat
    BY <1>1
  <2>2. ~(Cardinality(U) < n)
    BY <1>3, <1>4, <2>1
  <2>3. Cardinality(U) <= n
    BY <1>5, <1>6, FS_Subset
  <2>4. Cardinality(U) = Cardinality(T)
    BY <1>5, <2>1, <2>2, <2>3
  <2>5. QED
    BY <1>6, <2>4, FS_Subset
<1>7. QED
  BY <1>6

(* The sum over a set takes an element out and adds the sum of the others. *)
Taken(S) == CHOOSE x \in S : TRUE

Sums(f, g, S) ==
  g = [s \in SUBSET S |-> IF s = {} THEN 0 ELSE f[Taken(s)] + g[s \ {Taken(s)}]]

LEMMA TakenIsElement ==
  ASSUME NEW S, S # {}
  PROVE  Taken(S) \in S
BY DEF Taken

LEMMA SumIsRecursive ==
  ASSUME NEW f, NEW S
  PROVE  SumFunctionOnSet(f, S) = (CHOOSE g : Sums(f, g, S))[S]
BY DEF SumFunctionOnSet, FoldFunctionOnSet, MapThenFoldSet, Sums, Taken

LEMMA SumsUnfold ==
  ASSUME NEW f, NEW g, NEW S, Sums(f, g, S)
  PROVE  /\ g[{}] = 0
         /\ \A s \in SUBSET S : s # {} => g[s] = f[Taken(s)] + g[s \ {Taken(s)}]
<1>1. g = [s \in SUBSET S |-> IF s = {} THEN 0 ELSE f[Taken(s)] + g[s \ {Taken(s)}]]
  BY DEF Sums
<1>2. QED
  BY <1>1

LEMMA SumsAgree ==
  ASSUME NEW f, NEW S, NEW T, NEW g, NEW h, Sums(f, g, S), Sums(f, h, T),
         IsFiniteSet(T), T \subseteq S
  PROVE  g[T] = h[T]
<1> DEFINE X == {s \in SUBSET T : g[s] # h[s]}
<1>1. SUFFICES ASSUME X # {} PROVE FALSE
  OBVIOUS
<1>2. \A s \in X : IsFiniteSet(s)
  BY FS_Subset
<1>3. PICK s \in X : \A u \in X : u \subseteq s => u = s
  <2>1. \A U \in X : IsFiniteSet(U)
    BY <1>2
  <2> HIDE DEF X
  <2>2. QED
    BY <1>1, <2>1, MinimalSet
<1>4. s # {}
  BY <1>3, SumsUnfold
<1>5. Taken(s) \in s
  BY <1>4, TakenIsElement
<1>6. s \ {Taken(s)} \notin X
  BY <1>3, <1>5
<1>7. g[s \ {Taken(s)}] = h[s \ {Taken(s)}]
  BY <1>3, <1>6
<1>8. g[s] = f[Taken(s)] + g[s \ {Taken(s)}] /\ h[s] = f[Taken(s)] + h[s \ {Taken(s)}]
  BY <1>3, <1>4, SumsUnfold
<1>9. QED
  BY <1>3, <1>7, <1>8

(* Where there is a sum of S, it is the one the library chooses.           *)
LEMMA SumChosen ==
  ASSUME NEW f, NEW S, \E g : Sums(f, g, S)
  PROVE  \E g : Sums(f, g, S) /\ SumFunctionOnSet(f, S) = g[S]
<1>1. Sums(f, CHOOSE g : Sums(f, g, S), S)
  OBVIOUS
<1>2. QED
  BY <1>1, SumIsRecursive

LEMMA SumOfPart ==
  ASSUME NEW f, NEW S, NEW g, Sums(f, g, S), NEW T, T \subseteq S, IsFiniteSet(T),
         \E h : Sums(f, h, T)
  PROVE  SumFunctionOnSet(f, T) = g[T]
<1>1. PICK h : Sums(f, h, T) /\ SumFunctionOnSet(f, T) = h[T]
  BY SumChosen
<1>2. QED
  BY <1>1, SumsAgree

LEMMA SumExists ==
  ASSUME NEW f, NEW S, IsFiniteSet(S)
  PROVE  \E g : Sums(f, g, S)
<1> DEFINE X == {T \in SUBSET S : ~ \E g : Sums(f, g, T)}
<1>1. SUFFICES ASSUME X # {} PROVE FALSE
  OBVIOUS
<1>2. \A T \in SUBSET S : IsFiniteSet(T)
  BY FS_Subset
<1>3. PICK T \in X : \A U \in X : U \subseteq T => U = T
  <2>1. \A U \in X : IsFiniteSet(U)
    BY <1>2
  <2> HIDE DEF X
  <2>2. QED
    BY <1>1, <2>1, MinimalSet
<1>4. ASSUME NEW U, U \subseteq T, U # T PROVE \E g : Sums(f, g, U)
  BY <1>3, <1>4
<1> DEFINE V(s) == IF s = {} THEN 0 ELSE f[Taken(s)] + SumFunctionOnSet(f, s \ {Taken(s)})
           g == [s \in SUBSET T |-> V(s)]
<1>5. ASSUME NEW s \in SUBSET T, s # T PROVE SumFunctionOnSet(f, s) = V(s)
  <2>1. PICK h : Sums(f, h, s) /\ SumFunctionOnSet(f, s) = h[s]
    BY <1>4, <1>5, SumChosen
  <2>2. CASE s = {}
    BY <2>1, <2>2, SumsUnfold
  <2>3. CASE s # {}
    <3>1. Taken(s) \in s
      BY <2>3, TakenIsElement
    <3>2. h[s] = f[Taken(s)] + h[s \ {Taken(s)}]
      BY <2>1, <2>3, SumsUnfold
    <3>3. \E k : Sums(f, k, s \ {Taken(s)})
      BY <1>4, <1>5, <3>1
    <3>4. IsFiniteSet(s \ {Taken(s)}) /\ s \ {Taken(s)} \subseteq s
      BY <1>2, <1>3, <1>5
    <3>5. SumFunctionOnSet(f, s \ {Taken(s)}) = h[s \ {Taken(s)}]
      BY <2>1, <3>3, <3>4, SumOfPart
    <3>6. QED
      BY <2>1, <2>3, <3>2, <3>5
  <2>4. QED
    BY <2>2, <2>3
<1>6. ASSUME NEW s \in SUBSET T, s # {} PROVE g[s \ {Taken(s)}] = SumFunctionOnSet(f, s \ {Taken(s)})
  <2>1. Taken(s) \in s
    BY <1>6, TakenIsElement
  <2>2. s \ {Taken(s)} \in SUBSET T /\ s \ {Taken(s)} # T
    BY <1>6, <2>1
  <2>3. g[s \ {Taken(s)}] = V(s \ {Taken(s)})
    BY <2>2
  <2>4. QED
    BY <1>5, <2>2, <2>3
<1>7. \A s \in SUBSET T : V(s) = IF s = {} THEN 0 ELSE f[Taken(s)] + g[s \ {Taken(s)}]
  BY <1>6
<1>8. g = [s \in SUBSET T |-> IF s = {} THEN 0 ELSE f[Taken(s)] + g[s \ {Taken(s)}]]
  BY <1>7
<1>9. QED
  BY <1>3, <1>8 DEF Sums

LEMMA SumTaken ==
  ASSUME NEW f, NEW S, IsFiniteSet(S)
  PROVE  /\ S = {} => SumFunctionOnSet(f, S) = 0
         /\ S # {} => SumFunctionOnSet(f, S) =
                        f[Taken(S)] + SumFunctionOnSet(f, S \ {Taken(S)})
<1>1. PICK g : Sums(f, g, S) /\ SumFunctionOnSet(f, S) = g[S]
  BY SumExists, SumChosen
<1>2. S \ {Taken(S)} \subseteq S /\ IsFiniteSet(S \ {Taken(S)})
  BY FS_Subset
<1>3. SumFunctionOnSet(f, S \ {Taken(S)}) = g[S \ {Taken(S)}]
  BY <1>1, <1>2, SumExists, SumOfPart
<1>4. /\ g[{}] = 0
      /\ S # {} => g[S] = f[Taken(S)] + g[S \ {Taken(S)}]
  <2>1. S \in SUBSET S
    OBVIOUS
  <2>2. QED
    BY <1>1, <2>1, SumsUnfold
<1>5. QED
  BY <1>1, <1>3, <1>4

LEMMA SumIsNat ==
  ASSUME NEW S, IsFiniteSet(S), NEW f, \A x \in S : f[x] \in Nat
  PROVE  SumFunctionOnSet(f, S) \in Nat
<1> DEFINE X == {T \in SUBSET S : SumFunctionOnSet(f, T) \notin Nat}
<1>1. SUFFICES ASSUME X # {} PROVE FALSE
  OBVIOUS
<1>2. \A T \in SUBSET S : IsFiniteSet(T)
  BY FS_Subset
<1>3. PICK T \in X : \A U \in X : U \subseteq T => U = T
  <2>1. \A U \in X : IsFiniteSet(U)
    BY <1>2
  <2> HIDE DEF X
  <2>2. QED
    BY <1>1, <2>1, MinimalSet
<1>4. T # {}
  <2>1. SumFunctionOnSet(f, {}) = 0
    BY FS_EmptySet, SumTaken
  <2>2. SumFunctionOnSet(f, T) \notin Nat
    BY <1>3
  <2>3. ASSUME T = {} PROVE FALSE
    <3>1. SumFunctionOnSet(f, T) = 0
      BY <2>1, <2>3
    <3>2. QED
      BY <2>2, <3>1
  <2>4. QED
    BY <2>3
<1>5. Taken(T) \in T
  BY <1>4, TakenIsElement
<1>6. SumFunctionOnSet(f, T \ {Taken(T)}) \in Nat
  BY <1>3, <1>5
<1>7. f[Taken(T)] \in Nat
  BY <1>3, <1>5
<1>8. SumFunctionOnSet(f, T) = f[Taken(T)] + SumFunctionOnSet(f, T \ {Taken(T)})
  BY <1>2, <1>3, <1>4, SumTaken
<1>9. QED
  BY <1>3, <1>6, <1>7, <1>8

(* Any element may be taken out first.                                     *)
LEMMA SumWithout ==
  ASSUME NEW S, IsFiniteSet(S), NEW f, \A x \in S : f[x] \in Nat, NEW x \in S
  PROVE  SumFunctionOnSet(f, S) = f[x] + SumFunctionOnSet(f, S \ {x})
<1> DEFINE Sum(T) == SumFunctionOnSet(f, T)
           X == {T \in SUBSET S : \E y \in T : Sum(T) # f[y] + Sum(T \ {y})}
<1>1. SUFFICES ASSUME X # {} PROVE FALSE
  OBVIOUS
<1>2. \A T \in SUBSET S : IsFiniteSet(T)
  BY FS_Subset
<1>3. PICK T \in X : \A U \in X : U \subseteq T => U = T
  <2>1. \A U \in X : IsFiniteSet(U)
    BY <1>2
  <2> HIDE DEF X
  <2>2. QED
    BY <1>1, <2>1, MinimalSet
<1>4. PICK y \in T : Sum(T) # f[y] + Sum(T \ {y})
  BY <1>3
<1>5. PICK z : z = Taken(T)
  OBVIOUS
<1>6. z \in T /\ Sum(T) = f[z] + Sum(T \ {z})
  BY <1>2, <1>3, <1>4, <1>5, TakenIsElement, SumTaken
<1>7. y # z
  BY <1>4, <1>6
<1>8. T \ {z} \notin X /\ T \ {y} \notin X
  BY <1>3, <1>4, <1>6
<1>9. Sum(T \ {z}) = f[y] + Sum((T \ {z}) \ {y})
  BY <1>3, <1>4, <1>7, <1>8
<1>10. Sum(T \ {y}) = f[z] + Sum((T \ {y}) \ {z})
  BY <1>3, <1>6, <1>7, <1>8
<1>11. (T \ {y}) \ {z} = (T \ {z}) \ {y}
  OBVIOUS
<1>12. f[y] \in Nat /\ f[z] \in Nat
  BY <1>3, <1>4, <1>6
<1>13. PICK k \in Nat : k = Sum((T \ {z}) \ {y})
  <2>1. (T \ {z}) \ {y} \in SUBSET S
    BY <1>3
  <2>2. QED
    BY <1>2, <2>1, SumIsNat
<1>14. Sum(T \ {y}) = f[z] + k /\ Sum(T \ {z}) = f[y] + k
  BY <1>9, <1>10, <1>11, <1>13
<1>15. Sum(T) = f[z] + (f[y] + k) /\ Sum(T) # f[y] + (f[z] + k)
  BY <1>4, <1>6, <1>14
<1>16. QED
  BY <1>12, <1>13, <1>15
-----------------------------------------------------------------------------
(* The buys behind an open sell, all or none.                              *)

LEMMA SameQuotient ==
  ASSUME NEW a \in Nat, NEW b \in Nat, NEW d \in Nat \ {0}, b <= a, (a \div d) * d <= b
  PROVE  b \div d = a \div d
<1> DEFINE k == a \div d
           m == b \div d
<1>1. k \in Nat /\ m \in Nat
  BY DivideIsNat
<1>2. k * d <= b /\ b < (m + 1) * d /\ m * d <= b /\ a < (k + 1) * d
  BY SMT
<1> HIDE DEF k, m
<1>3. ~ (k >= m + 1)
  <2> SUFFICES ASSUME k >= m + 1 PROVE FALSE
    OBVIOUS
  <2>1. k * d >= (m + 1) * d
    BY <1>1, SMT
  <2>2. QED
    BY <1>1, <1>2, <2>1, SMT
<1>4. ~ (m >= k + 1)
  <2> SUFFICES ASSUME m >= k + 1 PROVE FALSE
    OBVIOUS
  <2>1. m * d >= (k + 1) * d
    BY <1>1, SMT
  <2>2. QED
    BY <1>1, <1>2, <2>1, SMT
<1>5. k = m
  BY <1>1, <1>3, <1>4
<1>6. QED
  BY <1>5 DEF k, m

(* A buy that more cash would allow and less cash pays is the same buy.    *)
LEMMA SameBuyShares ==
  ASSUME NEW pos, pos.price \in Nat \ {0}, Delta(pos) \in Nat, NEW cap \in Nat, NEW mayTopUp,
         NEW most \in Nat, NEW available \in Nat, available <= most,
         BuyShares(pos, most, cap, mayTopUp) > 0,
         BuyShares(pos, most, cap, mayTopUp) * LimitBuyPrice(pos) <= available
  PROVE  BuyShares(pos, available, cap, mayTopUp) = BuyShares(pos, most, cap, mayTopUp)
<1> DEFINE limit == LimitBuyPrice(pos)
           large == BuyBudget(pos, most, cap)
           small == BuyBudget(pos, available, cap)
<1>1. limit \in Nat \ {0}
  BY LimitPrices
<1>2. /\ large \in Nat /\ small \in Nat /\ small <= large
      /\ small = large \/ small = available
      /\ Capped(available, cap) = available \/ Capped(available, cap) = Capped(most, cap)
      /\ Capped(most, cap) <= most
  BY DEF BuyBudget, Capped, Least, NoCap
<1>3. /\ BuyShares(pos, most, cap, mayTopUp) =
           IF large \div limit > 0 THEN large \div limit
           ELSE IF mayTopUp /\ Capped(most, cap) >= limit /\ TopsUp(pos) THEN 1 ELSE 0
      /\ BuyShares(pos, available, cap, mayTopUp) =
           IF small \div limit > 0 THEN small \div limit
           ELSE IF mayTopUp /\ Capped(available, cap) >= limit /\ TopsUp(pos) THEN 1 ELSE 0
  BY DEF BuyShares
<1> HIDE DEF limit, large, small
<1>4. CASE large \div limit > 0
  <2>1. (large \div limit) * limit <= small
    BY <1>1, <1>2, <1>3, <1>4, SharesWithinBudget DEF limit
  <2>2. small \div limit = large \div limit
    BY <1>1, <1>2, <2>1, SameQuotient
  <2>3. QED
    BY <1>3, <1>4, <2>2
<1>5. CASE ~(large \div limit > 0)
  <2>1. /\ mayTopUp /\ Capped(most, cap) >= limit /\ TopsUp(pos)
        /\ BuyShares(pos, most, cap, mayTopUp) = 1
    BY <1>3, <1>5
  <2>2. limit <= available
    <3>1. 1 * limit <= available
      BY <2>1 DEF limit
    <3>2. QED
      BY <1>1, <3>1
  <2>3. Capped(available, cap) >= limit
    BY <1>2, <2>1, <2>2
  <2>4. large \div limit = 0
    BY <1>1, <1>2, <1>5, DivideIsNat
  <2>5. (large \div limit) * limit <= small
    BY <1>1, <1>2, <2>4
  <2>6. small \div limit = 0
    BY <1>1, <1>2, <2>4, <2>5, SameQuotient
  <2>7. BuyShares(pos, available, cap, mayTopUp) = 1
    BY <1>3, <2>1, <2>3, <2>6
  <2>8. QED
    BY <2>1, <2>7
<1>6. QED
  BY <1>4, <1>5

(* What the buy phase starts with, and what its buys cost then.            *)
StartCashOfBuys == AtLeastZero(PlanCash(plan.liquid, plan.reserved) + release)
StartOrder(s) == BuyOrder(s, StartCashOfBuys)
Costs == [s \in Buys |-> IF Buyable(StartOrder(s)) THEN StartOrder(s).amount ELSE 0]

Bought == {o \in sent : o.side = "buy"}
AsPlanned(o) ==
  o.shares = BuyShares(Position(o.symbol), StartCashOfBuys, plan.cap, SellAccepted)

Together == sellsOpen # {} /\ plan.cashOnly /\ ~plan.notional

(* Every buy is one its cash at the start allows, and the buys to come are *)
(* paid for.                                                               *)
Paid ==
  /\ \A s \in Buys : Buyable(StartOrder(s))
  /\ cash <= StartCashOfBuys
  /\ SumFunctionOnSet(Costs, left) <= cash
  /\ left \cup {o.symbol : o \in Bought} = Buys
  /\ \A o \in Bought : AsPlanned(o)

BuysGoTogether ==
  /\ phase \in {"targets", "quotes", "sells", "release"} => Bought = {}
  /\ phase = "buys" /\ Together => (left = {} /\ Bought = {}) \/ Paid
  /\ BuysAllOrNone

LEMMA NothingBought ==
  /\ Bought = {} => BuysAllOrNone
  /\ Bought' = {} => BuysAllOrNone'
BY DEF Bought, BuysAllOrNone

AllOrNone ==
  phase = "done" /\ Together =>
    /\ \A o \in Bought : AsPlanned(o)
    /\ \/ {o.symbol : o \in Bought} = Buys
       \/ \E o \in Bought : o.status = "unknown"

LEMMA BoughtAllOrNone ==
  /\ AllOrNone => BuysAllOrNone
  /\ AllOrNone' => BuysAllOrNone'
BY DEF AllOrNone, Bought, BuysAllOrNone, Together, AsPlanned, StartCashOfBuys

LEMMA SameCosts ==
  ASSUME plan' = plan, price' = price, release' = release, SellAccepted' = SellAccepted
  PROVE  /\ StartCashOfBuys' = StartCashOfBuys /\ Buys' = Buys /\ Costs' = Costs
         /\ \A s : Buyable(StartOrder(s))' = Buyable(StartOrder(s))
         /\ \A o : AsPlanned(o)' = AsPlanned(o)
<1>1. StartCashOfBuys' = StartCashOfBuys /\ Buys' = Buys
  BY SameSymbols DEF StartCashOfBuys
<1>2. \A s : Position(s)' = Position(s)
  BY DEF Position
<1>3. \A s : StartOrder(s)' = StartOrder(s)
  BY <1>1, <1>2 DEF StartOrder, BuyOrder
<1>4. \A s : Buyable(StartOrder(s))' = Buyable(StartOrder(s))
  BY <1>3 DEF Buyable
<1>5. Costs' = Costs
  BY <1>1, <1>3, <1>4 DEF Costs
<1>6. \A o : AsPlanned(o)' = AsPlanned(o)
  BY <1>1, <1>2 DEF AsPlanned
<1>7. QED
  BY <1>1, <1>4, <1>5, <1>6

LEMMA CostsAreNat ==
  ASSUME TypeOK
  PROVE  /\ StartCashOfBuys \in Nat
         /\ IsFiniteSet(Buys) /\ \A s \in Buys : Costs[s] \in Nat
<1>1. StartCashOfBuys \in Nat
  <2>1. plan.liquid \in Int /\ plan.reserved \in Nat /\ release \in Nat
    BY PlanFields DEF TypeOK
  <2>2. PlanCash(plan.liquid, plan.reserved) \in Int
    BY <2>1, PlanCashIsLiquid
  <2>3. QED
    BY <2>1, <2>2 DEF StartCashOfBuys, AtLeastZero, Greatest
<1>2. IsFiniteSet(Buys)
  <2>1. IsFiniteSet(1 .. SymbolCount)
    BY FS_Interval, OrderExecutionAssumption
  <2>2. Buys \subseteq 1 .. SymbolCount
    BY DEF Buys, Tradable, Symbols
  <2>3. QED
    BY <2>1, <2>2, FS_Subset
<1>3. \A s \in Buys : Costs[s] \in Nat
  BY <1>1, BuyOrderFits DEF Costs, StartOrder
<1>4. QED
  BY <1>1, <1>2, <1>3

(* While the buys are paid for, the next is the one planned at the start.  *)
LEMMA NextIsPlanned ==
  ASSUME TypeOK, CashIsThere, phase = "buys", ~plan.notional, Paid, left # {}
  PROVE  /\ Current \in Buys /\ Current \in left
         /\ Buyable(BuyOrder(Current, cash))
         /\ BuyOrder(Current, cash) = StartOrder(Current)
         /\ Costs[Current] = StartOrder(Current).amount
         /\ SumFunctionOnSet(Costs, left) =
              Costs[Current] + SumFunctionOnSet(Costs, left \ {Current})
         /\ Costs[Current] \in Nat /\ SumFunctionOnSet(Costs, left \ {Current}) \in Nat
<1> DEFINE s == Current
<1>1. left \subseteq Buys /\ s \in left /\ s \in Buys
  BY CurrentIsLeft DEF CashIsThere, TypeOK
<1>2. Buyable(StartOrder(s)) /\ Costs[s] = StartOrder(s).amount
  BY <1>1 DEF Paid, Costs
<1>3. /\ IsFiniteSet(left) /\ IsFiniteSet(left \ {s})
      /\ \A x \in left : Costs[x] \in Nat
  BY <1>1, CostsAreNat, FS_Subset
<1>4. /\ SumFunctionOnSet(Costs, left) = Costs[s] + SumFunctionOnSet(Costs, left \ {s})
      /\ SumFunctionOnSet(Costs, left \ {s}) \in Nat
  <2> HIDE DEF s
  <2>1. SumFunctionOnSet(Costs, left) = Costs[s] + SumFunctionOnSet(Costs, left \ {s})
    BY <1>1, <1>3, SumWithout
  <2>2. SumFunctionOnSet(Costs, left \ {s}) \in Nat
    BY <1>3, SumIsNat
  <2>3. QED
    BY <2>1, <2>2
<1>5. Costs[s] \in Nat /\ Costs[s] <= cash /\ cash \in Nat /\ cash <= StartCashOfBuys
  BY <1>1, <1>3, <1>4 DEF Paid, TypeOK
<1>6. BuyOrder(s, cash) = StartOrder(s)
  <2> DEFINE pos == Position(s)
  <2>1. s \in Symbols /\ price[s] # NoQuote /\ Delta(plan.position[s]) > 0
    BY <1>1 DEF Buys, Tradable
  <2>2. pos.price \in Nat \ {0} /\ plan.cap \in Nat
    BY <2>1, PlanFields DEF Position, NoQuote
  <2>3. Delta(pos) \in Nat
    <3>1. Delta(plan.position[s]) \in Int
      BY <2>1, PlanFields DEF Delta
    <3>2. QED
      BY <2>1, <3>1, DeltaOfPosition
  <2> HIDE DEF pos, s
  <2>4. \A c : BuyOrder(s, c) =
          [shares |-> BuyShares(pos, c, plan.cap, SellAccepted),
           amount |-> BuyShares(pos, c, plan.cap, SellAccepted) * LimitBuyPrice(pos)]
    BY DEF BuyOrder, pos
  <2>5. /\ BuyShares(pos, StartCashOfBuys, plan.cap, SellAccepted) > 0
        /\ BuyShares(pos, StartCashOfBuys, plan.cap, SellAccepted) * LimitBuyPrice(pos) <= cash
    BY <1>2, <1>5, <2>4 DEF StartOrder, Buyable
  <2>6. BuyShares(pos, cash, plan.cap, SellAccepted) =
          BuyShares(pos, StartCashOfBuys, plan.cap, SellAccepted)
    BY <1>5, <2>2, <2>3, <2>5, CostsAreNat, SameBuyShares
  <2>7. QED
    BY <2>4, <2>6 DEF StartOrder
<1>7. QED
  BY <1>1, <1>2, <1>4, <1>5, <1>6

(* An order of the buy phase says nothing of the sells.                    *)
LEMMA SubmitBuy ==
  ASSUME NEW order, order.side = "buy", NEW answer, Submit(order, answer)
  PROVE  /\ SellAccepted' = SellAccepted /\ sellsOpen' = sellsOpen
         /\ \E o : /\ o.symbol = order.symbol /\ o.shares = order.shares /\ o.status = answer
                   /\ Bought' = Bought \cup {o}
<1> DEFINE o == [symbol |-> order.symbol, side |-> order.side, shares |-> order.shares,
                 amount |-> order.amount, status |-> answer]
<1>1. sent' = sent \cup {o} /\ sellsOpen' = sellsOpen
  BY DEF Submit
<1>2. o.side = "buy" /\ o.symbol = order.symbol /\ o.shares = order.shares /\ o.status = answer
  OBVIOUS
<1> HIDE DEF o
<1>3. Bought' = Bought \cup {o}
  BY <1>1, <1>2 DEF Bought
<1>4. SellAccepted' = SellAccepted
  BY <1>1, <1>2 DEF SellAccepted, Accepted
<1>5. QED
  BY <1>1, <1>2, <1>3, <1>4

LEMMA SubmitSell ==
  ASSUME NEW order, order.side = "sell", NEW answer, Submit(order, answer)
  PROVE  Bought' = Bought
BY DEF Submit, Bought

LEMMA SubmitTogether ==
  ASSUME TypeOK, CashIsThere, BuysGoTogether, SubmitOrder
  PROVE  BuysGoTogether'
<1>1. PICK order \in NextOrder, answer \in Answers :
        /\ Submit(order, answer)
        /\ IF answer = "unknown" THEN phase' = "done" ELSE phase' = phase
  BY DEF SubmitOrder
<1>2. \/ phase = "sells" /\ left # {} /\ order \in NextSell
      \/ phase = "buys" /\ left # {} /\ order \in NextBuy
  BY DEF NextOrder
<1>3. plan' = plan /\ price' = price /\ release' = release /\ left' = left \ {order.symbol}
  BY <1>1 DEF Submit
<1>4. CASE phase = "sells" /\ order \in NextSell
  <2>1. Bought' = Bought /\ Bought = {}
    BY <1>1, <1>4, SubmitSell DEF NextSell, BuysGoTogether
  <2>2. BuysAllOrNone'
    BY <2>1, NothingBought
  <2>3. QED
    BY <1>1, <1>4, <2>1, <2>2 DEF BuysGoTogether
<1>5. CASE phase = "buys" /\ left # {} /\ order \in NextBuy
  <2>1. /\ order.side = "buy" /\ order.symbol = Current
        /\ order.shares = BuyOrder(Current, cash).shares
        /\ order.amount = BuyOrder(Current, cash).amount
    BY <1>5 DEF NextBuy
  <2>2. SellAccepted' = SellAccepted /\ sellsOpen' = sellsOpen
    BY <1>1, <2>1, SubmitBuy
  <2>3. PICK o : /\ o.symbol = Current /\ o.shares = BuyOrder(Current, cash).shares
                 /\ o.status = answer /\ Bought' = Bought \cup {o}
    BY <1>1, <2>1, SubmitBuy
  <2>4. Together' = Together
    BY <1>3, <2>2 DEF Together
  <2>5. CASE ~Together
    <3>1. BuysAllOrNone'
      BY <2>4, <2>5, BoughtAllOrNone DEF AllOrNone
    <3>2. QED
      BY <1>1, <1>5, <2>4, <2>5, <3>1 DEF BuysGoTogether
  <2>6. CASE Together
    <3>1. Paid /\ ~plan.notional
      BY <1>5, <2>6 DEF BuysGoTogether, Together
    <3>2. /\ Current \in Buys /\ Current \in left
          /\ BuyOrder(Current, cash) = StartOrder(Current)
          /\ Costs[Current] = StartOrder(Current).amount
          /\ SumFunctionOnSet(Costs, left) =
               Costs[Current] + SumFunctionOnSet(Costs, left \ {Current})
          /\ Costs[Current] \in Nat /\ SumFunctionOnSet(Costs, left \ {Current}) \in Nat
      BY <1>5, <3>1, NextIsPlanned
    <3>3. /\ StartCashOfBuys' = StartCashOfBuys /\ Buys' = Buys /\ Costs' = Costs
          /\ \A s : Buyable(StartOrder(s))' = Buyable(StartOrder(s))
          /\ \A x : AsPlanned(x)' = AsPlanned(x)
      BY <1>3, <2>2, SameCosts
    <3>4. AsPlanned(o)
      BY <2>3, <3>1, <3>2 DEF AsPlanned, StartOrder, BuyOrder
    <3>5. \A x \in Bought' : AsPlanned(x)'
      BY <2>3, <3>1, <3>3, <3>4 DEF Paid
    <3>6. CASE answer = "unknown"
      <4>1. \E x \in Bought' : x.status = "unknown"
        BY <2>3, <3>6
      <4>2. BuysAllOrNone'
        BY <3>5, <4>1, BoughtAllOrNone DEF AllOrNone
      <4>3. QED
        BY <1>1, <3>6, <4>2 DEF BuysGoTogether
    <3>7. CASE answer # "unknown"
      <4>1. cash' \in {cash, AtLeastZero(cash - Costs[Current])}
        BY <1>1, <2>1, <3>2 DEF Submit, Spends
      <4>2. /\ cash \in Nat /\ cash <= StartCashOfBuys /\ StartCashOfBuys \in Nat
            /\ SumFunctionOnSet(Costs, left) <= cash
        BY <3>1, CostsAreNat DEF Paid, TypeOK
      <4>3. cash' <= StartCashOfBuys /\ SumFunctionOnSet(Costs, left \ {Current}) <= cash'
        BY <3>2, <4>1, <4>2 DEF AtLeastZero, Greatest
      <4>4. left' \cup {x.symbol : x \in Bought'} = Buys
        <5>1. {x.symbol : x \in Bought'} = {x.symbol : x \in Bought} \cup {Current}
          BY <2>3
        <5>2. left \cup {x.symbol : x \in Bought} = Buys
          BY <3>1 DEF Paid
        <5>3. QED
          BY <1>3, <2>1, <3>2, <5>1, <5>2
      <4>5. Paid'
        BY <1>3, <2>1, <3>1, <3>3, <3>5, <4>3, <4>4 DEF Paid
      <4>6. phase' = "buys"
        BY <1>1, <1>5, <3>7
      <4>7. BuysAllOrNone'
        BY <4>6, BoughtAllOrNone DEF AllOrNone
      <4>8. QED
        BY <4>5, <4>6, <4>7 DEF BuysGoTogether
    <3>8. QED
      BY <3>6, <3>7
  <2>7. QED
    BY <2>5, <2>6
<1>6. QED
  BY <1>2, <1>4, <1>5

(* The decision: either some buy has to wait and none is made, or all of   *)
(* them are possible and paid for.                                         *)
LEMMA DecideTogether ==
  ASSUME TypeOK, BuysGoTogether, DecideBuys
  PROVE  BuysGoTogether'
<1>1. /\ phase' = "buys" /\ Bought = {} /\ Bought' = Bought
      /\ plan' = plan /\ price' = price /\ release' = release /\ sellsOpen' = sellsOpen
      /\ sent' = sent /\ cash' = StartCashOfBuys
      /\ left' = IF BuysBlockedBy(cash') = {} THEN Buys ELSE {}
  BY DEF DecideBuys, BuysGoTogether, Bought, StartCashOfBuys
<1>2. BuysAllOrNone'
  BY <1>1, NothingBought
<1>3. ASSUME Together' PROVE (left = {} /\ Bought = {})' \/ Paid'
  <2>1. sellsOpen # {} /\ plan.cashOnly /\ ~plan.notional
    BY <1>1, <1>3 DEF Together
  <2>2. CASE BuysBlockedBy(cash') # {}
    BY <1>1, <2>2
  <2>3. CASE BuysBlockedBy(cash') = {}
    <3>1. ~MustWaitForSells(cash')
      <4>1. MustWaitForSells(cash') => "pending_sell_release" \in BuysBlockedBy(cash')
        BY <2>1 DEF BuysBlockedBy
      <4>2. QED
        BY <2>3, <4>1
    <3>2. /\ ~(EstimatedCost(cash') > cash')
          /\ \A s \in Buys : ~RequiresRelease(s, cash')
      BY <3>1 DEF MustWaitForSells
    <3>3. EstimatedCost(cash') = SumFunctionOnSet(Costs, Buys)
      <4>1. EstimatedCost(StartCashOfBuys) = SumFunction(Costs)
        BY DEF EstimatedCost, Costs, StartOrder
      <4>2. DOMAIN Costs = Buys
        BY DEF Costs
      <4>3. QED
        BY <1>1, <4>1, <4>2 DEF SumFunction
    <3>4. SumFunctionOnSet(Costs, Buys) \in Nat /\ StartCashOfBuys \in Nat
      BY CostsAreNat, SumIsNat
    <3>5. SumFunctionOnSet(Costs, Buys) <= cash'
      BY <1>1, <3>2, <3>3, <3>4
    <3>6. ASSUME NEW s \in Buys PROVE Buyable(StartOrder(s))
      <4> DEFINE pos == Position(s)
                 budget == BuyBudget(pos, StartCashOfBuys, plan.cap)
                 limit == LimitBuyPrice(pos)
                 shares == BuyShares(pos, StartCashOfBuys, plan.cap, SellAccepted)
      <4>1. s \in Symbols /\ price[s] # NoQuote /\ Delta(plan.position[s]) > 0
        BY DEF Buys, Tradable
      <4>2. pos.price \in Nat \ {0} /\ plan.cap \in Nat
        BY <4>1, PlanFields DEF Position, NoQuote
      <4>3. Delta(pos) \in Nat
        <5>1. Delta(plan.position[s]) \in Int
          BY <4>1, PlanFields DEF Delta
        <5>2. QED
          BY <4>1, <5>1, DeltaOfPosition
      <4>4. limit \in Nat \ {0} /\ budget \in Nat
        BY <3>4, <4>2, <4>3, LimitPrices, BuyBudgetFits
      <4>5. Buyable(StartOrder(s)) \/ ~(limit > budget)
        BY <1>1, <2>1, <3>2 DEF RequiresRelease, StartOrder
      <4>6. StartOrder(s).shares = shares
        BY <2>1 DEF StartOrder, BuyOrder
      <4>7. shares = IF budget \div limit > 0 THEN budget \div limit
                     ELSE IF SellAccepted /\ Capped(StartCashOfBuys, plan.cap) >= limit /\ TopsUp(pos)
                       THEN 1 ELSE 0
        BY DEF BuyShares
      <4> HIDE DEF limit, budget, shares, pos
      <4>8. limit <= budget => budget \div limit > 0
        BY <4>4, SMT
      <4>9. QED
        BY <2>1, <4>4, <4>5, <4>6, <4>7, <4>8 DEF Buyable
    <3>7. SellAccepted' = SellAccepted
      BY <1>1 DEF SellAccepted, Accepted
    <3>8. /\ StartCashOfBuys' = StartCashOfBuys /\ Buys' = Buys /\ Costs' = Costs
          /\ \A s : Buyable(StartOrder(s))' = Buyable(StartOrder(s))
      BY <1>1, <3>7, SameCosts
    <3>9. left' \cup {x.symbol : x \in Bought'} = Buys
      BY <1>1, <2>3
    <3>10. Paid'
      BY <1>1, <2>3, <3>4, <3>5, <3>6, <3>8, <3>9 DEF Paid
    <3>11. QED
      BY <3>10
  <2>4. QED
    BY <2>2, <2>3
<1>4. QED
  BY <1>1, <1>2, <1>3 DEF BuysGoTogether

LEMMA StepTogether ==
  ASSUME TypeOK, CashIsThere, AnswersAreHeeded, BuysGoTogether, [Next]_vars
  PROVE  BuysGoTogether'
<1>1. CASE SubmitRaises
  BY <1>1 DEF SubmitRaises, BuysGoTogether, BuysAllOrNone
<1>2. CASE ClaimUnavailable
  <2>1. phase' = "done" /\ Bought' = {}
    BY <1>2 DEF ClaimUnavailable, AnswersAreHeeded, Bought
  <2>2. QED
    BY <2>1, NothingBought DEF BuysGoTogether
<1>3. CASE BuyZero
  <2>1. /\ phase = "buys" /\ left # {} /\ ~Buyable(BuyOrder(Current, cash))
        /\ phase' = phase /\ Together' = Together
    BY <1>3 DEF BuyZero, Together
  <2>2. ~Together
    BY <2>1, NextIsPlanned DEF BuysGoTogether, Together
  <2>3. BuysAllOrNone'
    BY <2>1, BoughtAllOrNone DEF AllOrNone
  <2>4. QED
    BY <2>1, <2>2, <2>3 DEF BuysGoTogether
<1>4. CASE Finish
  <2>1. /\ phase = "buys" /\ left = {} /\ phase' = "done"
        /\ plan' = plan /\ price' = price /\ release' = release /\ sent' = sent
        /\ Together' = Together
    BY <1>4 DEF Finish, Together
  <2>2. Bought' = Bought /\ SellAccepted' = SellAccepted
    BY <2>1 DEF Bought, SellAccepted, Accepted
  <2>3. Buys' = Buys /\ \A o : AsPlanned(o)' = AsPlanned(o)
    BY <2>1, <2>2, SameCosts
  <2>4. CASE Together /\ Bought # {}
    <3>1. Paid
      BY <2>1, <2>4 DEF BuysGoTogether
    <3>2. (\A o \in Bought : AsPlanned(o)) /\ {o.symbol : o \in Bought} = Buys
      BY <2>1, <3>1 DEF Paid
    <3>3. BuysAllOrNone'
      BY <2>2, <2>3, <3>2, BoughtAllOrNone DEF AllOrNone
    <3>4. QED
      BY <2>1, <3>3 DEF BuysGoTogether
  <2>5. CASE ~Together \/ Bought = {}
    <3>1. BuysAllOrNone'
      BY <2>1, <2>2, <2>5, NothingBought, BoughtAllOrNone DEF AllOrNone
    <3>2. QED
      BY <2>1, <3>1 DEF BuysGoTogether
  <2>6. QED
    BY <2>4, <2>5
<1>5. CASE \/ AdjustTargets \/ QuoteAll \/ SellZero \/ BeginRelease \/ ConfirmFill
           \/ StatusQueryRaises
  <2>1. /\ sent' = sent /\ phase' \in {"quotes", "sells", "release", "raised"}
        /\ phase \in {"targets", "quotes", "sells", "release"}
    BY <1>5 DEF AdjustTargets, QuoteAll, SellZero, BeginRelease, ConfirmFill, StatusQueryRaises
  <2>2. Bought' = {}
    BY <2>1 DEF Bought, BuysGoTogether
  <2>3. QED
    BY <2>1, <2>2, NothingBought DEF BuysGoTogether
<1>6. CASE UNCHANGED vars
  <2>1. /\ plan' = plan /\ price' = price /\ release' = release /\ sent' = sent /\ left' = left
        /\ phase' = phase /\ cash' = cash /\ sellsOpen' = sellsOpen
    BY <1>6 DEF vars
  <2>2. Bought' = Bought /\ SellAccepted' = SellAccepted /\ Together' = Together
    BY <2>1 DEF Bought, SellAccepted, Accepted, Together
  <2>3. Paid' <=> Paid
    BY <2>1, <2>2, SameCosts DEF Paid
  <2>4. BuysAllOrNone'
    BY <1>6 DEF vars, BuysGoTogether, BuysAllOrNone, SellAccepted, Accepted, Position, Buys,
                Tradable, BelowThreshold
  <2>5. QED
    BY <2>1, <2>2, <2>3, <2>4 DEF BuysGoTogether
<1>7. QED
  BY <1>1, <1>2, <1>3, <1>4, <1>5, <1>6, SubmitTogether, DecideTogether DEF Next, Ended

(* Behind an open sell a cash-only execution in whole shares makes all of  *)
(* its buys as large as the whole cash allows, or none: what the estimate  *)
(* of execute_value_target_plan before its buys is for.                    *)
THEOREM BuysGoAllOrNone == Spec => []BuysAllOrNone
<1>1. Init => BuysGoTogether
  BY DEF Init, BuysGoTogether, Bought, BuysAllOrNone
<1>2. /\ TypeOK /\ CashIsThere
      /\ AnswersAreHeeded
      /\ BuysGoTogether /\ [Next]_vars
      => BuysGoTogether'
  BY StepTogether
<1>3. BuysGoTogether => BuysAllOrNone
  BY DEF BuysGoTogether
<1>4. QED
  BY <1>1, <1>2, <1>3, ExecutionInvariant, AnswersHeeded, PTL DEF Spec
-----------------------------------------------------------------------------
(* The reserve.  Where it leaves some of the cash, the plan's cash is the  *)
(* investable cash, and the argument of CashIsThere holds for that.        *)

ReserveLeavesCash ==
  \A liquid \in LiquidCash, reserved \in Reserves : liquid <= 0 \/ reserved < liquid

Investable == InvestableCash(plan.liquid, plan.reserved)

ReserveIsKept ==
  /\ BuysWithinInvestableCash
  /\ phase = "buys" => cash + committed <= Investable + release

LEMMA PlanCashIsInvestable ==
  ASSUME ReserveLeavesCash, TypeOK
  PROVE  /\ Investable \in Nat /\ release \in Nat /\ committed \in Nat
         /\ AtLeastZero(PlanCash(plan.liquid, plan.reserved) + release) \in Nat
         /\ AtLeastZero(PlanCash(plan.liquid, plan.reserved) + release) <= Investable + release
<1>1. plan.liquid \in LiquidCash /\ plan.reserved \in Reserves
  BY DEF TypeOK, Plans
<1>2. /\ plan.liquid \in Int /\ plan.reserved \in Nat
      /\ release \in Nat /\ committed \in Nat
      /\ plan.liquid <= 0 \/ plan.reserved < plan.liquid
  BY <1>1, OrderExecutionAssumption DEF ReserveLeavesCash, TypeOK
<1>3. QED
  BY <1>2 DEF Investable, InvestableCash, PlanCash, AtLeastZero, Greatest

LEMMA SubmitReserve ==
  ASSUME ReserveLeavesCash, TypeOK, CashIsThere, ReserveIsKept,
         NEW order \in NextOrder, NEW answer, Submit(order, answer),
         phase' = "buys" => phase = "buys" /\ answer \in {"submitted", "rejected", "previewed"}
  PROVE  ReserveIsKept'
<1>1. /\ Spends(order) \in Nat /\ phase \in {"sells", "buys"}
      /\ phase = "sells" => Spends(order) = 0
      /\ phase = "buys" => Spends(order) <= cash
  BY NextOrderFits
<1>2. /\ committed' = (IF answer = "rejected" THEN committed ELSE committed + Spends(order))
      /\ cash' = (IF answer \in {"submitted", "previewed"}
                    THEN AtLeastZero(cash - Spends(order)) ELSE cash)
      /\ release' = release /\ Investable' = Investable
  BY DEF Submit, Investable
<1>3. /\ cash \in Nat /\ committed \in Nat /\ release \in Nat /\ Investable \in Nat
      /\ committed <= Investable + release
      /\ phase = "buys" => cash + committed <= Investable + release
  BY PlanCashIsInvestable DEF TypeOK, ReserveIsKept, BuysWithinInvestableCash, Investable
<1>4. committed' <= Investable + release
  BY <1>1, <1>2, <1>3
<1>5. phase' = "buys" => cash' + committed' <= Investable + release
  <2> SUFFICES ASSUME phase' = "buys" PROVE cash' + committed' <= Investable + release
    OBVIOUS
  <2>1. answer \in {"submitted", "previewed"} => cash' = cash - Spends(order)
    BY <1>1, <1>2, <1>3 DEF AtLeastZero, Greatest
  <2>2. QED
    BY <1>1, <1>2, <1>3, <2>1
<1>6. QED
  BY <1>2, <1>4, <1>5 DEF ReserveIsKept, BuysWithinInvestableCash, Investable

LEMMA StepReserve ==
  ASSUME ReserveLeavesCash, TypeOK, TypeOK', CashIsThere, ReserveIsKept, [Next]_vars
  PROVE  ReserveIsKept'
<1>1. CASE SubmitOrder
  <2>1. PICK order \in NextOrder, answer \in Answers :
          Submit(order, answer) /\ (IF answer = "unknown" THEN phase' = "done" ELSE phase' = phase)
    BY <1>1 DEF SubmitOrder
  <2>2. answer \in {"submitted", "rejected", "unknown", "previewed"}
    BY DEF Answers
  <2>3. QED
    BY <2>1, <2>2, SubmitReserve
<1>2. CASE SubmitRaises
  BY <1>2, SubmitReserve DEF SubmitRaises
<1>3. CASE DecideBuys
  <2>1. /\ cash' = AtLeastZero(PlanCash(plan.liquid, plan.reserved) + release)
        /\ plan' = plan /\ release' = release /\ committed' = committed /\ committed = 0
    BY <1>3 DEF DecideBuys, CashIsThere
  <2>2. /\ Investable' = Investable /\ Investable \in Nat /\ release \in Nat /\ cash' \in Nat
        /\ cash' <= Investable + release
    BY <2>1, PlanCashIsInvestable DEF Investable
  <2>3. QED
    BY <2>1, <2>2 DEF ReserveIsKept, BuysWithinInvestableCash, Investable
<1>4. CASE ConfirmFill \/ AdjustTargets
  <2>1. committed' = 0 /\ phase' # "buys"
    BY <1>4 DEF ConfirmFill, AdjustTargets, CashIsThere
  <2>2. plan'.liquid \in Int /\ plan'.reserved \in Nat /\ release' \in Nat
    BY OrderExecutionAssumption DEF TypeOK, Plans
  <2>3. 0 <= InvestableCash(plan'.liquid, plan'.reserved) + release'
    <3>1. \A l \in Int, r \in Nat : InvestableCash(l, r) \in Nat
      BY DEF InvestableCash, AtLeastZero, Greatest
    <3>2. InvestableCash(plan'.liquid, plan'.reserved) \in Nat
      BY <2>2, <3>1
    <3>3. QED
      BY <2>2, <3>2
  <2>4. QED
    BY <2>1, <2>3 DEF ReserveIsKept, BuysWithinInvestableCash
<1>5. CASE \/ QuoteAll \/ SellZero \/ ClaimUnavailable \/ BeginRelease \/ StatusQueryRaises
           \/ BuyZero \/ Finish
  <2>1. /\ plan' = plan /\ release' = release /\ committed' = committed /\ cash' = cash
        /\ phase' = "buys" => phase = "buys"
    BY <1>5 DEF QuoteAll, SellZero, ClaimUnavailable, BeginRelease, StatusQueryRaises, BuyZero,
       Finish
  <2>2. QED
    BY <2>1 DEF ReserveIsKept, BuysWithinInvestableCash, Investable
<1>6. CASE UNCHANGED vars
  BY <1>6 DEF vars, ReserveIsKept, BuysWithinInvestableCash, Investable
<1>7. QED
  BY <1>1, <1>2, <1>3, <1>4, <1>5, <1>6 DEF Next, Ended

(* Finding 4 is the only way past the reserve: where the reserve of every  *)
(* account with cash leaves some of it, execute_value_target_plan pays its *)
(* buys from the investable cash and the confirmed sells.                  *)
THEOREM ReserveRespected ==
  ASSUME ReserveLeavesCash
  PROVE  Spec => []BuysWithinInvestableCash
<1>1. TypeOK /\ Init => ReserveIsKept
  <2> SUFFICES ASSUME TypeOK, Init PROVE ReserveIsKept
    OBVIOUS
  <2>1. Investable \in Nat /\ committed = 0 /\ release = 0 /\ phase = "targets"
    BY PlanCashIsInvestable DEF Init
  <2>2. QED
    BY <2>1 DEF ReserveIsKept, BuysWithinInvestableCash, Investable
<1>2. TypeOK /\ TypeOK' /\ CashIsThere /\ ReserveIsKept /\ [Next]_vars => ReserveIsKept'
  BY StepReserve
<1>3. ReserveIsKept => BuysWithinInvestableCash
  BY DEF ReserveIsKept
<1>4. QED
  BY <1>1, <1>2, <1>3, ExecutionInvariant, PTL DEF Spec
=============================================================================
