--------------------------- MODULE OrderExecution ---------------------------
(***************************************************************************)
(* execute_value_target_plan: one cycle turns a plan of target values into *)
(* orders.  It adjusts targets a small account cannot hold, quotes every   *)
(* symbol, sells one symbol after the other, asks the broker what the      *)
(* sells have released, decides whether the buys must wait for a sell, and *)
(* buys one symbol after the other with the cash left.                     *)
(***************************************************************************)
EXTENDS OrderSizing, FiniteSetsExt

CONSTANTS
  SymbolCount,                  \* symbols of the plan, in the order of their names
  Positions,                    \* what a position of the plan may be
  SafeHavens,                   \* symbols cash may stand in for
  SmallSafeHaven,               \* safe_haven_cash_substitute_threshold_usd
  RetainRatio, BootstrapRatio,  \* by symbol, percent of a share's price
  Quotes,                       \* prices a quote may return
  LiquidCash, Reserves,         \* account cash and the reserve of the policy
  Caps,                         \* max_order_notional_usd, NoCap when unset
  MinTrade,                     \* current_min_trade
  LiveModes, CashOnly, Notional \* settings: subsets of BOOLEAN

ASSUME OrderExecutionAssumption ==
  /\ SymbolCount \in Nat \ {0}
  /\ Positions \subseteq [target : Nat, value : Nat, held : Nat]
  /\ SafeHavens \subseteq 1 .. SymbolCount /\ SmallSafeHaven \in Nat
  /\ RetainRatio \in [1 .. SymbolCount -> Nat] /\ BootstrapRatio \in [1 .. SymbolCount -> Nat]
  /\ Quotes \subseteq Nat \ {0}
  /\ LiquidCash \subseteq Int /\ Reserves \subseteq Nat /\ Caps \subseteq Nat
  /\ MinTrade \in Nat
  /\ LiveModes \subseteq BOOLEAN /\ CashOnly \subseteq BOOLEAN /\ Notional \subseteq BOOLEAN

Symbols == 1..SymbolCount

VARIABLES
  plan,      \* what the cycle was asked to do, its targets adjusted first
  price,     \* the quotes of this execution, NoQuote when unavailable
  phase,     \* where execute_value_target_plan is
  left,      \* symbols the current phase has still to look at
  cash,      \* investable_cash
  release,   \* confirmed_sell_release_value
  sellsOpen, \* pending_sell_release_symbols
  sent,      \* orders sent, with their answer
  skipped,   \* symbols skipped, with the reason
  claimed,   \* the submission claim is held
  committed, \* history: cents of buys the broker accepted or may have accepted
  result     \* the ExecutionCycleResult

vars == <<plan, price, phase, left, cash, release, sellsOpen, sent, skipped,
          claimed, committed, result>>

Plans ==
  [position : [Symbols -> [target : Nat, value : Nat, held : Nat]],
   retained : SUBSET Symbols,
   liquid : LiquidCash, reserved : Reserves, cap : Caps,
   live : LiveModes, cashOnly : CashOnly, notional : Notional]

Phases == {"targets", "quotes", "sells", "release", "buys", "done", "raised"}

Statuses == {"submitted", "rejected", "unknown", "previewed", "lost"}

Orders == [symbol : Symbols, side : {"sell", "buy"}, shares : Nat, amount : Nat,
           status : Statuses]

Reasons == {"below_trade_threshold", "quote_unavailable", "sell_quantity_zero",
            "broker_rejected", "pending_sell_release", "negative_cash",
            "buy_notional_below_minimum", "insufficient_cash_for_whole_share",
            "buy_quantity_zero", "duplicate_live_strategy_run"}

Results == [pending : BOOLEAN, actionDone : BOOLEAN, submissionDone : BOOLEAN,
            blocked : BOOLEAN]
NoResult == [pending |-> FALSE, actionDone |-> FALSE, submissionDone |-> FALSE,
             blocked |-> FALSE]

-----------------------------------------------------------------------------
Position(s) == [target |-> plan.position[s].target, value |-> plan.position[s].value,
                held |-> plan.position[s].held, price |-> price[s]]

BelowThreshold(s) == (IF Delta(plan.position[s]) < 0 THEN -Delta(plan.position[s])
                                                     ELSE Delta(plan.position[s])) < MinTrade

Tradable == {s \in Symbols : ~BelowThreshold(s) /\ price[s] # NoQuote}
Sells == {s \in Tradable : Delta(plan.position[s]) < 0}
Buys == {s \in Tradable : Delta(plan.position[s]) > 0}

(* Symbols are handled in the order of their names. *)
Current == Min(left)

Accepted == {o \in sent : o.status \in {"submitted", "previewed"}}
SellAccepted == \E o \in Accepted : o.side = "sell"

(* What a buy of s would cost with this much cash: its shares and cents. *)
BuyOrder(s, available) ==
  LET pos    == Position(s)
      shares == BuyShares(pos, available, plan.cap, SellAccepted)
  IN  IF plan.notional
        THEN [shares |-> 0, amount |-> NotionalBuy(pos, available, plan.cap)]
        ELSE [shares |-> shares, amount |-> shares * LimitBuyPrice(pos)]

Buyable(order) == IF plan.notional THEN order.amount >= MinNotionalBuy
                                   ELSE order.shares > 0

(* The buy cannot be made before a sell has brought more cash. *)
RequiresRelease(s, available) ==
  /\ ~Buyable(BuyOrder(s, available))
  /\ IF plan.notional
       THEN Delta(plan.position[s]) >= MinNotionalBuy
       ELSE LimitBuyPrice(Position(s)) > BuyBudget(Position(s), available, plan.cap)

EstimatedCost(available) ==
  LET Cost(s) == IF Buyable(BuyOrder(s, available)) THEN BuyOrder(s, available).amount
                                                    ELSE 0
  IN  SumFunction([s \in Buys |-> Cost(s)])

(* Fault: each buy is weighed alone. *)
MustWaitForEachSell(available) == \E s \in Buys : RequiresRelease(s, available)

MustWaitForSells(available) ==
  \/ EstimatedCost(available) > available
  \/ \E s \in Buys : RequiresRelease(s, available)

(* Why no buy of the cycle is made at all. *)
BuysBlockedBy(available) ==
  {r \in {"pending_sell_release", "negative_cash"} :
     /\ plan.cashOnly
     /\ IF sellsOpen # {} THEN r = "pending_sell_release" /\ MustWaitForSells(available)
                          ELSE r = "negative_cash" /\ plan.liquid < 0}

-----------------------------------------------------------------------------
Init ==
  /\ plan \in [position : [Symbols -> Positions], retained : {{}},
              liquid : LiquidCash, reserved : Reserves, cap : Caps,
              live : LiveModes, cashOnly : CashOnly, notional : Notional]
  /\ price = [s \in Symbols |-> NoQuote]
  /\ phase = "targets" /\ left = Symbols
  /\ cash = AtLeastZero(PlanCash(plan.liquid, plan.reserved))
  /\ release = 0 /\ sellsOpen = {} /\ sent = {} /\ skipped = {}
  /\ claimed = FALSE /\ committed = 0 /\ result = NoResult

(* The targets as the cash and a first quote allow them.  Small targets of *)
(* safe havens are left as cash; with whole shares the other targets fit   *)
(* shares, and where none of them remains the safe havens may go too.      *)
HavenAsCash(s) ==
  IF s \in SafeHavens /\ plan.position[s].target < SmallSafeHaven THEN 0
  ELSE plan.position[s].target

Quoted(s, first) ==
  [target |-> HavenAsCash(s), value |-> plan.position[s].value,
   held |-> plan.position[s].held, price |-> first[s]]

WholeShares(s, first) ==
  WholeShareTarget(Quoted(s, first), RetainRatio[s], BootstrapRatio[s],
                   InvestableCash(plan.liquid, plan.reserved))

AdjustedTarget(s, first, swept) ==
  IF s \in SafeHavens THEN IF swept THEN 0 ELSE HavenAsCash(s)
  ELSE IF plan.notional THEN HavenAsCash(s) ELSE WholeShares(s, first)

MaySweep(first) ==
  LET risk == Symbols \ SafeHavens IN
  /\ ~plan.notional
  /\ \A s \in risk : WholeShares(s, first) = 0
  /\ \E s \in risk : HavenAsCash(s) > 0

AdjustTargets ==
  /\ phase = "targets" /\ phase' = "quotes"
  /\ \E first \in [Symbols -> Quotes \cup {NoQuote}], swept \in BOOLEAN :
       /\ \A s \in Symbols : s \in SafeHavens \/ plan.notional => first[s] = NoQuote
       /\ swept => MaySweep(first)
       /\ plan' = [position |-> [s \in Symbols |->
                                  [target |-> AdjustedTarget(s, first, swept),
                                   value |-> plan.position[s].value, held |-> plan.position[s].held]],
                   retained |-> {s \in Symbols : first[s] # NoQuote
                                                  /\ RetainsShare(Quoted(s, first), RetainRatio[s])},
                   liquid |-> plan.liquid, reserved |-> plan.reserved, cap |-> plan.cap,
                   live |-> plan.live, cashOnly |-> plan.cashOnly, notional |-> plan.notional]
  /\ UNCHANGED <<price, left, cash, release, sellsOpen, sent, skipped, claimed, committed, result>>

(* The deltas below the threshold are dropped, the others are quoted. *)
QuoteAll ==
  /\ phase = "quotes"
  /\ \E quoted \in [Symbols -> Quotes \cup {NoQuote}] :
       /\ \A s \in Symbols : BelowThreshold(s) => quoted[s] = NoQuote
       /\ price' = quoted
       /\ skipped' = {<<s, IF BelowThreshold(s) THEN "below_trade_threshold"
                                               ELSE "quote_unavailable">> :
                        s \in {t \in Symbols : quoted[t] = NoQuote}}
       /\ left' = {s \in Symbols : quoted[s] # NoQuote /\ Delta(plan.position[s]) < 0}
  /\ phase' = "sells"
  /\ UNCHANGED <<plan, cash, release, sellsOpen, sent, claimed, committed, result>>

(* The sell phase looks at one symbol. *)
SellZero ==
  /\ phase = "sells" /\ left # {}
  /\ SellShares(Position(Current), plan.cap) = 0
  /\ sellsOpen' = sellsOpen \cup {Current}
  /\ skipped' = skipped \cup {<<Current, "sell_quantity_zero">>}
  /\ left' = left \ {Current}
  /\ UNCHANGED <<plan, price, phase, cash, release, sent, claimed, committed, result>>

(* The next order of either phase, if the symbol has one. *)
NextSell ==
  {[symbol |-> Current, side |-> "sell", shares |-> n,
    amount |-> n * LimitSellPrice(Position(Current))] :
     n \in {SellShares(Position(Current), plan.cap)} \ {0}}

NextBuy ==
  {[symbol |-> Current, side |-> "buy", shares |-> b.shares, amount |-> b.amount] :
     b \in {c \in {BuyOrder(Current, cash)} : Buyable(c)}}

NextOrder ==
  CASE phase = "sells" /\ left # {} -> NextSell
    [] phase = "buys" /\ left # {} -> NextBuy
    [] OTHER -> {}

Spends(order) == IF order.side = "buy" THEN order.amount ELSE 0

(* The broker's answer to an order.  A rejected order frees its cash; an   *)
(* unknown one ends the execution at once.                                 *)
Answers == IF plan.live THEN {"submitted", "rejected", "unknown"} ELSE {"previewed"}

(* Fault: an unknown answer counts as settled. *)
UnknownResultSettled ==
  [pending |-> FALSE, actionDone |-> FALSE, submissionDone |-> Accepted # {}, blocked |-> FALSE]

UnknownResult ==
  [pending |-> TRUE, actionDone |-> FALSE, submissionDone |-> Accepted # {}, blocked |-> FALSE]

Submit(order, answer) ==
  /\ claimed' = (claimed \/ plan.live)
  /\ sent' = sent \cup {[symbol |-> order.symbol, side |-> order.side,
                         shares |-> order.shares, amount |-> order.amount,
                         status |-> answer]}
  /\ sellsOpen' = IF order.side = "sell" THEN sellsOpen \cup {order.symbol} ELSE sellsOpen
  /\ skipped' = IF answer = "rejected" THEN skipped \cup {<<order.symbol, "broker_rejected">>}
                                       ELSE skipped
  /\ committed' = IF answer = "rejected" THEN committed ELSE committed + Spends(order)
  /\ cash' = IF answer \in {"submitted", "previewed"}
               THEN AtLeastZero(cash - Spends(order)) ELSE cash
  /\ left' = left \ {order.symbol}
  /\ UNCHANGED <<plan, price, release>>

(* Fault: the execution goes on after an unknown answer. *)
SubmitOrderAndGoOn ==
  \E order \in NextOrder, answer \in Answers :
    Submit(order, answer) /\ UNCHANGED <<phase, result>>

SubmitOrder ==
  \E order \in NextOrder, answer \in Answers :
    /\ Submit(order, answer)
    /\ IF answer = "unknown"
         THEN phase' = "done" /\ result' = UnknownResult
         ELSE UNCHANGED <<phase, result>>

(* The request raised: the cycle ends without an ExecutionCycleResult. *)
SubmitRaises ==
  /\ plan.live
  /\ \E order \in NextOrder : Submit(order, "lost")
  /\ phase' = "raised"
  /\ UNCHANGED result

(* Another cycle holds the period's claim. *)
ClaimUnavailable ==
  /\ plan.live /\ ~claimed
  /\ \E order \in NextOrder :
       skipped' = skipped \cup {<<order.symbol, "duplicate_live_strategy_run">>}
  /\ result' = [NoResult EXCEPT !.blocked = TRUE]
  /\ phase' = "done"
  /\ UNCHANGED <<plan, price, left, cash, release, sellsOpen, sent, claimed, committed>>

(* The sells are through: the broker is asked for the fills of each one it *)
(* accepted.                                                               *)
SellReleases == {o \in sent : o.side = "sell" /\ o.status = "submitted"}

BeginRelease ==
  /\ phase = "sells" /\ left = {}
  /\ phase' = "release"
  /\ left' = {o.symbol : o \in SellReleases}
  /\ UNCHANGED <<plan, price, cash, release, sellsOpen, sent, skipped, claimed,
                 committed, result>>

(* Proceeds of an order not filled, filled in part, or filled as a whole. *)
Fills(order) == {0, LimitSellPrice(Position(order.symbol)), order.amount}

ConfirmFill ==
  /\ phase = "release" /\ left # {}
  /\ \E order \in SellReleases :
       /\ order.symbol = Current
       /\ \E proceeds \in Fills(order) : release' = release + proceeds
  /\ left' = left \ {Current}
  /\ UNCHANGED <<plan, price, phase, cash, sellsOpen, sent, skipped, claimed,
                 committed, result>>

StatusQueryRaises ==
  /\ phase = "release" /\ left # {}
  /\ phase' = "raised"
  /\ UNCHANGED <<plan, price, left, cash, release, sellsOpen, sent, skipped, claimed,
                 committed, result>>

(* Fault: the sells placed count as released. *)
DecideBuysOnPlacedSells ==
  /\ phase = "release" /\ left = {}
  /\ phase' = "buys"
  /\ cash' = AtLeastZero(PlanCash(plan.liquid, plan.reserved)
                         + SumFunction([o \in SellReleases |-> o.amount]))
  /\ left' = IF BuysBlockedBy(cash') = {} THEN Buys ELSE {}
  /\ skipped' = skipped \cup (Buys \X BuysBlockedBy(cash'))
  /\ UNCHANGED <<plan, price, release, sellsOpen, sent, claimed, committed, result>>

(* The buys are let through or all put off. *)
DecideBuys ==
  /\ phase = "release" /\ left = {}
  /\ phase' = "buys"
  /\ cash' = AtLeastZero(PlanCash(plan.liquid, plan.reserved) + release)
  /\ left' = IF BuysBlockedBy(cash') = {} THEN Buys ELSE {}
  /\ skipped' = skipped \cup (Buys \X BuysBlockedBy(cash'))
  /\ UNCHANGED <<plan, price, release, sellsOpen, sent, claimed, committed, result>>

BuyZero ==
  /\ phase = "buys" /\ left # {}
  /\ ~Buyable(BuyOrder(Current, cash))
  /\ skipped' = skipped \cup {<<Current,
       IF plan.notional THEN "buy_notional_below_minimum"
       ELSE IF plan.cap = NoCap /\ cash < LimitBuyPrice(Position(Current))
         THEN "insufficient_cash_for_whole_share" ELSE "buy_quantity_zero">>}
  /\ left' = left \ {Current}
  /\ UNCHANGED <<plan, price, phase, cash, release, sellsOpen, sent, claimed, committed, result>>

(* Fault: every recorded order counts as done. *)
FinishSubmitted ==
  /\ phase = "buys" /\ left = {}
  /\ LET statuses == {o.status : o \in sent}
     IN  result' = [pending |-> FALSE, actionDone |-> statuses # {},
                    submissionDone |-> "submitted" \in statuses, blocked |-> FALSE]
  /\ phase' = "done"
  /\ UNCHANGED <<plan, price, left, cash, release, sellsOpen, sent, skipped, claimed, committed>>

(* The result is read off the statuses of the submitted orders. *)
Finish ==
  /\ phase = "buys" /\ left = {}
  /\ LET statuses == {o.status : o \in {x \in sent : x.status # "rejected"}}
         pending  == "submitted" \in statuses
     IN  result' = [pending |-> pending,
                    actionDone |-> statuses # {} /\ ~pending /\ statuses \subseteq {"previewed"},
                    submissionDone |-> pending, blocked |-> FALSE]
  /\ phase' = "done"
  /\ UNCHANGED <<plan, price, left, cash, release, sellsOpen, sent, skipped, claimed, committed>>

(* Nothing is left to do; the next cycle is another behaviour. *)
Ended ==
  /\ phase \in {"done", "raised"}
  /\ UNCHANGED vars

Next == \/ AdjustTargets \/ QuoteAll \/ SellZero \/ SubmitOrder \/ SubmitRaises \/ ClaimUnavailable
        \/ BeginRelease \/ ConfirmFill \/ StatusQueryRaises \/ DecideBuys \/ BuyZero \/ Finish \/ Ended

Spec == Init /\ [][Next]_vars

-----------------------------------------------------------------------------
(* Plan, cash, orders and result have their types: the cash               *)
(* execute_value_target_plan spends from is never negative, a margin debit *)
(* included.                                                               *)
TypeOK ==
  /\ plan \in Plans
  /\ price \in [Symbols -> Quotes \cup {NoQuote}]
  /\ phase \in Phases
  /\ left \subseteq Symbols
  /\ cash \in Nat /\ release \in Nat /\ committed \in Nat
  /\ sellsOpen \subseteq Symbols
  /\ sent \subseteq Orders
  /\ skipped \subseteq Symbols \X Reasons
  /\ claimed \in BOOLEAN
  /\ result \in Results

(* Buys never commit more than the account's cash and what the broker has  *)
(* confirmed of the sells, whatever is rejected, unknown or raises on the  *)
(* way: proceeds of an open sell are never spent.                          *)
BuysCoveredByCash == committed <= AtLeastZero(plan.liquid + release)

(* The inductive form: what is left to spend is there as well, and each    *)
(* phase still looks at its own quoted symbols only.                       *)
CashIsThere ==
  /\ BuysCoveredByCash
  /\ phase \in {"targets", "quotes", "sells", "release"} => committed = 0
  /\ phase = "sells" => left \subseteq Sells
  /\ phase = "buys" => /\ cash + committed <= AtLeastZero(plan.liquid + release)
                       /\ left \subseteq Buys

(* The reserve: buys are paid from the investable cash of the plan and the *)
(* confirmed sells.                                                        *)
BuysWithinInvestableCash ==
  committed <= InvestableCash(plan.liquid, plan.reserved) + release

(* A sell never exceeds the whole shares held, even where the market value *)
(* of the plan and the quote disagree.                                     *)
SellsWithinHolding ==
  \A o \in sent : o.side = "sell" => o.shares * ShareUnits <= plan.position[o.symbol].held

(* No order is larger than the cap at the price it was sized with. *)
OrdersWithinCap ==
  plan.cap # NoCap =>
    \A o \in sent : /\ o.side = "buy" => o.amount <= plan.cap
                    /\ o.side = "sell" => o.shares * price[o.symbol] <= plan.cap

(* A sell leaves the worth of the position's target, unless the plan's     *)
(* market value was above what the quote makes of the holding.  So the     *)
(* share kept for a target just below it is not sold after all where the   *)
(* second quote is not above the first, or where whole shares are held and *)
(* the price has not doubled since.                                        *)
SellsLeaveTarget ==
  \A o \in sent :
    LET pos  == Position(o.symbol)
        rest == pos.held - o.shares * ShareUnits
    IN  o.side = "sell" /\ pos.value <= SellableNotional(pos) =>
          /\ rest * pos.price >= pos.target * ShareUnits
          /\ /\ o.symbol \in plan.retained
             /\ \/ pos.price <= pos.target
                \/ pos.held % ShareUnits = 0 /\ pos.price < 2 * pos.target
             => rest >= ShareUnits

(* No order goes past what limits it, whatever the plan, the quotes and    *)
(* the market value say: a sell past the whole shares held or into what    *)
(* the plan keeps, a buy or a sell past the cap of one order.              *)
OrdersWithinLimits == SellsWithinHolding /\ SellsLeaveTarget /\ OrdersWithinCap

(* Behind an open sell a cash-only cycle in whole shares makes all of its  *)
(* buys, each as large as the whole cash allows, or none of them: it never *)
(* spends half of a rebalancing on the first symbols.                      *)
BuysAllOrNone ==
  phase = "done" /\ sellsOpen # {} /\ plan.cashOnly /\ ~plan.notional =>
    LET bought == {o \in sent : o.side = "buy"}
        start  == AtLeastZero(PlanCash(plan.liquid, plan.reserved) + release)
    IN  /\ \A o \in bought :
             o.shares = BuyShares(Position(o.symbol), start, plan.cap, SellAccepted)
        /\ \/ bought = {}
           \/ {o.symbol : o \in bought} = Buys
           \/ \E o \in bought : o.status = "unknown"

(* After a request with an unknown outcome, or one that raised, the cycle  *)
(* sends nothing more.                                                     *)
UnknownEndsExecution ==
  [][(\E o \in sent : o.status \in {"unknown", "lost"}) => sent' = sent]_vars

(* The result asks for reconciliation exactly when the broker may hold an  *)
(* order of the cycle, and a cycle that lost the claim has sent nothing.   *)
ResultCoversLiveOrders ==
  phase = "done" =>
    /\ result.pending <=> \E o \in sent : o.status \in {"submitted", "unknown"}
    /\ result.actionDone => \A o \in sent : o.status = "previewed"
    /\ result.blocked => sent = {}
=============================================================================
