-------------------------- MODULE MCOrderExecution --------------------------
(* Instances of OrderExecution for TLC. *)
EXTENDS OrderExecution

(* A margin debit is a negative liquid cash. *)
CashOrDebit == {-100, 500}

(* At prices about 200 and two units a share: a value without shares, a    *)
(* position to sell, one to buy and one to top up, a first share almost    *)
(* wanted, and two shares of which one almost is.                          *)
Pos(t, v, h) == [target |-> t, value |-> v, held |-> h]
Portfolio ==
  {Pos(0, 250, 0), Pos(0, 250, 3), Pos(400, 0, 0), Pos(400, 250, 3),
   Pos(180, 0, 0), Pos(180, 400, 4)}

(* For the reserve: targets and values on both sides of a share.           *)
SmallPortfolio ==
  {Pos(t, v, h) : t \in {0, 150, 400}, v \in {0, 250}, h \in {0, 3}}

Ratios == [s \in 1 .. SymbolCount |-> 85]
=============================================================================
