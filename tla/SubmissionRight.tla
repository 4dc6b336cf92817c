-------------------------- MODULE SubmissionRight ---------------------------
(***************************************************************************)
(* What the live retry boundary promises, without cycles, stores or        *)
(* crashes: every period has one right to send broker requests.  It is     *)
(* taken at most once, only its holder sends, and giving it up uses it up. *)
(***************************************************************************)
CONSTANTS Workers, Periods

VARIABLES
  right,      \* right[p]: "free", its holder, or "used"
  sender      \* sender[p]: "nobody", who is sending, or "past"

Init ==
  /\ right \in [Periods -> {"free", "used"}]
  /\ sender = [p \in Periods |-> "nobody"]

Take(w, p) ==
  /\ right[p] = "free"
  /\ right' = [right EXCEPT ![p] = w]
  /\ UNCHANGED sender

(* A right may be spent without anybody holding it. *)
Lose(p) ==
  /\ right[p] = "free"
  /\ right' = [right EXCEPT ![p] = "used"]
  /\ UNCHANGED sender

Send(w, p) ==
  /\ right[p] = w
  /\ sender' = [sender EXCEPT ![p] = w]
  /\ UNCHANGED right

(* A worker gives the right up, having sent or not. *)
GiveUp(w, p) ==
  /\ right[p] = w
  /\ right' = [right EXCEPT ![p] = "used"]
  /\ sender' = [sender EXCEPT ![p] = IF @ = w THEN "past" ELSE @]

Next ==
  \E p \in Periods :
    \/ Lose(p)
    \/ \E w \in Workers : Take(w, p) \/ Send(w, p) \/ GiveUp(w, p)

Spec == Init /\ [][Next]_<<right, sender>>
=============================================================================
