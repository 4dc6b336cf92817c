-------------------------- MODULE HeartbeatVerdict --------------------------
(***************************************************************************)
(* How the report heartbeat judges the archived runtime reports: the       *)
(* objects it lists, newest first, reduced to a verdict about the targets  *)
(* whose schedule was due.  A report is what _payload_matches,             *)
(* _is_accepted_report and _is_quiet_report make of it:                    *)
(*   "quiet"        accepted, and complete and healthy enough to be quiet  *)
(*   "visible"      accepted, but to be shown (an open order, a stage not  *)
(*                  known to be harmless, an unproved market closure)      *)
(*   "rejected"     errors, a failed notification, a rejected status       *)
(*   "conflicting"  of a required service, but of another identity         *)
(***************************************************************************)
EXTENDS Naturals, Sequences

Classes == {"quiet", "visible", "rejected", "conflicting"}

(* An object of the listing; due: written since its target's last due      *)
(* schedule.                                                               *)
Objects(Targets) == [target : Targets, class : Classes, due : BOOLEAN, readable : BOOLEAN]

(* At most so many of the newest objects are read. *)
Inspected(objects, limit) ==
  SubSeq(objects, 1, IF Len(objects) < limit THEN Len(objects) ELSE limit)

(* Fault: reports from before the due schedule count. *)
CountsWhenever(o, t) == o.target = t /\ o.readable /\ o.class # "conflicting"

(* The object is a report of t that the judgement is about. *)
Counts(o, t) == o.target = t /\ o.readable /\ o.due /\ o.class # "conflicting"

(* The newest report of t, if there is one. *)
Latest(seen, t) ==
  {i \in DOMAIN seen : Counts(seen[i], t) /\ \A j \in 1 .. i - 1 : ~Counts(seen[j], t)}

Accepted(seen, t) == {i \in Latest(seen, t) : seen[i].class \in {"quiet", "visible"}}

Quiet(seen, t) == {i \in Latest(seen, t) : seen[i].class = "quiet"}

(* latest_report_issues: the newest report is rejected, or one of another  *)
(* identity is newer than it.                                              *)
Issue(seen, t) ==
  \/ \E i \in Latest(seen, t) : seen[i].class = "rejected"
  \/ \E i \in DOMAIN seen :
       /\ seen[i].target = t /\ seen[i].readable /\ seen[i].class = "conflicting"
       /\ \A j \in 1 .. i - 1 : ~Counts(seen[j], t)

(* Fault: an unreadable object is passed over. *)
ReadIncompleteNever(seen, T) == FALSE

(* An unreadable object may be a newer report of any target; behind the    *)
(* oldest of the reports that settle the matter it does no harm.           *)
ReadIncomplete(seen, T) ==
  \E i \in DOMAIN seen :
    /\ ~seen[i].readable
    /\ (\A t \in T : Quiet(seen, t) # {} /\ ~Issue(seen, t)) =>
         \E t \in T : \E k \in Quiet(seen, t) : i < k

(* main's verdict about the due targets T. *)
Verdict(objects, T, limit, listed) ==
  LET seen == Inspected(objects, limit)
  IN  IF T = {} THEN "notDue"
      ELSE IF \/ ~listed
              \/ \E t \in T : Accepted(seen, t) = {} \/ Issue(seen, t)
              \/ ReadIncomplete(seen, T)
             THEN "unacceptable"
             ELSE IF \A t \in T : Quiet(seen, t) # {} THEN "healthy" ELSE "attention"
=============================================================================
