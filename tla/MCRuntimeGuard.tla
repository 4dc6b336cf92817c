--------------------------- MODULE MCRuntimeGuard ---------------------------
(* An instance of RuntimeGuard, with its Deployment, for the model checker. *)
EXTENDS RuntimeGuard, TLC

CONSTANTS e1, e2, s1, s2, x, y

Symmetry == Permutations(Ids)

(* Runs of the guard: two beside two log entries, two beside one entry and *)
(* a new revision, three that find no entry.  Workflows: two one after the *)
(* other, so that a migration is made and undone, for a plan of one target *)
(* and for one of several; and one beside an operator's edit, whatever     *)
(* alias the facts' secret has.                                            *)
Template(a) == [image |-> ServingSha, commit |-> ServingSha, env |-> x, facts |-> "unset", alias |-> a]
Scenario(a, l, b, g, e, f, o, t) ==
  [template |-> Template(a), latest |-> l, several |-> b,
   quota |-> [guards |-> g, entries |-> e, flows |-> f, edits |-> o, ticks |-> t]]
MCScenarios ==
  {Scenario("none", FALSE, FALSE, 2, 2, 0, 0, 1), Scenario("none", FALSE, FALSE, 2, 1, 0, 1, 1),
   Scenario("none", FALSE, FALSE, 3, 0, 0, 0, 2)}
  \cup {Scenario("own", FALSE, FALSE, 0, 0, 2, 0, 0), Scenario("own", FALSE, TRUE, 0, 0, 2, 0, 0)}
  \cup {Scenario(a, l, FALSE, 0, 0, 1, 1, 0) : a \in {"none", "own", "shared", "other"}, l \in BOOLEAN}

MCShown == [s \in Services |-> s]

(* One service listed and one a target; a target that is switched off and  *)
(* one of the same service and one more that inherit it; variables that    *)
(* cannot be parsed.  The second asks for a successful request.            *)
Setup(s, o, i, r) == [service |-> s, own |-> o, inherited |-> i, runtime |-> r]
MCConfigs ==
  {[valid |-> TRUE, listed |-> {s1}, required |-> FALSE,
    targets |-> {Setup(s2, "true", "false", "unset")}],
   [valid |-> TRUE, listed |-> {s1, s2}, required |-> TRUE,
    targets |-> {Setup(s1, "false", "unset", "true"), Setup(s1, "unset", "true", "false"),
                 Setup(s2, "unset", "unset", "false")}],
   [valid |-> FALSE, listed |-> {s1}, required |-> FALSE, targets |-> {}]}
=============================================================================
