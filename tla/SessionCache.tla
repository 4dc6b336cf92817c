---------------------------- MODULE SessionCache ----------------------------
(***************************************************************************)
(* Broker sessions kept in a local file of each instance and in one shared *)
(* object: calls that connect (cycles), that check the account once a      *)
(* period, that renew the session by a forced login, and that only read    *)
(* with the cached session, next to a provider that ends sessions.         *)
(***************************************************************************)
EXTENDS Naturals, FiniteSets

CONSTANTS
  Instances,      \* instances of the service, each with a local file
  Callers,        \* calls that may be in progress
  InstanceOf,     \* InstanceOf[c]: the instance that serves caller c
  Kinds,          \* Kinds[c]: the kinds of call caller c makes
  Shared,         \* persist_session_cache with a bucket; FALSE: no persistence
  MaxSessions     \* bound: logins of a behaviour

AllKinds == {"connect", "check", "renew", "readOnly"}

ASSUME SessionCacheAssumption ==
  /\ InstanceOf \in [Callers -> Instances]
  /\ Kinds \in [Callers -> SUBSET AllKinds]
  /\ Shared \in BOOLEAN /\ MaxSessions \in Nat

(* A cache holds the session of its payload, or none that can be restored. *)
NoSession == 0

Steps == {"idle", "readMarker", "loadLocal", "loadShared", "try", "login", "saveLocal",
          "saveShared", "readAccount", "saveVerified", "saveFile", "writeMarker", "answered"}

Calls == [step : Steps, kind : AllKinds, session : Nat, ok : BOOLEAN]

IdleCall == [step |-> "idle", kind |-> "connect", session |-> NoSession, ok |-> FALSE]

VARIABLES
  local,       \* local[i]: the file of instance i
  shared,      \* the shared object
  marker,      \* the session-check marker of the period is there
  call,        \* call[c]: what caller c is doing
  accepted,    \* sessions the provider accepts
  issued,      \* sessions issued so far
  settled,     \* trouble is over: no more failures, and payloads are fresh
  verified,    \* history: sessions an account was read with
  stored,      \* history: renewed sessions whose shared write was acknowledged
  checked      \* history: a check of the period has read the account

caches == <<local, shared, marker>>
provider == <<accepted, issued, settled>>
history == <<verified, stored, checked>>
vars == <<caches, call, provider, history>>

Init ==
  /\ local = [i \in Instances |-> NoSession] /\ shared = NoSession /\ marker = FALSE
  /\ call = [c \in Callers |-> IdleCall]
  /\ accepted = {} /\ issued = 0 /\ settled = FALSE
  /\ verified = {} /\ stored = {} /\ checked = FALSE

-----------------------------------------------------------------------------
At(c, step) == call[c].step = step

(* Files, object and calls have their types, no session is known that was  *)
(* not issued, and a call that tries a session has one: an entry without   *)
(* tokens is never restored (_is_valid_session_cache_payload).             *)
TypeOK ==
  /\ local \in [Instances -> Nat] /\ shared \in Nat /\ marker \in BOOLEAN
  /\ call \in [Callers -> Calls]
  /\ \A c \in Callers : At(c, "try") => call[c].session # NoSession
  /\ issued \in Nat /\ settled \in BOOLEAN
  /\ accepted \subseteq 1..issued /\ verified \subseteq 1..issued /\ stored \subseteq 1..issued
  /\ checked \in BOOLEAN

Become(c, x) == call' = [call EXCEPT ![c] = x]

Go(c, step) == Become(c, [call[c] EXCEPT !.step = step])

Take(c, step, session) ==
  Become(c, [call[c] EXCEPT !.step = step, !.session = session])

Answer(c, ok) == Become(c, [call[c] EXCEPT !.step = "answered", !.ok = ok])

(* Where a connection goes on to: a check reads the account with it. *)
Connected(c) ==
  IF call[c].kind = "check" THEN Go(c, "readAccount") ELSE Answer(c, TRUE)

(* A store call or a file operation may fail, a payload may be too old. *)
StoreMayFail == ~settled

(* Fault: a payload is restored whatever is in it. *)
UsableUnseen(session) == TRUE

(* _is_valid_session_cache_payload; its age is left open. *)
Usable(session) == session # NoSession

(* A call begins.  A renewal without a shared cache is refused at once.    *)
Begin(c, kind) ==
  /\ At(c, "idle") /\ kind \in Kinds[c]
  /\ Become(c, [IdleCall EXCEPT !.kind = kind, !.step =
       CASE kind = "check"    -> "readMarker"
         [] kind = "connect"  -> "loadLocal"
         [] kind = "readOnly" -> IF Shared THEN "loadShared" ELSE "loadLocal"
         [] kind = "renew"    -> IF Shared THEN "login" ELSE "answered"])
  /\ UNCHANGED <<caches, provider, history>>

(* resolve_session_check_maintenance_decision: a marker that cannot be     *)
(* read does not stop the check.                                           *)
ReadMarker(c) ==
  /\ At(c, "readMarker")
  /\ \/ ~marker /\ Go(c, "loadLocal")
     \/ marker /\ Answer(c, TRUE)
     \/ StoreMayFail /\ Go(c, "loadLocal")
  /\ UNCHANGED <<caches, provider, history>>

(* Fault: a usable file is taken without a read. *)
LoadLocalUntried(c) ==
  LET entry == local[InstanceOf[c]] IN
  /\ At(c, "loadLocal")
  /\ \/ Usable(entry) /\ Take(c, "saveLocal", entry)
     \/ Go(c, "loadShared")
  /\ UNCHANGED <<caches, provider, history>>

(* _load_session_cache, first the file.  It may be unreadable, or half     *)
(* written by another call of the instance.                                *)
LoadLocal(c) ==
  LET entry == local[InstanceOf[c]] IN
  /\ At(c, "loadLocal")
  /\ \/ Usable(entry) /\ Take(c, "try", entry)
     \/ Go(c, "loadShared")
  /\ UNCHANGED <<caches, provider, history>>

(* Then the shared object.  Without an entry a connect logs in, a reader   *)
(* raises.                                                                 *)
LoadShared(c) ==
  /\ At(c, "loadShared")
  /\ \/ Shared /\ Usable(shared) /\ Take(c, "try", shared)
     \/ /\ ~Shared \/ ~Usable(shared) \/ StoreMayFail
        /\ IF call[c].kind = "readOnly" THEN Answer(c, FALSE) ELSE Go(c, "login")
  /\ UNCHANGED <<caches, provider, history>>

(* The provider answers an account read with the session, or it does not.  *)
ReadSucceeds(session) == session \in accepted
ReadFails(session) == session \notin accepted \/ ~settled

(* _try_cached_session and connect_read_only *)
TrySession(c) ==
  /\ At(c, "try") /\ ReadSucceeds(call[c].session)
  /\ IF call[c].kind = "readOnly" THEN Answer(c, TRUE) ELSE Go(c, "saveLocal")
  /\ verified' = verified \cup {call[c].session}
  /\ UNCHANGED <<caches, provider, stored, checked>>

(* Fault: a rejected session stays in the file. *)
DropSessionKeepingFile(c) ==
  /\ At(c, "try") /\ ReadFails(call[c].session)
  /\ IF call[c].kind = "readOnly" THEN Answer(c, FALSE) ELSE Go(c, "login")
  /\ UNCHANGED <<caches, provider, history>>

(* A connect that cannot use the session unlinks the file, whichever cache *)
(* the session came from, and logs in; a reader leaves the caches alone.   *)
DropSession(c) ==
  /\ At(c, "try") /\ ReadFails(call[c].session)
  /\ \/ call[c].kind = "readOnly" /\ Answer(c, FALSE) /\ UNCHANGED local
     \/ /\ call[c].kind # "readOnly" /\ Go(c, "login")
        /\ \/ local' = [local EXCEPT ![InstanceOf[c]] = NoSession]
           \/ StoreMayFail /\ UNCHANGED local
  /\ UNCHANGED <<shared, marker, provider, history>>

(* Fault: a forced login is saved as any other. *)
LoginSavingAtOnce(c) ==
  LET new == issued + 1 IN
  /\ At(c, "login") /\ issued < MaxSessions
  /\ issued' = new /\ accepted' = accepted \cup {new}
  /\ Take(c, "saveLocal", new)
  /\ verified' = IF call[c].kind = "renew" THEN verified ELSE verified \cup {new}
  /\ UNCHANGED <<caches, settled, stored, checked>>

(* The login succeeds.  A renewal defers saving until it has read the      *)
(* account; a connect reads the account data, or raises.                   *)
Login(c) ==
  LET new == issued + 1  renewal == call[c].kind = "renew" IN
  /\ At(c, "login") /\ issued < MaxSessions
  /\ issued' = new /\ accepted' = accepted \cup {new}
  /\ \/ renewal /\ Take(c, "readAccount", new) /\ UNCHANGED verified
     \/ ~renewal /\ Take(c, "saveLocal", new) /\ verified' = verified \cup {new}
     \/ ~renewal /\ ~settled /\ Answer(c, FALSE) /\ UNCHANGED verified
  /\ UNCHANGED <<caches, settled, stored, checked>>

(* The login asks for a code that is not there, or fails. *)
LoginRefused(c) ==
  /\ At(c, "login") /\ Answer(c, FALSE)
  /\ UNCHANGED <<caches, provider, history>>

(* _save_session_cache, first the file *)
SaveLocal(c) ==
  /\ At(c, "saveLocal")
  /\ Go(c, "saveShared")
  /\ \/ local' = [local EXCEPT ![InstanceOf[c]] = call[c].session]
     \/ StoreMayFail /\ UNCHANGED local
  /\ UNCHANGED <<shared, marker, provider, history>>

(* Then the shared object; a failure is ignored, and nothing compares what *)
(* is there with what is written.                                          *)
SaveShared(c) ==
  /\ At(c, "saveShared")
  /\ Connected(c)
  /\ \/ Shared /\ shared' = call[c].session
     \/ (~Shared \/ StoreMayFail) /\ UNCHANGED shared
  /\ UNCHANGED <<local, marker, provider, history>>

(* Fault: a check that could not read the account counts as done. *)
ReadAccountAnyway(c) ==
  /\ At(c, "readAccount")
  /\ \/ /\ ReadSucceeds(call[c].session)
        /\ verified' = verified \cup {call[c].session}
        /\ Go(c, IF call[c].kind = "renew" THEN "saveVerified" ELSE "writeMarker")
        /\ checked' = (checked \/ call[c].kind = "check")
     \/ /\ ReadFails(call[c].session)
        /\ IF call[c].kind = "renew" THEN Answer(c, FALSE) ELSE Go(c, "writeMarker")
        /\ UNCHANGED <<verified, checked>>
  /\ UNCHANGED <<caches, provider, stored>>

(* select_account and the reads of balances and positions *)
ReadAccount(c) ==
  /\ At(c, "readAccount")
  /\ \/ /\ ReadSucceeds(call[c].session)
        /\ verified' = verified \cup {call[c].session}
        /\ Go(c, IF call[c].kind = "renew" THEN "saveVerified" ELSE "writeMarker")
        /\ checked' = (checked \/ call[c].kind = "check")
     \/ /\ ReadFails(call[c].session)
        /\ Answer(c, FALSE)
        /\ UNCHANGED <<verified, checked>>
  /\ UNCHANGED <<caches, provider, stored>>

(* Fault: the renewal ignores a failed write as connect does. *)
SaveVerifiedQuietly(c) ==
  /\ At(c, "saveVerified")
  /\ Go(c, "saveFile")
  /\ \/ shared' = call[c].session /\ stored' = stored \cup {call[c].session}
     \/ StoreMayFail /\ UNCHANGED <<shared, stored>>
  /\ UNCHANGED <<local, marker, provider, verified, checked>>

(* save_verified_session_cache: the shared object first, and unless its    *)
(* write is acknowledged the renewal fails; then the file.                 *)
SaveVerified(c) ==
  /\ At(c, "saveVerified")
  /\ \/ /\ shared' = call[c].session /\ stored' = stored \cup {call[c].session}
        /\ Go(c, "saveFile")
     \/ /\ StoreMayFail /\ shared' \in {shared, call[c].session} /\ UNCHANGED stored
        /\ Answer(c, FALSE)
  /\ UNCHANGED <<local, marker, provider, verified, checked>>

SaveFile(c) ==
  /\ At(c, "saveFile")
  /\ Answer(c, TRUE)
  /\ \/ local' = [local EXCEPT ![InstanceOf[c]] = call[c].session]
     \/ StoreMayFail /\ UNCHANGED local
  /\ UNCHANGED <<shared, marker, provider, history>>

(* persist_session_check_maintenance; a failure is reported, not raised.   *)
WriteMarker(c) ==
  /\ At(c, "writeMarker")
  /\ Answer(c, TRUE)
  /\ \/ marker' = TRUE
     \/ StoreMayFail /\ UNCHANGED marker
  /\ UNCHANGED <<local, shared, provider, history>>

Return(c) ==
  /\ At(c, "answered")
  /\ Become(c, IdleCall)
  /\ UNCHANGED <<caches, provider, history>>

(* The process serving the call is killed. *)
Crash(c) ==
  /\ StoreMayFail /\ call[c].step \notin {"idle", "answered"}
  /\ Become(c, IdleCall)
  /\ UNCHANGED <<caches, provider, history>>

(* The provider ends a session. *)
Revoke(session) ==
  /\ ~settled /\ session \in accepted
  /\ accepted' = accepted \ {session}
  /\ UNCHANGED <<caches, call, issued, settled, history>>

(* Nothing is in progress, the shared cache holds a session the provider   *)
(* accepts, and trouble is over.                                           *)
Settle ==
  /\ ~settled
  /\ \A c \in Callers : At(c, "idle")
  /\ Usable(shared) /\ shared \in accepted
  /\ settled' = TRUE
  /\ UNCHANGED <<caches, call, accepted, issued, history>>

Proceed(c) ==
  \/ ReadMarker(c) \/ LoadLocal(c) \/ LoadShared(c) \/ TrySession(c) \/ DropSession(c)
  \/ Login(c) \/ LoginRefused(c) \/ SaveLocal(c) \/ SaveShared(c) \/ ReadAccount(c)
  \/ SaveVerified(c) \/ SaveFile(c) \/ WriteMarker(c) \/ Return(c)

Next ==
  \/ \E c \in Callers : \/ Proceed(c) \/ Crash(c)
                        \/ \E kind \in Kinds[c] : Begin(c, kind)
  \/ \E session \in accepted : Revoke(session)
  \/ Settle

Spec == Init /\ [][Next]_vars

(* A request progresses or gunicorn ends it, and scheduled runs keep       *)
(* coming, whatever other calls are made.                                  *)
Fairness ==
  \A c \in Callers : WF_vars(Proceed(c)) /\ SF_vars(Begin(c, "connect"))

FairSpec == Spec /\ Fairness

-----------------------------------------------------------------------------
(* Only sessions that have read an account get into a cache: a renewal     *)
(* whose account or balances cannot be read leaves none behind, whatever   *)
(* calls run beside it (the deferred save of run_forced_session_renewal).  *)
CachedSessionIsVerified ==
  /\ \A i \in Instances : local[i] \in verified \cup {NoSession}
  /\ shared \in verified \cup {NoSession}

(* A renewal that answers ok has read the account and had its session      *)
(* acknowledged by the shared store (docs/account-archive-history.md:38).  *)
RenewalAnswerIsTrue ==
  \A c \in Callers :
    At(c, "answered") /\ call[c].kind = "renew" /\ call[c].ok =>
      call[c].session \in verified \cap stored

(* The period's marker is there only when a check of the period has read   *)
(* the account: failed logins, reads and killed checks do not use it up.   *)
MarkerMeansChecked == marker => checked

(* Once the provider ends no more sessions and nothing is in progress, no  *)
(* later call replaces a working shared session by a rejected one, whatever *)
(* is left in the files of the instances (_try_cached_session re-saves what *)
(* it restored to both caches).                                            *)
SharedStaysUsable == settled => Usable(shared) /\ shared \in accepted

(* A renewal on one instance heals the others: with a working session in   *)
(* the shared cache every instance connects, even if its file holds a      *)
(* rejected session and logins are refused.                                *)
InstancesHeal ==
  \A c \in {c \in Callers : "connect" \in Kinds[c]} :
    settled ~> (At(c, "answered") /\ call[c].kind = "connect" /\ call[c].ok)
=============================================================================
