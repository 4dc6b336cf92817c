------------------------- MODULE SessionCacheProofs -------------------------
(***************************************************************************)
(* What is in the caches, what a renewal answers and what the marker says, *)
(* for any instances, callers, kinds of call, faults and bounds.           *)
(***************************************************************************)
EXTENDS SessionCache, TLAPS

USE SessionCacheAssumption

(* Steps at which a call holds a session an account was read with: the     *)
(* ones that restore it from a cache, and the ones that write it there.    *)
Trusted == {"try", "saveLocal", "saveShared", "saveVerified", "saveFile"}

(* A renewal never restores, and never goes through the quiet save. *)
RenewalSteps == {"login", "readAccount", "saveVerified", "saveFile", "answered"}

(* What a call knows, from the sessions read with, the ones stored and     *)
(* whether the period has been checked.                                    *)
Knows(x, read, kept, done) ==
  /\ x.step = "try" => x.session # NoSession
  /\ x.step \in Trusted => x.session \in read
  /\ x.step = "saveFile" => x.session \in kept
  /\ x.kind = "renew" => x.step \in RenewalSteps
  /\ x.step = "readAccount" => x.kind \in {"check", "renew"}
  /\ x.step = "writeMarker" => done
  /\ x.step = "answered" /\ x.kind = "renew" /\ x.ok => x.session \in read \cap kept

CallsKnow == \A c \in Callers : Knows(call[c], verified, stored, checked)

IInv ==
  /\ TypeOK
  /\ CachedSessionIsVerified
  /\ CallsKnow
  /\ MarkerMeansChecked

LEMMA PartsOfRenewalAnswer == IInv => RenewalAnswerIsTrue
BY DEF IInv, CallsKnow, Knows, RenewalAnswerIsTrue, At

-----------------------------------------------------------------------------
(* Records *)

LEMMA IdleType == IdleCall \in Calls /\ NoSession \in Nat
BY DEF IdleCall, Calls, Steps, AllKinds, NoSession

(* One field of a call set: the others keep their values. *)
LEMMA OneField ==
  ASSUME NEW x \in Calls
  PROVE  /\ \A v \in Steps : LET y == [x EXCEPT !.step = v] IN
              y \in Calls /\ y.step = v /\ y.kind = x.kind /\ y.session = x.session /\ y.ok = x.ok
         /\ \A v \in AllKinds : LET y == [x EXCEPT !.kind = v] IN
              y \in Calls /\ y.step = x.step /\ y.kind = v /\ y.session = x.session /\ y.ok = x.ok
         /\ \A v \in Nat : LET y == [x EXCEPT !.session = v] IN
              y \in Calls /\ y.step = x.step /\ y.kind = x.kind /\ y.session = v /\ y.ok = x.ok
         /\ \A v \in BOOLEAN : LET y == [x EXCEPT !.ok = v] IN
              y \in Calls /\ y.step = x.step /\ y.kind = x.kind /\ y.session = x.session /\ y.ok = v
<1>1. \A v \in Steps : LET y == [x EXCEPT !.step = v] IN
        y \in Calls /\ y.step = v /\ y.kind = x.kind /\ y.session = x.session /\ y.ok = x.ok
  BY DEF Calls
<1>2. \A v \in AllKinds : LET y == [x EXCEPT !.kind = v] IN
        y \in Calls /\ y.step = x.step /\ y.kind = v /\ y.session = x.session /\ y.ok = x.ok
  BY DEF Calls
<1>3. \A v \in Nat : LET y == [x EXCEPT !.session = v] IN
        y \in Calls /\ y.step = x.step /\ y.kind = x.kind /\ y.session = v /\ y.ok = x.ok
  BY DEF Calls
<1>4. \A v \in BOOLEAN : LET y == [x EXCEPT !.ok = v] IN
        y \in Calls /\ y.step = x.step /\ y.kind = x.kind /\ y.session = x.session /\ y.ok = v
  BY DEF Calls
<1> QED BY <1>1, <1>2, <1>3, <1>4

LEMMA CallType ==
  ASSUME TypeOK, NEW c \in Callers
  PROVE  call[c] \in Calls /\ call[c].session \in Nat /\ InstanceOf[c] \in Instances
BY DEF TypeOK, Calls

-----------------------------------------------------------------------------
(* One call moves *)

(* What is known stays known while the sets it speaks of grow. *)
LEMMA KnowledgeGrows ==
  ASSUME NEW x, NEW read, NEW kept, NEW done, NEW read2, NEW kept2, NEW done2,
         Knows(x, read, kept, done), read \subseteq read2, kept \subseteq kept2, done => done2
  PROVE  Knows(x, read2, kept2, done2)
BY DEF Knows

(* A call that moves to a state it may be in leaves the others alone. *)
LEMMA OneMoves ==
  ASSUME TypeOK, CallsKnow, NEW c \in Callers, NEW x \in Calls, Become(c, x),
         Knows(x, verified', stored', checked'),
         verified \subseteq verified', stored \subseteq stored', checked => checked'
  PROVE  /\ call' \in [Callers -> Calls]
         /\ CallsKnow'
<1>1. /\ call' \in [Callers -> Calls]
      /\ call'[c] = x
      /\ \A d \in Callers \ {c} : call'[d] = call[d]
  BY DEF Become, TypeOK
<1>2. ASSUME NEW d \in Callers PROVE Knows(call'[d], verified', stored', checked')
  <2>1. CASE d = c
    BY <1>1, <2>1
  <2>2. CASE d # c
    BY <1>1, <2>2, KnowledgeGrows DEF CallsKnow
  <2> QED BY <2>1, <2>2
<1>3. CallsKnow'
  BY <1>2 DEF CallsKnow
<1> QED BY <1>1, <1>3

(* The same for a move that sets the step, or the step and the answer. *)
LEMMA GoMoves ==
  ASSUME TypeOK, NEW c \in Callers, NEW s \in Steps, Go(c, s)
  PROVE  \E x \in Calls : /\ Become(c, x) /\ x.step = s
                          /\ x.kind = call[c].kind /\ x.session = call[c].session
                          /\ x.ok = call[c].ok
<1> DEFINE y == [call[c] EXCEPT !.step = s]
<1>1. call[c] \in Calls
  BY CallType
<1>2. /\ y \in Calls /\ y.step = s /\ y.kind = call[c].kind
      /\ y.session = call[c].session /\ y.ok = call[c].ok
  BY <1>1, OneField
<1>3. Become(c, y)
  BY DEF Go
<1> HIDE DEF y
<1> QED BY <1>2, <1>3

LEMMA AnswerMoves ==
  ASSUME TypeOK, NEW c \in Callers, NEW b \in BOOLEAN, Answer(c, b)
  PROVE  \E x \in Calls : /\ Become(c, x) /\ x.step = "answered"
                          /\ x.kind = call[c].kind /\ x.session = call[c].session
                          /\ x.ok = b
<1> DEFINE x == call[c]
           d == [x EXCEPT !.step = "answered"]
           y == [d EXCEPT !.ok = b]
<1>1. Become(c, y)
  BY DEF Answer
<1>2. x \in Calls /\ "answered" \in Steps
  BY CallType DEF Steps
<1> HIDE DEF x
<1>3. /\ d \in Calls /\ d.step = "answered" /\ d.kind = x.kind
      /\ d.session = x.session /\ d.ok = x.ok
  BY <1>2, OneField
<1> HIDE DEF d
<1>4. /\ y \in Calls /\ y.step = "answered" /\ y.kind = x.kind
      /\ y.session = x.session /\ y.ok = b
  BY <1>2, <1>3, OneField
<1> HIDE DEF y
<1> USE DEF x
<1> QED BY <1>1, <1>4

LEMMA TakeMoves ==
  ASSUME TypeOK, NEW c \in Callers, NEW s \in Steps, NEW n \in Nat, Take(c, s, n)
  PROVE  \E x \in Calls : /\ Become(c, x) /\ x.step = s
                          /\ x.kind = call[c].kind /\ x.session = n
                          /\ x.ok = call[c].ok
<1> DEFINE x == call[c]
           d == [x EXCEPT !.step = s]
           y == [d EXCEPT !.session = n]
<1>1. Become(c, y)
  BY DEF Take
<1>2. x \in Calls /\ s \in Steps
  BY CallType DEF Steps
<1> HIDE DEF x
<1>3. /\ d \in Calls /\ d.step = s /\ d.kind = x.kind
      /\ d.session = x.session /\ d.ok = x.ok
  BY <1>2, OneField
<1> HIDE DEF d
<1>4. /\ y \in Calls /\ y.step = s /\ y.kind = x.kind
      /\ y.session = n /\ y.ok = x.ok
  BY <1>2, <1>3, OneField
<1> HIDE DEF y
<1> USE DEF x
<1> QED BY <1>1, <1>4

(* A call that ends or is killed is idle. *)
LEMMA IdleMoves ==
  ASSUME TypeOK, CallsKnow, NEW c \in Callers, Become(c, IdleCall), UNCHANGED history
  PROVE  /\ call' \in [Callers -> Calls]
         /\ CallsKnow'
<1>1. Knows(IdleCall, verified', stored', checked')
  BY DEF Knows, IdleCall, Trusted
<1>2. verified' = verified /\ stored' = stored /\ checked' = checked
  BY DEF history
<1> QED BY <1>1, <1>2, IdleType, OneMoves

-----------------------------------------------------------------------------
(* The parts of the invariant, by what an action can disturb in them. *)

CallsHold == call \in [Callers -> Calls] /\ CallsKnow

CachesHold ==
  /\ local \in [Instances -> Nat] /\ shared \in Nat
  /\ CachedSessionIsVerified

MarkerHolds == marker \in BOOLEAN /\ checked \in BOOLEAN /\ MarkerMeansChecked

ProviderHolds ==
  /\ issued \in Nat /\ settled \in BOOLEAN
  /\ accepted \subseteq 1..issued /\ verified \subseteq 1..issued /\ stored \subseteq 1..issued

LEMMA PartsOfIInv == CallsHold /\ CachesHold /\ MarkerHolds /\ ProviderHolds => IInv
BY DEF IInv, CallsHold, CachesHold, MarkerHolds, ProviderHolds, TypeOK, CallsKnow, Knows, At

LEMMA PartsAfter == CallsHold' /\ CachesHold' /\ MarkerHolds' /\ ProviderHolds' => IInv'
BY DEF IInv, CallsHold, CachesHold, MarkerHolds, ProviderHolds, TypeOK, CallsKnow, Knows, At

LEMMA FileWritten ==
  ASSUME IInv, NEW c \in Callers, NEW e \in Nat,
         e \in verified \cup {NoSession},
         \/ local' = [local EXCEPT ![InstanceOf[c]] = e]
         \/ UNCHANGED local,
         UNCHANGED <<shared, verified>>
  PROVE  CachesHold'
BY CallType DEF IInv, TypeOK, CachesHold, CachedSessionIsVerified

LEMMA ObjectWritten ==
  ASSUME IInv, NEW e \in Nat, e \in verified \cup {NoSession},
         shared' = e \/ UNCHANGED shared, UNCHANGED <<local, verified>>
  PROVE  CachesHold'
BY DEF IInv, TypeOK, CachesHold, CachedSessionIsVerified

LEMMA CachesUnchanged ==
  ASSUME IInv, UNCHANGED <<local, shared>>, verified \subseteq verified'
  PROVE  CachesHold'
BY DEF IInv, TypeOK, CachesHold, CachedSessionIsVerified

LEMMA HistoryUnchanged ==
  ASSUME IInv, UNCHANGED <<marker, provider, history>>
  PROVE  /\ MarkerHolds' /\ ProviderHolds'
         /\ verified' = verified /\ stored' = stored /\ checked' = checked
BY DEF IInv, TypeOK, MarkerHolds, MarkerMeansChecked, ProviderHolds, provider, history

(* What a call at one of its steps knows. *)
LEMMA Known ==
  ASSUME IInv, NEW c \in Callers
  PROVE  /\ call[c] \in Calls
         /\ Knows(call[c], verified, stored, checked)
BY DEF IInv, TypeOK, CallsKnow

LEMMA CallsHoldAfter ==
  ASSUME IInv, NEW c \in Callers,
         \E x \in Calls : Become(c, x) /\ Knows(x, verified', stored', checked'),
         verified \subseteq verified', stored \subseteq stored', checked => checked'
  PROVE  CallsHold'
BY OneMoves DEF IInv, CallsHold

(* Moves that take nothing new and learn nothing. *)
LEMMA GoHolds ==
  ASSUME IInv, NEW c \in Callers, NEW s \in Steps, Go(c, s), UNCHANGED history,
         s \in Trusted \ {"try"} => call[c].session \in verified,
         s # "try", s # "answered",
         s = "saveFile" => call[c].session \in stored,
         call[c].kind = "renew" => s \in RenewalSteps,
         s = "readAccount" => call[c].kind \in {"check", "renew"},
         s = "writeMarker" => checked
  PROVE  CallsHold'
<1>1. PICK x \in Calls : /\ Become(c, x) /\ x.step = s
                         /\ x.kind = call[c].kind /\ x.session = call[c].session
                         /\ x.ok = call[c].ok
  BY GoMoves DEF IInv
<1>2. verified' = verified /\ stored' = stored /\ checked' = checked
  BY DEF history
<1>3. Knows(x, verified', stored', checked')
  BY <1>1, <1>2 DEF Knows, Trusted
<1> QED BY <1>1, <1>2, <1>3, CallsHoldAfter

LEMMA AnswerHolds ==
  ASSUME IInv, NEW c \in Callers, NEW b \in BOOLEAN, Answer(c, b),
         UNCHANGED history,
         b => call[c].kind # "renew"
  PROVE  CallsHold'
<1>1. PICK x \in Calls : /\ Become(c, x) /\ x.step = "answered"
                         /\ x.kind = call[c].kind /\ x.session = call[c].session
                         /\ x.ok = b
  BY AnswerMoves DEF IInv
<1>2. verified' = verified /\ stored' = stored /\ checked' = checked
  BY DEF history
<1>3. Knows(x, verified', stored', checked')
  BY <1>1 DEF Knows, Trusted, RenewalSteps
<1> QED BY <1>1, <1>2, <1>3, CallsHoldAfter

-----------------------------------------------------------------------------
(* The initial states, and one lemma for each group of actions. *)

LEMMA InitHolds == Init => IInv
<1> SUFFICES ASSUME Init PROVE IInv
  OBVIOUS
<1>1. CallsHold
  BY IdleType DEF Init, CallsHold, CallsKnow, Knows, Trusted, IdleCall
<1>2. CachesHold
  BY IdleType DEF Init, CachesHold, CachedSessionIsVerified
<1>3. MarkerHolds /\ ProviderHolds
  BY DEF Init, MarkerHolds, MarkerMeansChecked, ProviderHolds
<1> QED BY <1>1, <1>2, <1>3, PartsOfIInv

(* Going on from the caches: what is taken from them is verified. *)
LEMMA BeginHolds ==
  ASSUME IInv, NEW c \in Callers, NEW kind \in Kinds[c], Begin(c, kind)
  PROVE  IInv'
<1> DEFINE s == CASE kind = "check"    -> "readMarker"
                  [] kind = "connect"  -> "loadLocal"
                  [] kind = "readOnly" -> IF Shared THEN "loadShared" ELSE "loadLocal"
                  [] kind = "renew"    -> IF Shared THEN "login" ELSE "answered"
           k == [IdleCall EXCEPT !.kind = kind]
           x == [k EXCEPT !.step = s]
<1>1. Become(c, x)
  BY DEF Begin
<1>2. kind \in AllKinds
  BY DEF SessionCacheAssumption
<1>3. /\ s \in Steps /\ s \notin Trusted \cup {"readAccount", "writeMarker"}
      /\ kind = "renew" => s \in RenewalSteps
  BY <1>2 DEF AllKinds, Steps, Trusted, RenewalSteps
<1> HIDE DEF s
<1>4. k \in Calls /\ k.kind = kind /\ k.ok = FALSE
  BY <1>2, IdleType, OneField DEF IdleCall
<1> HIDE DEF k
<1>5. x \in Calls /\ x.step = s /\ x.kind = kind /\ x.ok = FALSE
  BY <1>3, <1>4, OneField
<1> HIDE DEF x
<1>6. UNCHANGED <<caches, provider, history>>
  BY DEF Begin
<1>7. MarkerHolds' /\ ProviderHolds' /\ CachesHold'
  BY <1>6, HistoryUnchanged, CachesUnchanged DEF caches, history
<1>8. verified' = verified /\ stored' = stored /\ checked' = checked
  BY <1>6 DEF history
<1>9. Knows(x, verified', stored', checked')
  BY <1>3, <1>5 DEF Knows, Trusted
<1>10. CallsHold'
  BY <1>1, <1>5, <1>8, <1>9, CallsHoldAfter
<1> QED BY <1>7, <1>10, PartsAfter

LEMMA ReadMarkerHolds ==
  ASSUME IInv, NEW c \in Callers, ReadMarker(c)
  PROVE  IInv'
<1>1. UNCHANGED <<caches, provider, history>> /\ UNCHANGED history
  BY DEF ReadMarker
<1>2. MarkerHolds' /\ ProviderHolds' /\ CachesHold'
  BY <1>1, HistoryUnchanged, CachesUnchanged DEF caches, history
<1>3. call[c].kind # "renew"
  BY Known DEF ReadMarker, At, Knows, RenewalSteps
<1>4. CASE Go(c, "loadLocal")
  BY <1>1, <1>2, <1>3, <1>4, GoHolds, PartsAfter DEF Trusted, Steps
<1>5. CASE Answer(c, TRUE)
  BY <1>1, <1>2, <1>3, <1>5, AnswerHolds, PartsAfter, Zenon
<1> QED BY <1>4, <1>5, Zenon DEF ReadMarker

LEMMA LoadHolds ==
  ASSUME IInv, NEW c \in Callers, LoadLocal(c) \/ LoadShared(c)
  PROVE  IInv'
<1>1. UNCHANGED <<caches, provider, history>> /\ UNCHANGED history
  BY DEF LoadLocal, LoadShared
<1>2. MarkerHolds' /\ ProviderHolds' /\ CachesHold'
  BY <1>1, HistoryUnchanged, CachesUnchanged DEF caches, history
<1>3. call[c].kind # "renew"
  BY Known DEF LoadLocal, LoadShared, At, Knows, RenewalSteps
<1>4. ASSUME NEW entry \in Nat, Usable(entry), entry \in verified \cup {NoSession},
             Take(c, "try", entry)
      PROVE  CallsHold'
  <2>1. "try" \in Steps
    BY DEF Steps
  <2>2. PICK x \in Calls : /\ Become(c, x) /\ x.step = "try"
                           /\ x.kind = call[c].kind /\ x.session = entry
                           /\ x.ok = call[c].ok
    BY <1>4, <2>1, TakeMoves DEF IInv
  <2>3. verified' = verified /\ stored' = stored /\ checked' = checked
    BY <1>1 DEF history
  <2>4. Knows(x, verified', stored', checked')
    BY <1>3, <1>4, <2>2, <2>3 DEF Knows, Usable
  <2> QED BY <2>2, <2>3, <2>4, CallsHoldAfter
<1>5. /\ local[InstanceOf[c]] \in Nat /\ shared \in Nat
      /\ local[InstanceOf[c]] \in verified \cup {NoSession}
      /\ shared \in verified \cup {NoSession}
  BY CallType DEF IInv, TypeOK, CachedSessionIsVerified
<1>6. CASE Go(c, "loadShared") \/ Go(c, "login")
  BY <1>1, <1>2, <1>3, <1>6, GoHolds, PartsAfter DEF Trusted, Steps
<1>7. CASE Answer(c, FALSE)
  BY <1>1, <1>2, <1>7, AnswerHolds, PartsAfter, Zenon
<1>8. CASE LoadLocal(c)
  <2> DEFINE entry == local[InstanceOf[c]]
  <2>1. CASE Usable(entry) /\ Take(c, "try", entry)
    BY <1>2, <1>4, <1>5, <2>1, PartsAfter
  <2> QED BY <1>6, <1>8, <2>1, Zenon DEF LoadLocal
<1>9. CASE LoadShared(c)
  BY <1>2, <1>4, <1>5, <1>6, <1>7, <1>9, PartsAfter DEF LoadShared
<1> QED BY <1>8, <1>9

(* Reading an account with a restored session. *)
LEMMA TryHolds ==
  ASSUME IInv, NEW c \in Callers, TrySession(c) \/ DropSession(c)
  PROVE  IInv'
<1>1. call[c].kind # "renew"
  BY Known DEF TrySession, DropSession, At, Knows, RenewalSteps
<1>2. CASE TrySession(c)
  <2>1. call[c].session \in verified
    BY <1>2, Known DEF TrySession, At, Knows, Trusted
  <2>2. UNCHANGED <<caches, provider, stored, checked>> /\ verified' = verified
    BY <1>2, <2>1 DEF TrySession
  <2>3. UNCHANGED history
    BY <2>2 DEF history
  <2>4. MarkerHolds' /\ ProviderHolds' /\ CachesHold'
    BY <2>2, <2>3, HistoryUnchanged, CachesUnchanged DEF caches
  <2>5. CASE Answer(c, TRUE)
    BY <1>1, <2>2, <2>3, <2>4, <2>5, AnswerHolds, PartsAfter, Zenon
  <2>6. CASE Go(c, "saveLocal")
    BY <1>1, <2>1, <2>3, <2>4, <2>6, GoHolds, PartsAfter DEF Steps
  <2> QED BY <1>2, <2>4, <2>5, <2>6, PartsAfter DEF TrySession
<1>3. CASE DropSession(c)
  <2>1. UNCHANGED <<shared, marker, provider, history>> /\ UNCHANGED history
    BY <1>3 DEF DropSession
  <2>2. MarkerHolds' /\ ProviderHolds'
    BY <2>1, HistoryUnchanged
  <2>3. CachesHold'
    BY <1>3, <2>1, IdleType, FileWritten DEF DropSession, history
  <2>4. CASE Answer(c, FALSE)
    BY <2>1, <2>2, <2>3, <2>4, AnswerHolds, PartsAfter, Zenon
  <2>5. CASE Go(c, "login")
    BY <1>1, <2>1, <2>2, <2>3, <2>5, GoHolds, PartsAfter DEF Trusted, Steps
  <2> QED BY <1>3, <2>4, <2>5, Zenon DEF DropSession
<1> QED BY <1>2, <1>3

(* A login issues a session; only a connect's counts as verified at once. *)
LEMMA LoginHolds ==
  ASSUME IInv, NEW c \in Callers, Login(c) \/ LoginRefused(c)
  PROVE  IInv'
<1>1. CASE LoginRefused(c)
  <2>1. UNCHANGED <<caches, provider, history>> /\ UNCHANGED history
    BY <1>1 DEF LoginRefused
  <2>2. MarkerHolds' /\ ProviderHolds' /\ CachesHold'
    BY <2>1, HistoryUnchanged, CachesUnchanged DEF caches, history
  <2>3. Answer(c, FALSE)
    BY <1>1 DEF LoginRefused
  <2> QED BY <2>1, <2>2, <2>3, AnswerHolds, PartsAfter, Zenon
<1>2. CASE Login(c)
  <2> DEFINE new == issued + 1
  <2>1. /\ issued' = new /\ accepted' = accepted \cup {new}
        /\ UNCHANGED <<caches, settled, stored, checked>>
    BY <1>2 DEF Login
  <2>2. verified' = verified \/ verified' = verified \cup {new}
    BY <1>2 DEF Login
  <2>3. issued \in Nat /\ new \in Nat /\ 1..issued \subseteq 1..new /\ new \in 1..new
    BY DEF IInv, TypeOK
  <2>4. ProviderHolds'
    BY <2>1, <2>2, <2>3 DEF IInv, TypeOK, ProviderHolds
  <2>5. MarkerHolds'
    BY <2>1 DEF IInv, TypeOK, MarkerHolds, MarkerMeansChecked, caches
  <2>6. verified \subseteq verified' /\ stored \subseteq stored' /\ (checked => checked')
    BY <2>1, <2>2
  <2>7. CachesHold'
    BY <2>1, <2>6, CachesUnchanged DEF caches
  <2>8. new # NoSession /\ {"readAccount", "saveLocal", "answered"} \subseteq Steps
    BY <2>3 DEF NoSession, Steps
  <2> HIDE DEF new
  <2>9. CASE call[c].kind = "renew" /\ Take(c, "readAccount", new)
    <3>1. PICK x \in Calls : /\ Become(c, x) /\ x.step = "readAccount"
                             /\ x.kind = call[c].kind /\ x.session = new
                             /\ x.ok = call[c].ok
      BY <2>3, <2>8, <2>9, TakeMoves DEF IInv
    <3>2. Knows(x, verified', stored', checked')
      BY <2>9, <3>1 DEF Knows, Trusted, RenewalSteps
    <3>3. CallsHold'
      BY <2>6, <3>1, <3>2, CallsHoldAfter
    <3> QED BY <2>4, <2>5, <2>7, <3>3, PartsAfter
  <2>10. CASE call[c].kind # "renew" /\ verified' = verified \cup {new} /\ Take(c, "saveLocal", new)
    <3>1. PICK x \in Calls : /\ Become(c, x) /\ x.step = "saveLocal"
                             /\ x.kind = call[c].kind /\ x.session = new
                             /\ x.ok = call[c].ok
      BY <2>3, <2>8, <2>10, TakeMoves DEF IInv
    <3>2. Knows(x, verified', stored', checked')
      BY <2>10, <3>1 DEF Knows, Trusted
    <3>3. CallsHold'
      BY <2>6, <3>1, <3>2, CallsHoldAfter
    <3> QED BY <2>4, <2>5, <2>7, <3>3, PartsAfter
  <2>11. CASE Answer(c, FALSE) /\ UNCHANGED verified
    <3>1. UNCHANGED history
      BY <2>1, <2>11 DEF history
    <3>2. CallsHold'
      BY <2>11, <3>1, AnswerHolds, Zenon
    <3> QED BY <2>4, <2>5, <2>7, <3>2, PartsAfter
  <2> QED BY <1>2, <2>9, <2>10, <2>11, Zenon DEF Login, new
<1> QED BY <1>1, <1>2

(* The saves of a connect write what it has read an account with. *)
LEMMA SaveHolds ==
  ASSUME IInv, NEW c \in Callers, SaveLocal(c) \/ SaveShared(c)
  PROVE  IInv'
<1>1. UNCHANGED <<marker, provider, history>> /\ UNCHANGED history
  BY DEF SaveLocal, SaveShared
<1>2. MarkerHolds' /\ ProviderHolds' /\ UNCHANGED verified
  BY <1>1, HistoryUnchanged DEF history
<1>3. call[c].session \in verified /\ call[c].kind # "renew"
  BY Known DEF SaveLocal, SaveShared, At, Knows, Trusted, RenewalSteps
<1>4. CASE SaveLocal(c)
  <2>1. CachesHold'
    BY <1>1, <1>2, <1>3, <1>4, CallType, FileWritten DEF SaveLocal, IInv
  <2>2. Go(c, "saveShared") /\ "saveShared" \in Steps
    BY <1>4 DEF SaveLocal, Steps
  <2>3. CallsHold'
    BY <1>1, <1>3, <2>2, GoHolds DEF Trusted
  <2> QED BY <1>2, <2>1, <2>3, PartsAfter
<1>5. CASE SaveShared(c)
  <2>1. CachesHold'
    BY <1>1, <1>2, <1>3, <1>5, CallType, ObjectWritten DEF SaveShared, IInv
  <2>2. CASE call[c].kind = "check" /\ Go(c, "readAccount")
    <3>1. CallsHold'
      BY <1>1, <1>3, <2>2, GoHolds DEF Trusted, Steps
    <3> QED BY <1>2, <2>1, <3>1, PartsAfter
  <2>3. CASE Answer(c, TRUE)
    <3>1. CallsHold'
      BY <1>1, <1>3, <2>3, AnswerHolds, Zenon
    <3> QED BY <1>2, <2>1, <3>1, PartsAfter
  <2> QED BY <1>5, <2>2, <2>3, Zenon DEF SaveShared, Connected
<1> QED BY <1>4, <1>5

(* Reading the account verifies the session, and the period for a check. *)
LEMMA ReadAccountHolds ==
  ASSUME IInv, NEW c \in Callers, ReadAccount(c)
  PROVE  IInv'
<1>1. UNCHANGED <<caches, provider, stored>>
  BY DEF ReadAccount
<1>2. call[c].kind \in {"check", "renew"}
  BY Known DEF ReadAccount, At, Knows
<1>3. CASE /\ ReadSucceeds(call[c].session)
           /\ verified' = verified \cup {call[c].session}
           /\ Go(c, IF call[c].kind = "renew" THEN "saveVerified" ELSE "writeMarker")
           /\ checked' = (checked \/ call[c].kind = "check")
  <2> DEFINE s == IF call[c].kind = "renew" THEN "saveVerified" ELSE "writeMarker"
  <2>1. verified \subseteq verified' /\ stored' = stored /\ (checked => checked')
    BY <1>1, <1>3
  <2>2. ProviderHolds'
    BY <1>1, <1>3 DEF IInv, TypeOK, ProviderHolds, ReadSucceeds, provider
  <2>3. checked' \in BOOLEAN
    BY <1>3 DEF IInv, TypeOK
  <2>4. MarkerHolds'
    BY <1>1, <2>1, <2>3 DEF IInv, TypeOK, MarkerHolds, MarkerMeansChecked, caches
  <2>5. CachesHold'
    BY <1>1, <2>1, CachesUnchanged DEF caches
  <2>6. s \in Steps /\ (s = "saveVerified" <=> call[c].kind = "renew")
        /\ s \in {"saveVerified", "writeMarker"}
    BY DEF Steps
  <2> HIDE DEF s
  <2>7. Go(c, s)
    BY <1>3 DEF s
  <2>8. PICK x \in Calls : /\ Become(c, x) /\ x.step = s
                           /\ x.kind = call[c].kind /\ x.session = call[c].session
                           /\ x.ok = call[c].ok
    BY <2>6, <2>7, GoMoves DEF IInv
  <2>9. s = "writeMarker" => checked'
    BY <1>2, <1>3, <2>6
  <2>10. Knows(x, verified', stored', checked')
    BY <1>3, <2>6, <2>8, <2>9 DEF Knows, Trusted, RenewalSteps
  <2>11. CallsHold'
    BY <2>1, <2>8, <2>10, CallsHoldAfter
  <2> QED BY <2>2, <2>4, <2>5, <2>11, PartsAfter
<1>4. CASE Answer(c, FALSE) /\ UNCHANGED <<verified, checked>>
  <2>1. UNCHANGED history
    BY <1>1, <1>4 DEF history
  <2>2. MarkerHolds' /\ ProviderHolds' /\ CachesHold'
    BY <1>1, <2>1, HistoryUnchanged, CachesUnchanged DEF caches, history
  <2>3. CallsHold'
    BY <1>4, <2>1, AnswerHolds, Zenon
  <2> QED BY <2>2, <2>3, PartsAfter
<1> QED BY <1>3, <1>4, Zenon DEF ReadAccount

(* A renewal goes on only with an acknowledged shared write. *)
LEMMA SaveVerifiedHolds ==
  ASSUME IInv, NEW c \in Callers, SaveVerified(c)
  PROVE  IInv'
<1>1. UNCHANGED <<local, marker, provider, verified, checked>>
  BY DEF SaveVerified
<1>2. call[c].session \in verified /\ call[c].session \in 1..issued
  BY Known DEF SaveVerified, At, Knows, Trusted, IInv, TypeOK
<1>3. call[c].session \in Nat
  BY CallType DEF IInv
<1>4. shared' = call[c].session \/ UNCHANGED shared
  BY DEF SaveVerified
<1>5. CachesHold'
  BY <1>1, <1>2, <1>3, <1>4, ObjectWritten
<1>6. MarkerHolds'
  BY <1>1 DEF IInv, TypeOK, MarkerHolds, MarkerMeansChecked
<1>7. CASE stored' = stored \cup {call[c].session} /\ Go(c, "saveFile")
  <2>1. ProviderHolds'
    BY <1>1, <1>2, <1>7 DEF IInv, TypeOK, ProviderHolds, provider
  <2>2. "saveFile" \in Steps
    BY DEF Steps
  <2>3. PICK x \in Calls : /\ Become(c, x) /\ x.step = "saveFile"
                           /\ x.kind = call[c].kind /\ x.session = call[c].session
                           /\ x.ok = call[c].ok
    BY <1>7, <2>2, GoMoves DEF IInv
  <2>4. Knows(x, verified', stored', checked')
    BY <1>1, <1>2, <1>7, <2>3 DEF Knows, Trusted, RenewalSteps
  <2>5. CallsHold'
    BY <1>1, <1>7, <2>3, <2>4, CallsHoldAfter
  <2> QED BY <1>5, <1>6, <2>1, <2>5, PartsAfter
<1>8. CASE Answer(c, FALSE) /\ UNCHANGED stored
  <2>1. UNCHANGED history
    BY <1>1, <1>8 DEF history
  <2>2. ProviderHolds'
    BY <1>1, <2>1, HistoryUnchanged
  <2>3. CallsHold'
    BY <1>8, <2>1, AnswerHolds, Zenon
  <2> QED BY <1>5, <1>6, <2>2, <2>3, PartsAfter
<1> QED BY <1>7, <1>8, Zenon DEF SaveVerified

LEMMA SaveFileHolds ==
  ASSUME IInv, NEW c \in Callers, SaveFile(c)
  PROVE  IInv'
<1>1. UNCHANGED <<shared, marker, provider, history>> /\ UNCHANGED history
  BY DEF SaveFile
<1>2. /\ MarkerHolds' /\ ProviderHolds'
      /\ verified' = verified /\ stored' = stored /\ checked' = checked
  BY <1>1, HistoryUnchanged
<1>3. call[c].session \in verified \cap stored
  BY Known DEF SaveFile, At, Knows, Trusted
<1>4. CachesHold'
  BY <1>1, <1>2, <1>3, CallType, FileWritten DEF SaveFile, IInv
<1>5. Answer(c, TRUE) /\ TRUE \in BOOLEAN
  BY DEF SaveFile
<1>6. PICK x \in Calls : /\ Become(c, x) /\ x.step = "answered"
                         /\ x.kind = call[c].kind /\ x.session = call[c].session
                         /\ x.ok = TRUE
  BY <1>5, AnswerMoves, Zenon DEF IInv
<1>7. Knows(x, verified', stored', checked')
  BY <1>2, <1>3, <1>6 DEF Knows, Trusted, RenewalSteps
<1>8. CallsHold'
  BY <1>2, <1>6, <1>7, CallsHoldAfter
<1> QED BY <1>2, <1>4, <1>8, PartsAfter

LEMMA WriteMarkerHolds ==
  ASSUME IInv, NEW c \in Callers, WriteMarker(c)
  PROVE  IInv'
<1>1. UNCHANGED <<local, shared, provider, history>> /\ UNCHANGED history
  BY DEF WriteMarker
<1>2. checked /\ call[c].kind # "renew"
  BY Known DEF WriteMarker, At, Knows, RenewalSteps
<1>3. marker' = TRUE \/ marker' = marker
  BY DEF WriteMarker
<1>4. MarkerHolds'
  <2>1. checked' = checked /\ marker \in BOOLEAN /\ checked \in BOOLEAN
    BY <1>1 DEF IInv, TypeOK, history
  <2>2. marker' \in BOOLEAN /\ checked' \in BOOLEAN /\ checked'
    BY <1>2, <1>3, <2>1, Zenon
  <2> QED BY <2>2, Zenon DEF MarkerHolds, MarkerMeansChecked
<1>5. ProviderHolds'
  BY <1>1 DEF IInv, TypeOK, ProviderHolds, provider, history
<1>6. CachesHold'
  BY <1>1, CachesUnchanged DEF history
<1>7. Answer(c, TRUE)
  BY DEF WriteMarker
<1>8. CallsHold'
  BY <1>1, <1>2, <1>7, AnswerHolds, Zenon
<1> QED BY <1>4, <1>5, <1>6, <1>8, PartsAfter

(* A call that ends, and a process that is killed. *)
LEMMA EndHolds ==
  ASSUME IInv, NEW c \in Callers, Return(c) \/ Crash(c)
  PROVE  IInv'
<1>1. Become(c, IdleCall) /\ UNCHANGED <<caches, provider, history>> /\ UNCHANGED history
  BY DEF Return, Crash
<1>2. MarkerHolds' /\ ProviderHolds' /\ CachesHold'
  BY <1>1, HistoryUnchanged, CachesUnchanged DEF caches, history
<1>3. CallsHold'
  BY <1>1, IdleMoves DEF IInv, CallsHold
<1> QED BY <1>2, <1>3, PartsAfter

(* Steps of the provider and of time, and steps that change nothing. *)
LEMMA OutsideHolds ==
  ASSUME IInv,
         \/ \E session \in accepted : Revoke(session)
         \/ Settle
         \/ UNCHANGED vars
  PROVE  IInv'
<1>1. UNCHANGED <<local, shared, marker, call, verified, stored, checked>>
  BY DEF Revoke, Settle, vars, caches, history
<1>2. accepted' \subseteq accepted /\ issued' = issued /\ settled' \in BOOLEAN
  <2>1. issued \in Nat /\ settled \in BOOLEAN
    BY DEF IInv, TypeOK
  <2>2. CASE \E session \in accepted : Revoke(session)
    BY <2>1, <2>2 DEF Revoke
  <2>3. CASE Settle
    BY <2>1, <2>3 DEF Settle
  <2>4. CASE UNCHANGED vars
    BY <2>1, <2>4 DEF vars, provider
  <2> QED BY <2>2, <2>3, <2>4
<1>3. CallsHold' /\ MarkerHolds'
  BY <1>1 DEF IInv, TypeOK, CallsHold, CallsKnow, MarkerHolds, MarkerMeansChecked
<1>4. CachesHold'
  BY <1>1, CachesUnchanged
<1>5. ProviderHolds'
  BY <1>1, <1>2 DEF IInv, TypeOK, ProviderHolds
<1> QED BY <1>3, <1>4, <1>5, PartsAfter

LEMMA NextHolds == IInv /\ [Next]_vars => IInv'
<1> SUFFICES ASSUME IInv, [Next]_vars PROVE IInv'
  OBVIOUS
<1>1. ASSUME NEW c \in Callers, Proceed(c) PROVE IInv'
  BY <1>1, ReadMarkerHolds, LoadHolds, TryHolds, LoginHolds, SaveHolds, ReadAccountHolds,
     SaveVerifiedHolds, SaveFileHolds, WriteMarkerHolds, EndHolds, Zenon DEF Proceed
<1>2. ASSUME NEW c \in Callers, Crash(c) PROVE IInv'
  BY <1>2, EndHolds, Zenon
<1>3. ASSUME NEW c \in Callers, NEW kind \in Kinds[c], Begin(c, kind) PROVE IInv'
  BY <1>3, BeginHolds
<1> QED BY <1>1, <1>2, <1>3, OutsideHolds, Zenon DEF Next

-----------------------------------------------------------------------------
(* The inductive invariant holds in every behaviour: types, verified       *)
(* caches, what each call knows of its session, and the marker.            *)
THEOREM SessionInvariant == Spec => []IInv
<1>1. Init => IInv
  BY InitHolds
<1>2. IInv /\ [Next]_vars => IInv'
  BY NextHolds
<1> QED BY <1>1, <1>2, PTL DEF Spec

(* Files, object, calls and sessions have their types throughout: a call   *)
(* that tries a session has one (_is_valid_session_cache_payload).         *)
THEOREM TypeCorrect == Spec => []TypeOK
<1>1. IInv => TypeOK
  BY DEF IInv
<1> QED BY <1>1, SessionInvariant, PTL

(* No session enters a file or the shared object before an account was     *)
(* read with it (connect_read_only, _try_cached_session and the deferred   *)
(* save of run_forced_session_renewal), whatever fails and whoever races.  *)
THEOREM CachesAreVerified == Spec => [](TypeOK /\ CachedSessionIsVerified)
<1>1. IInv => TypeOK /\ CachedSessionIsVerified
  BY DEF IInv
<1> QED BY <1>1, SessionInvariant, PTL

(* A renewal that answers ok has verified its session and had it           *)
(* acknowledged by the shared store (save_verified_session_cache).         *)
THEOREM RenewalIsTrue == Spec => []RenewalAnswerIsTrue
BY PartsOfRenewalAnswer, SessionInvariant, PTL

(* The marker of run_session_check stands for a check that read the        *)
(* account.                                                                *)
THEOREM MarkerIsEarned == Spec => []MarkerMeansChecked
<1>1. IInv => MarkerMeansChecked
  BY DEF IInv
<1> QED BY <1>1, SessionInvariant, PTL
-----------------------------------------------------------------------------
(* Once trouble is over, the shared object and every call about to write   *)
(* it hold sessions the provider accepts.                                  *)
Writers == {"saveLocal", "saveShared", "saveVerified"}

Works(x, good) == x.step \in Writers => x.session \in good

SettledIsSound ==
  settled => shared \in accepted /\ \A c \in Callers : Works(call[c], accepted)

(* What an action of one call may do to what is written.                   *)
WritesSoundly(c) ==
  /\ settled' = settled /\ accepted \subseteq accepted'
  /\ shared' = shared \/ (shared' = call[c].session /\ call[c].step \in Writers)
  /\ Works(call'[c], accepted') \/ ~settled
  /\ \A d \in Callers \ {c} : call'[d] = call[d]

LEMMA BecomeFacts ==
  ASSUME TypeOK, NEW c \in Callers, NEW x, Become(c, x)
  PROVE  call'[c] = x /\ \A d \in Callers \ {c} : call'[d] = call[d]
BY DEF TypeOK, Become

(* A call that goes to a step where it writes nothing.                     *)
Silent(c) ==
  /\ \A d \in Callers \ {c} : call'[d] = call[d]
  /\ Works(call'[c], accepted')

LEMMA SilentMoves ==
  ASSUME TypeOK, NEW c \in Callers
  PROVE  /\ Go(c, "loadLocal") => Silent(c)
         /\ Go(c, "loadShared") => Silent(c)
         /\ Go(c, "login") => Silent(c)
         /\ Go(c, "readAccount") => Silent(c)
         /\ Go(c, "saveFile") => Silent(c)
         /\ \A n \in Nat : Take(c, "try", n) => Silent(c)
         /\ \A n \in Nat : Take(c, "readAccount", n) => Silent(c)
         /\ Answer(c, TRUE) => Silent(c)
         /\ Answer(c, FALSE) => Silent(c)
         /\ Become(c, IdleCall) => Silent(c)
<1>1. ASSUME NEW x, Become(c, x), x.step \notin Writers PROVE Silent(c)
  BY <1>1, BecomeFacts DEF Silent, Works
<1>2. ASSUME NEW s \in Steps, s \notin Writers, Go(c, s) PROVE Silent(c)
  <2>1. PICK x \in Calls : Become(c, x) /\ x.step = s
    BY <1>2, GoMoves
  <2> QED BY <1>1, <1>2, <2>1
<1>3. ASSUME NEW s \in Steps, s \notin Writers, NEW n \in Nat, Take(c, s, n) PROVE Silent(c)
  <2>1. PICK x \in Calls : Become(c, x) /\ x.step = s
    BY <1>3, TakeMoves
  <2> QED BY <1>1, <1>3, <2>1
<1>4. ASSUME NEW b \in BOOLEAN, Answer(c, b) PROVE Silent(c)
  <2>1. PICK x \in Calls : Become(c, x) /\ x.step = "answered"
    BY <1>4, AnswerMoves
  <2>2. x.step \notin Writers
    BY <2>1 DEF Writers
  <2> QED BY <1>1, <2>1, <2>2, Zenon
<1>5. /\ "loadLocal" \in Steps /\ "loadShared" \in Steps /\ "login" \in Steps
      /\ "readAccount" \in Steps /\ "saveFile" \in Steps /\ "try" \in Steps
      /\ "loadLocal" \notin Writers /\ "loadShared" \notin Writers /\ "login" \notin Writers
      /\ "readAccount" \notin Writers /\ "saveFile" \notin Writers /\ "try" \notin Writers
  BY DEF Steps, Writers
<1>6. IdleCall.step \notin Writers
  BY DEF IdleCall, Writers
<1>7. /\ Go(c, "loadLocal") => Silent(c)
      /\ Go(c, "loadShared") => Silent(c)
      /\ Go(c, "login") => Silent(c)
      /\ Go(c, "readAccount") => Silent(c)
      /\ Go(c, "saveFile") => Silent(c)
  BY <1>2, <1>5, Zenon
<1>8. /\ \A n \in Nat : Take(c, "try", n) => Silent(c)
      /\ \A n \in Nat : Take(c, "readAccount", n) => Silent(c)
  BY <1>3, <1>5, Zenon
<1>9. (Answer(c, TRUE) => Silent(c)) /\ (Answer(c, FALSE) => Silent(c))
  BY <1>4, Zenon
<1>10. Become(c, IdleCall) => Silent(c)
  BY <1>1, <1>6, Zenon
<1> QED BY <1>7, <1>8, <1>9, <1>10, Zenon

(* A call that goes on to write: with the session it has.                  *)
LEMMA Carries ==
  ASSUME TypeOK, NEW c \in Callers, NEW s \in Steps, Go(c, s)
  PROVE  /\ \A d \in Callers \ {c} : call'[d] = call[d]
         /\ call'[c].step = s /\ call'[c].session = call[c].session
<1>1. PICK x \in Calls : Become(c, x) /\ x.step = s /\ x.session = call[c].session
  BY GoMoves
<1> QED BY <1>1, BecomeFacts

LEMMA ProceedWrites ==
  ASSUME IInv, SettledIsSound, NEW c \in Callers,
         Proceed(c) \/ Crash(c) \/ \E kind \in Kinds[c] : Begin(c, kind)
  PROVE  WritesSoundly(c)
<1>0. TypeOK /\ call[c] \in Calls /\ call[c].session \in Nat /\ Writers \subseteq Steps
  BY CallType DEF IInv, Steps, Writers
<1>1. ASSUME Silent(c), settled' = settled, accepted \subseteq accepted',
             shared' = shared \/ (shared' = call[c].session /\ call[c].step \in Writers)
      PROVE  WritesSoundly(c)
  BY <1>1 DEF WritesSoundly, Silent
<1>2. CASE ReadMarker(c) \/ LoadLocal(c) \/ LoadShared(c)
  <2>1. settled' = settled /\ accepted \subseteq accepted' /\ shared' = shared
    BY <1>2 DEF ReadMarker, LoadLocal, LoadShared, caches, provider
  <2>2. local[InstanceOf[c]] \in Nat /\ shared \in Nat
    BY <1>0, CallType DEF TypeOK
  <2>3. \/ Go(c, "loadLocal") \/ Go(c, "loadShared") \/ Go(c, "login")
        \/ Answer(c, TRUE) \/ Answer(c, FALSE)
        \/ Take(c, "try", local[InstanceOf[c]]) \/ Take(c, "try", shared)
    BY <1>2, Zenon DEF ReadMarker, LoadLocal, LoadShared
  <2>4. Silent(c)
    BY <1>0, <2>2, <2>3, SilentMoves, Zenon
  <2> QED BY <1>1, <2>1, <2>4, Zenon
<1>3. CASE TrySession(c) /\ Go(c, "saveLocal")
  <2>1. /\ settled' = settled /\ accepted' = accepted /\ shared' = shared
        /\ call[c].session \in accepted
    BY <1>3 DEF TrySession, caches, provider, ReadSucceeds
  <2>2. /\ \A d \in Callers \ {c} : call'[d] = call[d]
        /\ call'[c].session = call[c].session
    BY <1>0, <1>3, Carries DEF Steps
  <2> QED BY <2>1, <2>2 DEF WritesSoundly, Works
<1>4. CASE TrySession(c) /\ ~Go(c, "saveLocal")
  <2>1. settled' = settled /\ accepted \subseteq accepted' /\ shared' = shared
    BY <1>4 DEF TrySession, caches, provider
  <2>2. Answer(c, TRUE)
    BY <1>4, Zenon DEF TrySession
  <2>3. Silent(c)
    BY <1>0, <2>2, SilentMoves, Zenon
  <2> QED BY <1>1, <2>1, <2>3, Zenon
<1>5. CASE DropSession(c)
  <2>1. settled' = settled /\ accepted \subseteq accepted' /\ shared' = shared
    BY <1>5 DEF DropSession, provider
  <2>2. Answer(c, FALSE) \/ Go(c, "login")
    BY <1>5, Zenon DEF DropSession
  <2>3. Silent(c)
    BY <1>0, <2>2, SilentMoves, Zenon
  <2> QED BY <1>1, <2>1, <2>3, Zenon
<1>6. CASE Login(c)
  <2>1. /\ settled' = settled /\ accepted \subseteq accepted' /\ shared' = shared
        /\ issued + 1 \in Nat /\ issued + 1 \in accepted'
    BY <1>0, <1>6 DEF Login, caches, TypeOK
  <2>2. CASE Take(c, "saveLocal", issued + 1)
    <3>1. PICK x \in Calls : Become(c, x) /\ x.step = "saveLocal" /\ x.session = issued + 1
      BY <1>0, <2>1, <2>2, TakeMoves DEF Steps
    <3>2. call'[c].session = issued + 1 /\ \A d \in Callers \ {c} : call'[d] = call[d]
      BY <1>0, <3>1, BecomeFacts
    <3> QED BY <2>1, <3>2 DEF WritesSoundly, Works
  <2>3. CASE Take(c, "readAccount", issued + 1) \/ Answer(c, FALSE)
    <3>1. Silent(c)
      BY <1>0, <2>1, <2>3, SilentMoves, Zenon
    <3> QED BY <1>1, <2>1, <3>1, Zenon
  <2> QED BY <1>6, <2>2, <2>3, Zenon DEF Login
<1>7. CASE LoginRefused(c)
  <2>1. settled' = settled /\ accepted \subseteq accepted' /\ shared' = shared /\ Answer(c, FALSE)
    BY <1>7 DEF LoginRefused, caches, provider
  <2>2. Silent(c)
    BY <1>0, <2>1, SilentMoves, Zenon
  <2> QED BY <1>1, <2>1, <2>2, Zenon
<1>8. CASE SaveLocal(c)
  <2>1. /\ settled' = settled /\ accepted' = accepted /\ shared' = shared
        /\ Go(c, "saveShared") /\ call[c].step = "saveLocal"
    BY <1>8 DEF SaveLocal, provider, At
  <2>2. settled => call[c].session \in accepted
    BY <2>1 DEF SettledIsSound, Works, Writers
  <2>3. /\ \A d \in Callers \ {c} : call'[d] = call[d]
        /\ call'[c].session = call[c].session
    BY <1>0, <2>1, Carries DEF Steps
  <2> QED BY <2>1, <2>2, <2>3 DEF WritesSoundly, Works
<1>9. CASE SaveShared(c)
  <2>1. /\ settled' = settled /\ accepted \subseteq accepted'
        /\ shared' = shared \/ (shared' = call[c].session /\ call[c].step \in Writers)
    BY <1>9 DEF SaveShared, provider, At, Writers
  <2>2. Answer(c, TRUE) \/ Go(c, "readAccount")
    BY <1>9, Zenon DEF SaveShared, Connected
  <2>3. Silent(c)
    BY <1>0, <2>2, SilentMoves, Zenon
  <2> QED BY <1>1, <2>1, <2>3, Zenon
<1>10. CASE ReadAccount(c)
  <2>1. settled' = settled /\ accepted' = accepted /\ shared' = shared
    BY <1>10 DEF ReadAccount, caches, provider
  <2>2. CASE Answer(c, FALSE)
    <3>1. Silent(c)
      BY <1>0, <2>2, SilentMoves, Zenon
    <3> QED BY <1>1, <2>1, <3>1, Zenon
  <2>3. CASE /\ ReadSucceeds(call[c].session)
             /\ Go(c, IF call[c].kind = "renew" THEN "saveVerified" ELSE "writeMarker")
    <3> DEFINE s == IF call[c].kind = "renew" THEN "saveVerified" ELSE "writeMarker"
    <3>1. s \in Steps
      BY DEF Steps
    <3>2. Go(c, s)
      BY <2>3
    <3> HIDE DEF s
    <3>3. /\ \A d \in Callers \ {c} : call'[d] = call[d]
          /\ call'[c].session = call[c].session
      BY <1>0, <3>1, <3>2, Carries
    <3> QED BY <2>1, <2>3, <3>3 DEF WritesSoundly, Works, ReadSucceeds
  <2> QED BY <1>10, <2>2, <2>3, Zenon DEF ReadAccount
<1>11. CASE SaveVerified(c)
  <2>1. /\ settled' = settled /\ accepted \subseteq accepted'
        /\ shared' = shared \/ (shared' = call[c].session /\ call[c].step \in Writers)
    BY <1>11 DEF SaveVerified, provider, At, Writers
  <2>2. Answer(c, FALSE) \/ Go(c, "saveFile")
    BY <1>11, Zenon DEF SaveVerified
  <2>3. Silent(c)
    BY <1>0, <2>2, SilentMoves, Zenon
  <2> QED BY <1>1, <2>1, <2>3, Zenon
<1>12. CASE SaveFile(c) \/ WriteMarker(c) \/ Return(c) \/ Crash(c)
  <2>1. settled' = settled /\ accepted \subseteq accepted' /\ shared' = shared
    BY <1>12 DEF SaveFile, WriteMarker, Return, Crash, caches, provider
  <2>2. Answer(c, TRUE) \/ Become(c, IdleCall)
    BY <1>12, Zenon DEF SaveFile, WriteMarker, Return, Crash
  <2>3. Silent(c)
    BY <1>0, <2>2, SilentMoves, Zenon
  <2> QED BY <1>1, <2>1, <2>3, Zenon
<1>13. ASSUME NEW kind \in Kinds[c], Begin(c, kind) PROVE WritesSoundly(c)
  <2>1. settled' = settled /\ accepted \subseteq accepted' /\ shared' = shared
    BY <1>13 DEF Begin, caches, provider
  <2> DEFINE s == CASE kind = "check"    -> "readMarker"
                    [] kind = "connect"  -> "loadLocal"
                    [] kind = "readOnly" -> IF Shared THEN "loadShared" ELSE "loadLocal"
                    [] kind = "renew"    -> IF Shared THEN "login" ELSE "answered"
             k == [IdleCall EXCEPT !.kind = kind]
             x == [k EXCEPT !.step = s]
  <2>2. Become(c, x)
    BY <1>13 DEF Begin
  <2>3. kind \in AllKinds
    BY <1>13 DEF SessionCacheAssumption
  <2>4. s \in Steps /\ s \notin Writers
    BY <2>3 DEF AllKinds, Steps, Writers
  <2> HIDE DEF s
  <2>5. k \in Calls
    BY <2>3, IdleType, OneField
  <2> HIDE DEF k
  <2>6. x.step = s
    BY <2>4, <2>5, OneField
  <2> HIDE DEF x
  <2>7. call'[c] = x /\ \A d \in Callers \ {c} : call'[d] = call[d]
    BY <1>0, <2>2, BecomeFacts
  <2> QED BY <2>1, <2>4, <2>6, <2>7 DEF WritesSoundly, Works
<1> QED BY <1>2, <1>3, <1>4, <1>5, <1>6, <1>7, <1>8, <1>9, <1>10, <1>11, <1>12, <1>13, Zenon
        DEF Proceed

LEMMA SettledNext ==
  ASSUME IInv, SettledIsSound, [Next]_vars
  PROVE  SettledIsSound'
<1>1. ASSUME NEW c \in Callers, WritesSoundly(c) PROVE SettledIsSound'
  <2> SUFFICES ASSUME settled'
               PROVE  shared' \in accepted' /\ \A d \in Callers : Works(call'[d], accepted')
    BY DEF SettledIsSound
  <2>1. /\ settled /\ accepted \subseteq accepted' /\ shared \in accepted
        /\ \A d \in Callers : Works(call[d], accepted)
    BY <1>1 DEF WritesSoundly, SettledIsSound
  <2>2. shared' \in accepted'
    BY <1>1, <2>1 DEF WritesSoundly, Works
  <2>3. \A d \in Callers : Works(call'[d], accepted')
    BY <1>1, <2>1 DEF WritesSoundly, Works
  <2> QED BY <2>2, <2>3
<1>2. CASE \E session \in accepted : Revoke(session)
  BY <1>2 DEF Revoke, SettledIsSound
<1>3. CASE Settle
  BY <1>3 DEF Settle, SettledIsSound, Works, Writers, At, caches
<1>4. CASE UNCHANGED vars
  BY <1>4 DEF vars, caches, provider, SettledIsSound, Works
<1> QED BY <1>1, <1>2, <1>3, <1>4, ProceedWrites, Zenon DEF Next

(* For any instances, callers and kinds of call: once the provider ends no *)
(* more sessions, no call replaces a working shared session by one it has  *)
(* rejected (_try_cached_session saves only what it could restore).        *)
THEOREM SharedKeepsWorking == Spec => []SharedStaysUsable
<1>1. Init => SettledIsSound
  BY DEF Init, SettledIsSound
<1>2. IInv /\ SettledIsSound /\ [Next]_vars => SettledIsSound'
  BY SettledNext
<1>3. IInv /\ SettledIsSound => SharedStaysUsable
  BY DEF IInv, TypeOK, SettledIsSound, SharedStaysUsable, Usable, NoSession
<1> QED BY <1>1, <1>2, <1>3, SessionInvariant, PTL DEF Spec
=============================================================================
