----------------------------- MODULE ApiKeys_proofs -----------------------------
(***************************************************************************)
(* Proofs about API keys and the limiter of bad ones, and about sign-ins,  *)
(* sign-ups and their throttles (SignIns), for any number of keys,         *)
(* accounts, addresses and simultaneous requests and for any limits.       *)
(***************************************************************************)
EXTENDS ApiKeys, SignIns, FiniteSetTheorems, TLAPS

RequestType == [phase : {"idle", "creating", "checked", "sending"},
                key : Keys \cup {NoKey}, from : Addresses \cup {NoAddress}]

RequestsOK ==
    /\ req \in [Requests -> RequestType]
    /\ \A r \in Requests : /\ req[r].phase = "sending" => req[r].key \in Keys
                           /\ req[r].phase = "checked" => req[r].from \in Addresses

NotesOK ==
    /\ seen \subseteq Keys /\ pending \subseteq Keys /\ due \subseteq Keys
    /\ queue \in Seq(Keys) /\ Len(queue) <= QueueDepth

KeysOK == status \in [Keys -> {"none", "live", "expired", "revoked"}]

GuessesOK ==
    /\ failures \in [Addresses -> [window : {"none", "running", "elapsed"}, count : 0..FailureCeiling]]
    /\ guesses \in [Addresses -> 0..FailureCeiling]

TypeParts == KeysOK /\ RequestsOK /\ NotesOK /\ GuessesOK

LEMMA TypeOKParts == TypeOK <=> TypeParts
  BY DEF TypeOK, TypeParts, KeysOK, RequestsOK, NotesOK, GuessesOK, RequestType, Failures!LimiterType

LEMMA CeilingType ==
  /\ FailureCeiling \in Nat /\ FailureCeiling >= 1
  /\ Cardinality(Requests) \in Nat /\ FailureCeiling = FailureLimit + Cardinality(Requests)
  BY FS_CardinalityType, KeyAssumption, CallerAssumption DEF FailureCeiling

(* What is counted against an address is what its running bucket holds.    *)
CountsAgree ==
    \A a \in Addresses :
        guesses[a] = IF failures[a].window = "running" THEN failures[a].count ELSE 0

CheckedFrom(a) == {r \in Requests : req[r].phase = "checked" /\ req[r].from = a}

(* Each request past the check may still add one.                          *)
RoomForChecked ==
    \A a \in Addresses :
        guesses[a] + Cardinality(CheckedFrom(a)) < FailureLimit + Cardinality(Requests)

KeyInv == TypeParts /\ CountsAgree /\ RoomForChecked /\ LiveKeysBounded

LEMMA SetsFinite ==
  /\ \A S \in SUBSET Requests : /\ IsFiniteSet(S) /\ Cardinality(S) \in Nat
                                /\ Cardinality(S) <= Cardinality(Requests)
  /\ \A S \in SUBSET Keys : IsFiniteSet(S) /\ Cardinality(S) \in Nat
  BY KeyAssumption, CallerAssumption, FS_Subset, FS_CardinalityType

LEMMA InitKeyInv == Init => KeyInv
<1> SUFFICES ASSUME Init PROVE KeyInv
  OBVIOUS
<1> USE KeyAssumption, CallerAssumption, CeilingType
<1>1. Idle \in RequestType /\ Idle.phase = "idle"
  BY DEF Idle, RequestType
<1>2. KeysOK /\ RequestsOK /\ NotesOK
  BY <1>1 DEF Init, KeysOK, RequestsOK, NotesOK
<1>3. /\ failures = [a \in Addresses |-> [window |-> "none", count |-> 0]]
      /\ guesses = [a \in Addresses |-> 0]
  BY DEF Init, Failures!LimiterInit, Failures!NoBucket
<1>4. GuessesOK
  BY <1>3 DEF GuessesOK
<1>5. CountsAgree
  BY <1>3 DEF CountsAgree
<1>6. Cardinality({}) = 0
  BY FS_EmptySet
<1>7. RoomForChecked
  <2>1. \A a \in Addresses : CheckedFrom(a) = {}
    BY <1>1 DEF Init, CheckedFrom
  <2>2. \A a \in Addresses : guesses[a] = 0 /\ Cardinality(CheckedFrom(a)) = 0
    BY <1>3, <1>6, <2>1
  <2>3. 0 + 0 < FailureLimit + Cardinality(Requests)
    BY CeilingType
  <2> QED
    BY <2>2, <2>3 DEF RoomForChecked
<1>8. LiveKeysBounded
  <2>1. Unrevoked = {} /\ Creating = {}
    BY <1>1 DEF Init, Unrevoked, Creating
  <2> QED
    BY <1>6, <2>1 DEF LiveKeysBounded
<1> QED
  BY <1>2, <1>4, <1>5, <1>7, <1>8 DEF KeyInv, TypeParts

-----------------------------------------------------------------------------
(* The bound on keys: what a step does to the rows and to those creating.  *)

LEMMA KeysNoMore ==
  ASSUME LiveKeysBounded, Unrevoked' \subseteq Unrevoked, Creating' \subseteq Creating
  PROVE  LiveKeysBounded'
<1>1. /\ Unrevoked \in SUBSET Keys /\ Creating \in SUBSET Requests
      /\ Unrevoked' \in SUBSET Keys /\ Creating' \in SUBSET Requests
  BY DEF Unrevoked, Creating
<1>2. /\ Cardinality(Unrevoked') <= Cardinality(Unrevoked)
      /\ Cardinality(Creating') <= Cardinality(Creating)
  BY <1>1, SetsFinite, FS_Subset
<1> QED
  BY <1>1, <1>2, SetsFinite, KeyAssumption, CallerAssumption, CeilingType DEF LiveKeysBounded

LEMMA CountKeysBound ==
  ASSUME KeyInv, NEW r \in Requests, CountKeys(r)
  PROVE  LiveKeysBounded'
<1>1. Unrevoked' = Unrevoked /\ Unrevoked = Counted
  BY DEF CountKeys, Unrevoked, Counted, KeyInv, TypeParts, KeysOK
<1>2. Cardinality(Counted) < MaxPer
  BY DEF CountKeys
<1>3. Creating' \in SUBSET Requests /\ Unrevoked \in SUBSET Keys
  BY DEF Creating, Unrevoked
<1> QED
  BY <1>1, <1>2, <1>3, SetsFinite, KeyAssumption, CallerAssumption, CeilingType DEF LiveKeysBounded

LEMMA CreateKeyBound ==
  ASSUME KeyInv, NEW r \in Requests, NEW k \in Keys, CreateKey(r, k)
  PROVE  LiveKeysBounded'
<1>1. Unrevoked' = Unrevoked \cup {k} /\ k \notin Unrevoked
  BY DEF CreateKey, Unrevoked, KeyInv, TypeParts, KeysOK
<1>2. Creating' = Creating \ {r} /\ r \in Creating
  BY DEF CreateKey, Done, Idle, Creating, KeyInv, TypeParts, RequestsOK
<1>3. Unrevoked \in SUBSET Keys /\ Creating \in SUBSET Requests
  BY DEF Creating, Unrevoked
<1>4. Cardinality(Unrevoked') = Cardinality(Unrevoked) + 1
  BY <1>1, <1>3, SetsFinite, FS_AddElement
<1>5. Cardinality(Creating') = Cardinality(Creating) - 1
  BY <1>2, <1>3, SetsFinite, FS_RemoveElement
<1> QED
  BY <1>3, <1>4, <1>5, SetsFinite, KeyAssumption, CallerAssumption, CeilingType DEF KeyInv, LiveKeysBounded

-----------------------------------------------------------------------------
(* The bound on guesses.                                                   *)

LEMMA CheckedNoMore ==
  ASSUME RoomForChecked, GuessesOK, GuessesOK', NEW a \in Addresses,
         guesses'[a] <= guesses[a], CheckedFrom(a)' \subseteq CheckedFrom(a)
  PROVE  guesses'[a] + Cardinality(CheckedFrom(a)') < FailureLimit + Cardinality(Requests)
<1>1. CheckedFrom(a) \in SUBSET Requests /\ CheckedFrom(a)' \in SUBSET Requests
  BY DEF CheckedFrom
<1>2. Cardinality(CheckedFrom(a)') <= Cardinality(CheckedFrom(a))
  BY <1>1, SetsFinite, FS_Subset
<1>3. guesses[a] \in Nat /\ guesses'[a] \in Nat
  BY CeilingType DEF GuessesOK
<1> QED
  BY <1>1, <1>2, <1>3, SetsFinite, CeilingType, KeyAssumption, CallerAssumption DEF RoomForChecked

LEMMA ArriveKeeps ==
  ASSUME KeyInv, NEW r \in Requests, NEW k \in Keys \cup {NoKey}, NEW a \in Addresses, Arrive(r, k, a)
  PROVE  TypeParts' /\ CountsAgree' /\ RoomForChecked' /\ Creating' = Creating
<1> USE KeyAssumption, CallerAssumption DEF KeyInv, TypeParts
<1> DEFINE x == [phase |-> "checked", key |-> k, from |-> a]
<1>1. /\ req[r].phase = "idle" /\ UNCHANGED <<status, failures, seen, queue, pending, due, guesses>>
      /\ IF Failures!Exceeded(a) THEN UNCHANGED req ELSE req' = [req EXCEPT ![r] = x]
  BY DEF Arrive, AfterCheck, noteVars
<1>2. x \in RequestType /\ x.phase = "checked" /\ x.from = a
  BY DEF RequestType
<1> HIDE DEF x
<1>3. RequestsOK' /\ Creating' = Creating
  BY <1>1, <1>2 DEF RequestsOK, Creating
<1>4. TypeParts' /\ CountsAgree'
  BY <1>1, <1>3 DEF KeysOK, NotesOK, GuessesOK, CountsAgree
<1>5. ASSUME NEW b \in Addresses
      PROVE  guesses'[b] + Cardinality(CheckedFrom(b)') < FailureLimit + Cardinality(Requests)
  <2>1. CASE Failures!Exceeded(a) \/ b # a
    <3>1. CheckedFrom(b)' \subseteq CheckedFrom(b)
      BY <1>1, <1>2, <2>1 DEF CheckedFrom, RequestsOK
    <3> QED
      BY <1>1, <1>4, <3>1, CheckedNoMore, CeilingType DEF GuessesOK
  <2>2. CASE ~Failures!Exceeded(a) /\ b = a
    <3>1. guesses[a] < FailureLimit /\ guesses[a] \in Nat
      BY <2>2, CeilingType DEF CountsAgree, GuessesOK, Failures!Exceeded
    <3>2. CheckedFrom(b)' \in SUBSET Requests
      BY DEF CheckedFrom
    <3> QED
      BY <1>1, <2>2, <3>1, <3>2, SetsFinite, CeilingType
  <2> QED
    BY <2>1, <2>2
<1> QED
  BY <1>3, <1>4, <1>5 DEF RoomForChecked

LEMMA DoneKeepsRequests ==
  ASSUME TypeParts, NEW r \in Requests, Done(r)
  PROVE  /\ RequestsOK'
         /\ \A q \in Requests : req'[q].phase # "idle" => q # r /\ req'[q] = req[q]
         /\ Creating' = Creating \ {r}
         /\ \A a \in Addresses : CheckedFrom(a)' = CheckedFrom(a) \ {r}
<1>1. Idle \in RequestType /\ Idle.phase = "idle"
  BY DEF Idle, RequestType
<1>2. \A q \in Requests : req'[q] = IF q = r THEN Idle ELSE req[q]
  BY DEF TypeParts, RequestsOK, Done
<1> QED
  BY <1>1, <1>2 DEF TypeParts, RequestsOK, Done, Creating, CheckedFrom

LEMMA RejectKeeps ==
  ASSUME KeyInv, NEW r \in Requests, Reject(r)
  PROVE  TypeParts' /\ CountsAgree' /\ RoomForChecked' /\ Creating' = Creating
<1> USE KeyAssumption, CallerAssumption DEF KeyInv, TypeParts
<1> DEFINE a == req[r].from
           n == IF failures[a].window # "running" THEN 1
                ELSE IF failures[a].count = FailureCeiling THEN FailureCeiling ELSE failures[a].count + 1
           x == [window |-> "running", count |-> n]
           g == IF Failures!Overflows(a) THEN 0
                ELSE IF guesses[a] = FailureCeiling THEN guesses[a] ELSE guesses[a] + 1
<1>1. /\ req[r].phase = "checked" /\ a \in Addresses /\ Done(r)
      /\ UNCHANGED <<status, seen, queue, pending, due>>
      /\ failures' = IF Failures!Overflows(a) THEN failures ELSE [failures EXCEPT ![a] = x]
      /\ guesses' = [guesses EXCEPT ![a] = g]
  BY DEF Reject, RequestsOK, noteVars, Failures!Recorded, Failures!NextCount
<1>2. failures[a] \in [window : {"none", "running", "elapsed"}, count : 0..FailureCeiling]
      /\ guesses[a] \in 0..FailureCeiling
  BY <1>1 DEF GuessesOK
<1>3. /\ n \in 1..FailureCeiling /\ n \in 0..FailureCeiling
      /\ g \in 0..FailureCeiling
  BY <1>2, CeilingType
<1>4. guesses[a] = IF failures[a].window = "running" THEN failures[a].count ELSE 0
  BY <1>1 DEF CountsAgree
<1>5. Failures!Overflows(a) => failures[a].window = "none"
  BY DEF Failures!Overflows
<1>6. g = (IF Failures!Overflows(a) THEN 0 ELSE n) /\ g <= guesses[a] + 1
  BY <1>2, <1>4, CeilingType
<1>7. x.window = "running" /\ x.count = n
      /\ x \in [window : {"none", "running", "elapsed"}, count : 0..FailureCeiling]
  BY <1>3
<1> HIDE DEF a, n, x, g
<1>8. GuessesOK'
  BY <1>1, <1>3, <1>7 DEF GuessesOK
<1>9. TypeParts' /\ Creating' = Creating
  BY <1>1, <1>8, DoneKeepsRequests DEF KeysOK, NotesOK, Creating
<1>10. /\ \A b \in Addresses : guesses'[b] = IF b = a THEN g ELSE guesses[b]
       /\ \A b \in Addresses : failures'[b] = IF b = a /\ ~Failures!Overflows(a) THEN x ELSE failures[b]
  BY <1>1 DEF GuessesOK
<1>11. CountsAgree'
  BY <1>4, <1>5, <1>6, <1>7, <1>10 DEF CountsAgree
<1>12. ASSUME NEW b \in Addresses
       PROVE  guesses'[b] + Cardinality(CheckedFrom(b)') < FailureLimit + Cardinality(Requests)
  <2>1. CheckedFrom(b)' = CheckedFrom(b) \ {r}
    BY <1>1, DoneKeepsRequests
  <2>2. CASE b # a
    <3>1. guesses'[b] = guesses[b] /\ guesses[b] \in 0..FailureCeiling
      BY <1>10, <2>2 DEF GuessesOK
    <3>2. guesses'[b] <= guesses[b]
      BY <3>1, CeilingType
    <3> QED
      BY <1>8, <2>1, <3>2, CheckedNoMore
  <2>3. CASE b = a
    <3>1. r \in CheckedFrom(a) /\ CheckedFrom(a) \in SUBSET Requests
      BY <1>1 DEF CheckedFrom, a
    <3>2. Cardinality(CheckedFrom(b)') = Cardinality(CheckedFrom(a)) - 1
      BY <2>1, <2>3, <3>1, SetsFinite, FS_RemoveElement
    <3>3. guesses[a] + Cardinality(CheckedFrom(a)) < FailureLimit + Cardinality(Requests)
      BY <1>1 DEF RoomForChecked
    <3> QED
      BY <1>2, <1>3, <1>6, <1>10, <2>3, <3>1, <3>2, <3>3, SetsFinite, CeilingType
  <2> QED
    BY <2>2, <2>3
<1> QED
  BY <1>9, <1>11, <1>12 DEF RoomForChecked

(* Steps that touch neither the limiter nor who is past the check.         *)
LEMMA LimiterAlone ==
  ASSUME KeyInv, UNCHANGED <<failures, guesses>>, \A a \in Addresses : CheckedFrom(a)' \subseteq CheckedFrom(a)
  PROVE  GuessesOK' /\ CountsAgree' /\ RoomForChecked'
<1>1. GuessesOK /\ GuessesOK' /\ CountsAgree'
  BY DEF KeyInv, TypeParts, GuessesOK, CountsAgree
<1>2. \A a \in Addresses : guesses'[a] <= guesses[a]
  BY <1>1, CeilingType DEF GuessesOK
<1> QED
  BY <1>1, <1>2, CheckedNoMore DEF KeyInv, RoomForChecked

LEMMA NextKeyInv == KeyInv /\ [Next]_vars => KeyInv'
<1> SUFFICES ASSUME KeyInv, [Next]_vars PROVE KeyInv'
  OBVIOUS
<1> USE KeyAssumption, CallerAssumption DEF KeyInv, TypeParts, noteVars
<1>1. ASSUME NEW r \in Requests, CountKeys(r)  PROVE KeyInv'
  <2>1. /\ req' = [req EXCEPT ![r].phase = "creating"] /\ req[r].phase = "idle"
        /\ UNCHANGED <<status, failures, noteVars, guesses>>
    BY <1>1 DEF CountKeys
  <2>2. RequestsOK' /\ \A a \in Addresses : CheckedFrom(a)' \subseteq CheckedFrom(a)
    BY <2>1 DEF RequestsOK, RequestType, CheckedFrom
  <2> QED
    BY <1>1, <2>1, <2>2, LimiterAlone, CountKeysBound DEF KeysOK, NotesOK
<1>2. ASSUME NEW r \in Requests, NEW k \in Keys, CreateKey(r, k)  PROVE KeyInv'
  <2>1. Done(r) /\ status' = [status EXCEPT ![k] = "live"] /\ UNCHANGED <<failures, noteVars, guesses>>
    BY <1>2 DEF CreateKey
  <2>2. KeysOK'
    BY <2>1 DEF KeysOK
  <2>3. RequestsOK' /\ \A a \in Addresses : CheckedFrom(a)' \subseteq CheckedFrom(a)
    BY <2>1, DoneKeepsRequests
  <2> QED
    BY <1>2, <2>1, <2>2, <2>3, LimiterAlone, CreateKeyBound DEF NotesOK
<1>3. ASSUME NEW k \in Keys, Revoke(k) \/ Expire(k)  PROVE KeyInv'
  <2>1. /\ UNCHANGED <<failures, noteVars, req, guesses>>
        /\ status' \in {[status EXCEPT ![k] = "revoked"], [status EXCEPT ![k] = "expired"]}
        /\ k \in Unrevoked
    BY <1>3 DEF Revoke, Expire, Counted, Unrevoked
  <2>2. KeysOK' /\ Unrevoked' \subseteq Unrevoked /\ Creating' = Creating
    BY <2>1 DEF KeysOK, Unrevoked, Creating
  <2>3. RequestsOK' /\ NotesOK' /\ \A a \in Addresses : CheckedFrom(a)' = CheckedFrom(a)
    BY <2>1 DEF RequestsOK, NotesOK, CheckedFrom
  <2> QED
    BY <2>1, <2>2, <2>3, LimiterAlone, KeysNoMore
<1>4. ASSUME NEW r \in Requests, NEW k \in Keys \cup {NoKey}, NEW a \in Addresses, Arrive(r, k, a)
      PROVE  KeyInv'
  <2>1. TypeParts' /\ CountsAgree' /\ RoomForChecked' /\ Creating' = Creating
    BY <1>4, ArriveKeeps
  <2>2. Unrevoked' = Unrevoked
    BY <1>4 DEF Arrive, Unrevoked
  <2> QED
    BY <2>1, <2>2, KeysNoMore
<1>5. ASSUME NEW r \in Requests, Reject(r)  PROVE KeyInv'
  <2>1. TypeParts' /\ CountsAgree' /\ RoomForChecked' /\ Creating' = Creating
    BY <1>5, RejectKeeps
  <2>2. Unrevoked' = Unrevoked
    BY <1>5 DEF Reject, Unrevoked
  <2> QED
    BY <2>1, <2>2, KeysNoMore
<1>6. ASSUME NEW r \in Requests, Accept(r)  PROVE KeyInv'
  <2> DEFINE k == req[r].key
             x == [phase |-> "sending", key |-> k, from |-> NoAddress]
  <2>1. /\ k \in Keys /\ UNCHANGED <<status, failures, queue, pending, guesses>>
        /\ \/ Done(r) /\ UNCHANGED <<seen, due>>
           \/ req' = [req EXCEPT ![r] = x] /\ seen' = seen \cup {k} /\ due' = due \cup {k}
        /\ req[r].phase = "checked"
    BY <1>6 DEF Accept, Valid
  <2>2. x \in RequestType /\ x.phase = "sending" /\ x.key = k
    BY <2>1 DEF RequestType
  <2> HIDE DEF x, k
  <2>3. NotesOK' /\ KeysOK'
    BY <2>1 DEF NotesOK, KeysOK
  <2>4. RequestsOK' /\ Creating' = Creating /\ \A a \in Addresses : CheckedFrom(a)' \subseteq CheckedFrom(a)
    <3>1. CASE Done(r)
      BY <2>1, <3>1, DoneKeepsRequests DEF Creating
    <3>2. CASE req' = [req EXCEPT ![r] = x]
      BY <2>1, <2>2, <3>2 DEF RequestsOK, Creating, CheckedFrom
    <3> QED
      BY <2>1, <3>1, <3>2
  <2>5. Unrevoked' = Unrevoked
    BY <2>1 DEF Unrevoked
  <2> QED
    BY <2>1, <2>3, <2>4, <2>5, LimiterAlone, KeysNoMore
<1>7. ASSUME NEW r \in Requests, Enqueue(r)  PROVE KeyInv'
  <2>1. /\ req[r].key \in Keys /\ Done(r) /\ UNCHANGED <<status, failures, seen, pending, guesses>>
        /\ \/ Len(queue) < QueueDepth /\ queue' = Append(queue, req[r].key) /\ UNCHANGED due
           \/ due' = due \ {req[r].key} /\ UNCHANGED queue
    BY <1>7 DEF Enqueue, HasRoom, RequestsOK
  <2>2. NotesOK' /\ KeysOK'
    BY <2>1 DEF NotesOK, KeysOK
  <2>3. Unrevoked' = Unrevoked
    BY <2>1 DEF Unrevoked
  <2> QED
    BY <2>1, <2>2, <2>3, DoneKeepsRequests, LimiterAlone, KeysNoMore
<1>8. ASSUME NEW r \in Requests, HangUp(r)  PROVE KeyInv'
  <2>1. Done(r) /\ UNCHANGED <<status, failures, noteVars, guesses>>
    BY <1>8 DEF HangUp
  <2>2. Unrevoked' = Unrevoked /\ NotesOK' /\ KeysOK'
    BY <2>1 DEF Unrevoked, NotesOK, KeysOK
  <2> QED
    BY <2>1, <2>2, DoneKeepsRequests, LimiterAlone, KeysNoMore
<1>9. ASSUME UNCHANGED <<status, req, failures, guesses>>, NotesOK'  PROVE KeyInv'
  <2>1. /\ KeysOK' /\ RequestsOK' /\ Unrevoked' = Unrevoked /\ Creating' = Creating
        /\ \A a \in Addresses : CheckedFrom(a)' = CheckedFrom(a)
    BY <1>9 DEF KeysOK, RequestsOK, Unrevoked, Creating, CheckedFrom
  <2> QED
    BY <1>9, <2>1, LimiterAlone, KeysNoMore
<1>10. ASSUME NEW k \in Keys, Forget(k)  PROVE KeyInv'
  BY <1>9, <1>10 DEF Forget, NotesOK
<1>11. CASE Drain
  <2>1. ToSet(queue) \subseteq Keys /\ << >> \in Seq(Keys) /\ Len(<< >>) = 0
    BY DEF ToSet, NotesOK
  <2> QED
    BY <1>9, <1>11, <2>1 DEF Drain, NotesOK
<1>12. CASE Flush
  BY <1>9, <1>12 DEF Flush, Touched, NotesOK
<1>13. CASE UNCHANGED vars
  BY <1>9, <1>13 DEF vars, NotesOK
<1>14. ASSUME UNCHANGED <<status, req, noteVars>>, GuessesOK', CountsAgree',
              \A a \in Addresses : guesses'[a] <= guesses[a]
       PROVE  KeyInv'
  <2>1. /\ KeysOK' /\ RequestsOK' /\ NotesOK' /\ Unrevoked' = Unrevoked /\ Creating' = Creating
        /\ \A a \in Addresses : CheckedFrom(a)' = CheckedFrom(a)
    BY <1>14 DEF KeysOK, RequestsOK, NotesOK, Unrevoked, Creating, CheckedFrom
  <2>2. RoomForChecked'
    BY <1>14, <2>1, CheckedNoMore DEF RoomForChecked
  <2> QED
    BY <1>14, <2>1, <2>2, KeysNoMore
<1>15. ASSUME NEW a \in Addresses, Elapse(a)  PROVE KeyInv'
  <2> DEFINE x == [window |-> "elapsed", count |-> 0]
  <2>1. /\ failures' = [failures EXCEPT ![a] = x] /\ guesses' = [guesses EXCEPT ![a] = 0]
        /\ UNCHANGED <<status, noteVars, req>>
    BY <1>15 DEF Elapse, Failures!Elapsed
  <2>2. /\ x \in [window : {"none", "running", "elapsed"}, count : 0..FailureCeiling]
        /\ x.window = "elapsed" /\ 0 \in 0..FailureCeiling
    BY CeilingType
  <2> HIDE DEF x
  <2>3. GuessesOK' /\ CountsAgree'
    BY <2>1, <2>2 DEF GuessesOK, CountsAgree
  <2>4. \A b \in Addresses : guesses'[b] <= guesses[b]
    BY <2>1, CeilingType DEF GuessesOK
  <2> QED
    BY <1>14, <2>1, <2>3, <2>4
<1>16. CASE Sweep
  <2> DEFINE x == [window |-> "none", count |-> 0]
  <2>1. /\ failures' = [a \in Addresses |-> IF failures[a].window = "elapsed" THEN x ELSE failures[a]]
        /\ UNCHANGED <<status, noteVars, req, guesses>>
    BY <1>16 DEF Sweep, Failures!Swept, Failures!NoBucket
  <2>2. /\ x \in [window : {"none", "running", "elapsed"}, count : 0..FailureCeiling]
        /\ x.window = "none"
    BY CeilingType
  <2> HIDE DEF x
  <2>3. GuessesOK' /\ CountsAgree'
    BY <2>1, <2>2 DEF GuessesOK, CountsAgree
  <2>4. \A b \in Addresses : guesses'[b] <= guesses[b]
    BY <2>1, CeilingType DEF GuessesOK
  <2> QED
    BY <1>14, <2>1, <2>3, <2>4
<1>17. CASE Restart
  <2> DEFINE x == [window |-> "none", count |-> 0]
  <2>1. /\ failures' = [a \in Addresses |-> x] /\ guesses' = [a \in Addresses |-> 0]
        /\ seen' = {} /\ queue' = << >> /\ pending' = {} /\ due' = {}
        /\ req' = [r \in Requests |-> Idle] /\ UNCHANGED status
    BY <1>17 DEF Restart, Failures!NoBucket
  <2>2. /\ x \in [window : {"none", "running", "elapsed"}, count : 0..FailureCeiling]
        /\ x.window = "none" /\ 0 \in 0..FailureCeiling
    BY CeilingType
  <2>3. Idle \in RequestType /\ Idle.phase = "idle"
    BY DEF Idle, RequestType
  <2> HIDE DEF x
  <2>4. GuessesOK' /\ CountsAgree'
    BY <2>1, <2>2 DEF GuessesOK, CountsAgree
  <2>5. KeysOK' /\ RequestsOK' /\ NotesOK'
    BY <2>1, <2>3 DEF KeysOK, RequestsOK, NotesOK
  <2>6. /\ \A a \in Addresses : CheckedFrom(a)' = {}
        /\ Creating' = {} /\ Unrevoked' = Unrevoked
    BY <2>1, <2>3 DEF CheckedFrom, Creating, Unrevoked
  <2>7. \A a \in Addresses : guesses'[a] <= guesses[a]
    BY <2>1, CeilingType DEF GuessesOK
  <2>8. RoomForChecked'
    BY <2>4, <2>6, <2>7, CheckedNoMore DEF RoomForChecked
  <2> QED
    BY <2>4, <2>5, <2>6, <2>8, KeysNoMore
<1> QED
  BY <1>1, <1>2, <1>3, <1>4, <1>5, <1>6, <1>7, <1>8, <1>10, <1>11, <1>12, <1>13, <1>15, <1>16, <1>17 DEF Next

THEOREM KeyInvariance == Spec => []KeyInv
<1> QED
  BY InitKeyInv, NextKeyInv, PTL DEF Spec

-----------------------------------------------------------------------------
(* Every reachable state is well typed: no count passes its ceiling, and   *)
(* the flusher's queue never holds more than it has room for.              *)
THEOREM Typing == Spec => []TypeOK
<1>1. KeyInv => TypeOK
  BY TypeOKParts DEF KeyInv
<1> QED
  BY <1>1, KeyInvariance, PTL

(* Create counts and then inserts: concurrent requests pass MaxPer by at   *)
(* most as many as they are, less one.                                     *)
THEOREM KeysStayBounded == Spec => []LiveKeysBounded
<1>1. KeyInv => LiveKeysBounded
  BY DEF KeyInv
<1> QED
  BY <1>1, KeyInvariance, PTL

(* Guard asks the limiter before it looks at the key and records after: an *)
(* address gets at most one bad key more past its limit for every other    *)
(* request that is already past the check.                                 *)
THEOREM GuessesStayBounded == Spec => []GuessesBounded
<1>1. KeyInv => GuessesBounded
  <2> SUFFICES ASSUME KeyInv, NEW a \in Addresses PROVE guesses[a] < FailureLimit + Cardinality(Requests)
    BY DEF GuessesBounded
  <2>1. CheckedFrom(a) \in SUBSET Requests /\ guesses[a] \in Nat
    BY CeilingType DEF KeyInv, TypeParts, GuessesOK, CheckedFrom
  <2> QED
    BY <2>1, SetsFinite, CeilingType, KeyAssumption, CallerAssumption DEF KeyInv, RoomForChecked
<1> QED
  BY <1>1, KeyInvariance, PTL

(* The limiter refuses an address only for bad keys from it in this        *)
(* window: what Allow recorded is what was refused.                        *)
THEOREM BlockedOnlyForGuesses == Spec => []BlockedMeansGuessed
<1>1. KeyInv => BlockedMeansGuessed
  BY DEF KeyInv, CountsAgree, BlockedMeansGuessed, Failures!Exceeded
<1> QED
  BY <1>1, KeyInvariance, PTL

-----------------------------------------------------------------------------
(* Sign-ins and sign-ups.                                                  *)

Bucket(ceiling) == [window : {"none", "running", "elapsed"}, count : 0..ceiling]

AttemptType == [phase : Phases, account : Accounts \cup {NoAccount},
                from : Addresses \cup {NoAddress}]

AttemptsOK ==
    /\ asking \in [Requests -> AttemptType]
    /\ \A r \in Requests : asking[r].phase # "idle" => asking[r].from \in Addresses

ThrottlesOK ==
    /\ byAccount \in [Accounts -> Bucket(AccountCeiling)]
    /\ wrong \in [Accounts -> 0..AccountCeiling]
    /\ byIP \in [Addresses -> Bucket(AddressCeiling)]
    /\ wrongFrom \in [Addresses -> 0..AddressCeiling]

SignupsOK ==
    /\ signups \in [Addresses -> Bucket(SignupCeiling)]
    /\ created \in [Addresses -> 0..SignupCeiling]

(* What is counted against a key is what its running bucket holds.         *)
Agree(keys, buckets, history) ==
    \A k \in keys :
       history[k] = IF buckets[k].window = "running" THEN buckets[k].count ELSE 0

ThrottlesAgree == Agree(Accounts, byAccount, wrong) /\ Agree(Addresses, byIP, wrongFrom)

(* Who may still be charged to an account or an address, or create an      *)
(* account.                                                                *)
Trying(a) == {r \in InPhase({"checking", "verifying"}) : asking[r].account = a}
Failing(i) == {r \in InPhase({"verifying", "charging"}) : asking[r].from = i}
Registering(i) == {r \in InPhase({"signingUp"}) : asking[r].from = i}

AccountHolds(a) == wrong[a] + Cardinality(Trying(a)) < LoginLimit + Cardinality(Requests)
AddressHolds(i) == wrongFrom[i] + Cardinality(Failing(i)) < AddressLimit + Cardinality(Requests)

(* Those an address let through in a window are counted in it, whether or  *)
(* not their accounts are there yet.                                       *)
SignupHolds(i) ==
    IF signups[i].window = "running"
    THEN /\ created[i] + Cardinality(Registering(i)) <= signups[i].count + Cardinality(Requests)
         /\ created[i] + Cardinality(Registering(i)) <= SignupLimit + Cardinality(Requests)
    ELSE created[i] = 0

AllHold ==
    /\ \A a \in Accounts : AccountHolds(a)
    /\ \A i \in Addresses : AddressHolds(i) /\ SignupHolds(i)

SignInInv == AttemptsOK /\ ThrottlesOK /\ SignupsOK /\ ThrottlesAgree /\ AllHold

LEMMA LimitsType ==
  /\ AddressLimit \in Nat \ {0}
  /\ AccountCeiling \in Nat \ {0} /\ AccountCeiling = LoginLimit + Cardinality(Requests)
  /\ AddressCeiling \in Nat \ {0} /\ AddressCeiling = AddressLimit + Cardinality(Requests)
  /\ SignupCeiling \in Nat \ {0} /\ SignupCeiling = SignupLimit + Cardinality(Requests)
<1>1. Cardinality(Requests) \in Nat
  BY FS_CardinalityType, CallerAssumption
<1>2. AddressLimit \in Nat \ {0}
  BY SignInAssumption DEF AddressLimit
<1> QED
  BY <1>1, <1>2, SignInAssumption DEF AccountCeiling, AddressCeiling, SignupCeiling

LEMMA SignInTypeParts == SignInType <=> AttemptsOK /\ ThrottlesOK /\ SignupsOK
  BY DEF SignInType, AttemptsOK, AttemptType, ThrottlesOK, SignupsOK, Bucket,
     ByAccount!LimiterType, ByIP!LimiterType, Signups!LimiterType

LEMMA AskersFinite ==
  \A S \in SUBSET Requests :
     IsFiniteSet(S) /\ Cardinality(S) \in Nat /\ Cardinality(S) <= Cardinality(Requests)
  BY CallerAssumption, FS_Subset, FS_CardinalityType

LEMMA AskersAreRequests ==
  /\ \A a : Trying(a) \in SUBSET Requests /\ Trying(a)' \in SUBSET Requests
  /\ \A i : /\ Failing(i) \in SUBSET Requests /\ Failing(i)' \in SUBSET Requests
            /\ Registering(i) \in SUBSET Requests /\ Registering(i)' \in SUBSET Requests
  BY DEF Trying, Failing, Registering, InPhase

-----------------------------------------------------------------------------
(* Counting what has been charged, and who may still be.                   *)

(* No more is charged, and no one else may be.                             *)
LEMMA RoomKept ==
  ASSUME NEW S \in SUBSET Requests, NEW T \in SUBSET Requests, T \subseteq S,
         NEW n \in Nat, NEW m \in Nat, m <= n, NEW b \in Nat, n + Cardinality(S) < b
  PROVE  m + Cardinality(T) < b
<1>1. Cardinality(T) <= Cardinality(S)
  BY AskersFinite, FS_Subset
<1> QED
  BY <1>1, AskersFinite

(* One that might be charged has been.                                     *)
LEMMA RoomUsed ==
  ASSUME NEW S \in SUBSET Requests, NEW r \in S, NEW T \in SUBSET Requests, T \subseteq S \ {r},
         NEW n \in Nat, NEW m \in Nat, m <= n + 1, NEW b \in Nat, n + Cardinality(S) < b
  PROVE  m + Cardinality(T) < b
<1>1. Cardinality(S \ {r}) = Cardinality(S) - 1
  BY AskersFinite, FS_RemoveElement
<1>2. Cardinality(T) <= Cardinality(S \ {r}) /\ S \ {r} \in SUBSET Requests
  BY AskersFinite, FS_Subset
<1> QED
  BY <1>1, <1>2, AskersFinite

(* Whoever is let through finds less charged than the limit.               *)
LEMMA RoomLeft ==
  ASSUME NEW T \in SUBSET Requests, NEW n \in Nat, NEW limit \in Nat, n < limit
  PROVE  n + Cardinality(T) < limit + Cardinality(Requests)
  BY AskersFinite, FS_CardinalityType, CallerAssumption

(* Recorded, and the history beside it.                                    *)
Charged(b, k, over, ceiling) ==
    IF over THEN b
    ELSE [b EXCEPT ![k] =
            [window |-> "running",
             count |-> IF b[k].window # "running" THEN 1
                       ELSE IF b[k].count = ceiling THEN ceiling ELSE b[k].count + 1]]

Counts(keys, ceiling, b, h) ==
    b \in [keys -> Bucket(ceiling)] /\ h \in [keys -> 0..ceiling] /\ Agree(keys, b, h)

LEMMA ChargeAgrees ==
  ASSUME NEW keys, NEW ceiling \in Nat \ {0}, NEW b, NEW h, Counts(keys, ceiling, b, h),
         NEW k \in keys, NEW over \in BOOLEAN, over => b[k].window = "none"
  PROVE  LET c == Charged(b, k, over, ceiling)
             d == OneMore(h, k, over, ceiling)
         IN /\ Counts(keys, ceiling, c, d)
            /\ d[k] <= h[k] + 1 /\ \A j \in keys \ {k} : d[j] = h[j]
<1> DEFINE c == Charged(b, k, over, ceiling)
           d == OneMore(h, k, over, ceiling)
<1> USE DEF Counts
<1>1. h[k] \in 0..ceiling /\ b[k] \in Bucket(ceiling)
  OBVIOUS
<1>2. h[k] = IF b[k].window = "running" THEN b[k].count ELSE 0
  BY DEF Agree
<1>3. CASE over
  <2>1. c = b /\ h[k] = 0 /\ d = [h EXCEPT ![k] = 0]
    BY <1>2, <1>3 DEF OneMore, Charged
  <2>2. d = h
    BY <2>1
  <2>3. h[k] <= h[k] + 1
    BY <1>1
  <2> QED
    BY <2>1, <2>2, <2>3
<1>4. CASE ~over
  <2> DEFINE n == IF h[k] = ceiling THEN ceiling ELSE h[k] + 1
  <2>1. n \in 0..ceiling /\ n <= h[k] + 1
    BY <1>1
  <2>2. n = IF b[k].window # "running" THEN 1
            ELSE IF b[k].count = ceiling THEN ceiling ELSE b[k].count + 1
    BY <1>1, <1>2
  <2>3. c = [b EXCEPT ![k] = [window |-> "running", count |-> n]]
    BY <1>4, <2>2 DEF Charged
  <2>4. d = [h EXCEPT ![k] = n]
    BY <1>4 DEF OneMore
  <2> HIDE DEF n
  <2>5. [window |-> "running", count |-> n] \in Bucket(ceiling)
    BY <2>1 DEF Bucket
  <2> QED
    BY <2>1, <2>3, <2>4, <2>5 DEF Agree
<1> QED
  BY <1>3, <1>4

-----------------------------------------------------------------------------
LEMMA NoAttemptOK == NoAttempt \in AttemptType /\ NoAttempt.phase = "idle"
  BY DEF NoAttempt, AttemptType, Phases

(* Where everything starts, and starts again.                              *)
Fresh ==
    /\ byAccount = [a \in Accounts |-> [window |-> "none", count |-> 0]]
    /\ byIP = [i \in Addresses |-> [window |-> "none", count |-> 0]]
    /\ signups = [i \in Addresses |-> [window |-> "none", count |-> 0]]
    /\ asking = [r \in Requests |-> NoAttempt]
    /\ wrong = [a \in Accounts |-> 0]
    /\ wrongFrom = [i \in Addresses |-> 0]
    /\ created = [i \in Addresses |-> 0]

LEMMA FreshSignInInv == Fresh => SignInInv
<1> SUFFICES ASSUME Fresh PROVE SignInInv
  OBVIOUS
<1> USE DEF Fresh
<1>1. AttemptsOK
  BY NoAttemptOK DEF AttemptsOK
<1>2. [window |-> "none", count |-> 0] \in Bucket(AccountCeiling)
      /\ [window |-> "none", count |-> 0] \in Bucket(AddressCeiling)
      /\ [window |-> "none", count |-> 0] \in Bucket(SignupCeiling)
      /\ 0 \in 0..AccountCeiling /\ 0 \in 0..AddressCeiling /\ 0 \in 0..SignupCeiling
  BY LimitsType DEF Bucket
<1>3. ThrottlesOK /\ SignupsOK
  BY <1>2 DEF ThrottlesOK, SignupsOK
<1>4. ThrottlesAgree
  BY DEF ThrottlesAgree, Agree
<1>5. (\A a : Trying(a) = {}) /\ (\A i : Failing(i) = {})
  BY NoAttemptOK DEF Trying, Failing, InPhase
<1>6. Cardinality({}) = 0 /\ Cardinality(Requests) \in Nat
  BY FS_EmptySet, FS_CardinalityType, CallerAssumption
<1>7. 0 + 0 < LoginLimit + Cardinality(Requests) /\ 0 + 0 < AddressLimit + Cardinality(Requests)
  BY <1>6, LimitsType, SignInAssumption
<1>8. \A a \in Accounts : AccountHolds(a)
  BY <1>5, <1>6, <1>7 DEF AccountHolds
<1>9. \A i \in Addresses : AddressHolds(i) /\ SignupHolds(i)
  BY <1>5, <1>6, <1>7 DEF AddressHolds, SignupHolds
<1> QED
  BY <1>1, <1>3, <1>4, <1>8, <1>9 DEF SignInInv, AllHold

LEMMA InitSignInInv == SignInInit => SignInInv
<1>1. SignInInit => Fresh
  BY DEF SignInInit, Fresh, ByAccount!LimiterInit, ByIP!LimiterInit, Signups!LimiterInit,
     ByAccount!NoBucket, ByIP!NoBucket, Signups!NoBucket
<1> QED
  BY <1>1, FreshSignInInv

(* Where a request stands after its step, and what that does to those that *)
(* may be charged.                                                         *)
Stands(r, p, b, j) == asking' = [asking EXCEPT ![r] = [phase |-> p, account |-> b, from |-> j]]

LEMMA AttemptMoves ==
  ASSUME AttemptsOK, NEW r \in Requests,
         NEW p \in Phases, NEW b \in Accounts \cup {NoAccount}, NEW j \in Addresses,
         Stands(r, p, b, j)
  PROVE  /\ AttemptsOK'
         /\ \A a \in Accounts : Trying(a)' =
               IF p \in {"checking", "verifying"} /\ b = a
               THEN Trying(a) \cup {r} ELSE Trying(a) \ {r}
         /\ \A i \in Addresses : Failing(i)' =
               IF p \in {"verifying", "charging"} /\ j = i
               THEN Failing(i) \cup {r} ELSE Failing(i) \ {r}
         /\ \A i \in Addresses : Registering(i)' =
               IF p = "signingUp" /\ j = i
               THEN Registering(i) \cup {r} ELSE Registering(i) \ {r}
<1> DEFINE x == [phase |-> p, account |-> b, from |-> j]
<1>1. x \in AttemptType /\ x.phase = p /\ x.account = b /\ x.from = j
  BY DEF AttemptType
<1> HIDE DEF x
<1>2. \A q \in Requests : asking'[q] = IF q = r THEN x ELSE asking[q]
  BY DEF AttemptsOK, Stands, x
<1>3. asking' \in [Requests -> AttemptType]
  BY <1>1 DEF AttemptsOK, Stands, x
<1>4. AttemptsOK'
  BY <1>1, <1>2, <1>3 DEF AttemptsOK
<1> QED
  BY <1>1, <1>2, <1>4 DEF Trying, Failing, Registering, InPhase

LEMMA AccountKept ==
  ASSUME ThrottlesOK, ThrottlesOK', NEW a \in Accounts, AccountHolds(a),
         wrong'[a] <= wrong[a], Trying(a)' \subseteq Trying(a)
  PROVE  AccountHolds(a)'
<1>1. wrong[a] \in Nat /\ wrong'[a] \in Nat /\ LoginLimit + Cardinality(Requests) \in Nat
  BY LimitsType DEF ThrottlesOK
<1>2. wrong'[a] + Cardinality(Trying(a)') < LoginLimit + Cardinality(Requests)
  BY <1>1, AskersAreRequests, RoomKept DEF AccountHolds
<1> QED
  BY <1>2 DEF AccountHolds

LEMMA AddressKept ==
  ASSUME ThrottlesOK, ThrottlesOK', NEW i \in Addresses, AddressHolds(i),
         wrongFrom'[i] <= wrongFrom[i], Failing(i)' \subseteq Failing(i)
  PROVE  AddressHolds(i)'
<1>1. wrongFrom[i] \in Nat /\ wrongFrom'[i] \in Nat /\ AddressLimit + Cardinality(Requests) \in Nat
  BY LimitsType DEF ThrottlesOK
<1>2. wrongFrom'[i] + Cardinality(Failing(i)') < AddressLimit + Cardinality(Requests)
  BY <1>1, AskersAreRequests, RoomKept DEF AddressHolds
<1> QED
  BY <1>2 DEF AddressHolds

LEMMA SignupKept ==
  ASSUME SignupsOK, NEW i \in Addresses, SignupHolds(i),
         signups'[i] = signups[i], created'[i] = created[i], Registering(i)' \subseteq Registering(i)
  PROVE  SignupHolds(i)'
<1>1. CASE signups[i].window = "running"
  <2>1. created[i] \in Nat /\ signups[i].count \in Nat /\ SignupLimit \in Nat
        /\ Cardinality(Requests) \in Nat
    BY LimitsType, AskersFinite, SignInAssumption DEF SignupsOK, Bucket
  <2>2. Cardinality(Registering(i)') <= Cardinality(Registering(i))
        /\ Cardinality(Registering(i)') \in Nat /\ Cardinality(Registering(i)) \in Nat
    BY AskersAreRequests, AskersFinite, FS_Subset
  <2> QED
    BY <1>1, <2>1, <2>2 DEF SignupHolds
<1>2. CASE signups[i].window # "running"
  BY <1>2 DEF SignupHolds
<1> QED
  BY <1>1, <1>2

(* Less has been charged to what is open than its limit.                   *)
LEMMA OpenMeansRoom ==
  ASSUME ThrottlesOK, ThrottlesAgree
  PROVE  /\ \A a \in Accounts : wrong[a] \in Nat /\ (~ByAccount!Exceeded(a) <=> wrong[a] < LoginLimit)
         /\ \A i \in Addresses : wrongFrom[i] \in Nat /\ (~ByIP!Exceeded(i) <=> wrongFrom[i] < AddressLimit)
<1>1. ASSUME NEW a \in Accounts
      PROVE  wrong[a] \in Nat /\ (~ByAccount!Exceeded(a) <=> wrong[a] < LoginLimit)
  <2>1. /\ wrong[a] = IF byAccount[a].window = "running" THEN byAccount[a].count ELSE 0
        /\ wrong[a] \in Nat /\ byAccount[a].count \in Nat
    BY LimitsType DEF ThrottlesOK, ThrottlesAgree, Agree, Bucket
  <2> QED
    BY <2>1, SignInAssumption DEF ByAccount!Exceeded
<1>2. ASSUME NEW i \in Addresses
      PROVE  wrongFrom[i] \in Nat /\ (~ByIP!Exceeded(i) <=> wrongFrom[i] < AddressLimit)
  <2>1. /\ wrongFrom[i] = IF byIP[i].window = "running" THEN byIP[i].count ELSE 0
        /\ wrongFrom[i] \in Nat /\ byIP[i].count \in Nat
    BY LimitsType DEF ThrottlesOK, ThrottlesAgree, Agree, Bucket
  <2> QED
    BY <2>1, LimitsType DEF ByIP!Exceeded
<1> QED
  BY <1>1, <1>2

-----------------------------------------------------------------------------
(* Signing in.                                                             *)

LEMMA LogInKeeps ==
  ASSUME SignInInv, NEW r \in Requests, NEW a \in Accounts, NEW i \in Addresses, LogIn(r, a, i)
  PROVE  SignInInv'
<1> USE DEF SignInInv
<1>1. /\ ~ByAccount!Exceeded(a)
      /\ Stands(r, "checking", a, i)
      /\ UNCHANGED <<byAccount, byIP, signups, wrong, wrongFrom, created>>
  BY DEF Stands, LogIn, AccountOpen, throttleVars, historyVars
<1>2. "checking" \in Phases
  BY DEF Phases
<1>3. /\ AttemptsOK'
      /\ \A b \in Accounts \ {a} : Trying(b)' \subseteq Trying(b)
      /\ \A j \in Addresses : Failing(j)' \subseteq Failing(j) /\ Registering(j)' \subseteq Registering(j)
  BY <1>1, <1>2, AttemptMoves
<1>4. ThrottlesOK' /\ SignupsOK' /\ ThrottlesAgree'
  BY <1>1 DEF ThrottlesOK, SignupsOK, ThrottlesAgree
<1>5. ASSUME NEW b \in Accounts PROVE AccountHolds(b)'
  <2>1. CASE b # a
    <3>1. wrong'[b] <= wrong[b]
      BY <1>1, OpenMeansRoom
    <3> QED
      BY <1>3, <1>4, <2>1, <3>1, AccountKept DEF AllHold
  <2>2. CASE b = a
    <3>1. wrong'[b] \in Nat /\ wrong'[b] < LoginLimit
      BY <1>1, <2>2, OpenMeansRoom
    <3>2. wrong'[b] + Cardinality(Trying(b)') < LoginLimit + Cardinality(Requests)
      BY <3>1, RoomLeft, AskersAreRequests, SignInAssumption
    <3> QED
      BY <3>2 DEF AccountHolds
  <2> QED
    BY <2>1, <2>2
<1>6. ASSUME NEW j \in Addresses PROVE AddressHolds(j)' /\ SignupHolds(j)'
  <2>1. wrongFrom'[j] <= wrongFrom[j]
    BY <1>1, OpenMeansRoom
  <2> QED
    BY <1>1, <1>3, <1>4, <2>1, AddressKept, SignupKept DEF AllHold
<1> QED
  BY <1>3, <1>4, <1>5, <1>6 DEF AllHold

(* A step that charges nothing and lets no one past a check.               *)
LEMMA NothingCharged ==
  ASSUME SignInInv, AttemptsOK',
         UNCHANGED <<byAccount, byIP, signups, wrong, wrongFrom, created>>,
         \A a \in Accounts : Trying(a)' \subseteq Trying(a),
         \A i \in Addresses : Failing(i)' \subseteq Failing(i) /\ Registering(i)' \subseteq Registering(i)
  PROVE  SignInInv'
<1> USE DEF SignInInv
<1>1. ThrottlesOK' /\ SignupsOK' /\ ThrottlesAgree'
  BY DEF ThrottlesOK, SignupsOK, ThrottlesAgree
<1>2. /\ \A a \in Accounts : wrong'[a] <= wrong[a]
      /\ \A i \in Addresses : wrongFrom'[i] <= wrongFrom[i]
  BY OpenMeansRoom
<1> QED
  BY <1>1, <1>2, AccountKept, AddressKept, SignupKept DEF AllHold

LEMMA EndedMoves ==
  ASSUME AttemptsOK, NEW r \in Requests, Ended(r)
  PROVE  /\ AttemptsOK'
         /\ \A a \in Accounts : Trying(a)' = Trying(a) \ {r}
         /\ \A i \in Addresses : Failing(i)' = Failing(i) \ {r} /\ Registering(i)' = Registering(i) \ {r}
<1>1. \A q \in Requests : asking'[q] = IF q = r THEN NoAttempt ELSE asking[q]
  BY DEF Ended, AttemptsOK
<1>2. AttemptsOK'
  BY <1>1, NoAttemptOK DEF Ended, AttemptsOK
<1> QED
  BY <1>1, <1>2, NoAttemptOK DEF Trying, Failing, Registering, InPhase

(* A request changes its phase and keeps its account and address.          *)
LEMMA BecomesMoves ==
  ASSUME AttemptsOK, NEW r \in Requests, asking[r].phase # "idle", NEW p \in Phases, Becomes(r, p)
  PROVE  /\ AttemptsOK'
         /\ \A a \in Accounts : Trying(a)' =
               IF p \in {"checking", "verifying"} /\ asking[r].account = a
               THEN Trying(a) \cup {r} ELSE Trying(a) \ {r}
         /\ \A i \in Addresses : Failing(i)' =
               IF p \in {"verifying", "charging"} /\ asking[r].from = i
               THEN Failing(i) \cup {r} ELSE Failing(i) \ {r}
         /\ \A i \in Addresses : Registering(i)' =
               IF p = "signingUp" /\ asking[r].from = i
               THEN Registering(i) \cup {r} ELSE Registering(i) \ {r}
<1>1. asking[r] \in AttemptType /\ asking[r].from \in Addresses
  BY DEF AttemptsOK
<1>2. [asking[r] EXCEPT !.phase = p] =
         [phase |-> p, account |-> asking[r].account, from |-> asking[r].from]
  BY <1>1 DEF AttemptType
<1>3. Stands(r, p, asking[r].account, asking[r].from)
  BY <1>2 DEF Becomes, Stands
<1>4. asking[r].account \in Accounts \cup {NoAccount}
  BY <1>1 DEF AttemptType
<1> QED
  BY <1>1, <1>3, <1>4, AttemptMoves

LEMMA EnterCodeKeeps ==
  ASSUME SignInInv, NEW r \in Requests, NEW i \in Addresses, EnterCode(r, i)
  PROVE  SignInInv'
<1>1. /\ Stands(r, "checking", NoAccount, i)
      /\ UNCHANGED <<byAccount, byIP, signups, wrong, wrongFrom, created>>
  BY DEF Stands, EnterCode, throttleVars, historyVars
<1>2. "checking" \in Phases /\ NoAccount \notin Accounts
  BY SignInAssumption DEF Phases
<1>3. /\ AttemptsOK'
      /\ \A a \in Accounts : Trying(a)' \subseteq Trying(a)
      /\ \A j \in Addresses : Failing(j)' \subseteq Failing(j) /\ Registering(j)' \subseteq Registering(j)
  BY <1>1, <1>2, AttemptMoves DEF SignInInv
<1> QED
  BY <1>1, <1>3, NothingCharged

LEMMA CheckAddressKeeps ==
  ASSUME SignInInv, NEW r \in Requests, CheckAddress(r)
  PROVE  SignInInv'
<1> DEFINE i == asking[r].from
<1>1. /\ asking[r].phase = "checking" /\ asking[r].from \in Addresses
      /\ IF ByIP!Exceeded(i) THEN Ended(r) ELSE Becomes(r, "verifying")
      /\ UNCHANGED <<byAccount, byIP, signups, wrong, wrongFrom, created>>
  BY DEF CheckAddress, throttleVars, historyVars, SignInInv, AttemptsOK
<1>2. CASE ByIP!Exceeded(i)
  <2>1. /\ AttemptsOK'
        /\ \A a \in Accounts : Trying(a)' \subseteq Trying(a)
        /\ \A j \in Addresses : Failing(j)' \subseteq Failing(j) /\ Registering(j)' \subseteq Registering(j)
    BY <1>1, <1>2, EndedMoves DEF SignInInv
  <2> QED
    BY <1>1, <2>1, NothingCharged
<1>3. CASE ~ByIP!Exceeded(i)
  <2> USE DEF SignInInv
  <2>1. /\ AttemptsOK'
        /\ \A a \in Accounts : Trying(a)' \subseteq Trying(a)
        /\ \A j \in Addresses \ {i} : Failing(j)' \subseteq Failing(j)
        /\ \A j \in Addresses : Registering(j)' \subseteq Registering(j)
    BY <1>1, <1>3, BecomesMoves DEF Phases, Trying, InPhase
  <2>2. ThrottlesOK' /\ SignupsOK' /\ ThrottlesAgree'
    BY <1>1 DEF ThrottlesOK, SignupsOK, ThrottlesAgree
  <2>3. \A a \in Accounts : AccountHolds(a)'
    <3>1. \A a \in Accounts : wrong'[a] <= wrong[a]
      BY <1>1, OpenMeansRoom
    <3> QED
      BY <2>1, <2>2, <3>1, AccountKept DEF AllHold
  <2>4. ASSUME NEW j \in Addresses PROVE AddressHolds(j)'
    <3>1. CASE j # i
      <4>1. wrongFrom'[j] <= wrongFrom[j]
        BY <1>1, OpenMeansRoom
      <4> QED
        BY <2>1, <2>2, <3>1, <4>1, AddressKept DEF AllHold
    <3>2. CASE j = i
      <4>1. wrongFrom'[j] \in Nat /\ wrongFrom'[j] < AddressLimit
        BY <1>1, <1>3, <3>2, OpenMeansRoom
      <4>2. wrongFrom'[j] + Cardinality(Failing(j)') < AddressLimit + Cardinality(Requests)
        BY <4>1, RoomLeft, AskersAreRequests, LimitsType
      <4> QED
        BY <4>2 DEF AddressHolds
    <3> QED
      BY <3>1, <3>2
  <2>5. \A j \in Addresses : SignupHolds(j)'
    BY <1>1, <2>1, SignupKept DEF AllHold
  <2> QED
    BY <2>1, <2>2, <2>3, <2>4, <2>5 DEF AllHold
<1> QED
  BY <1>2, <1>3

(* The answer, and the charge by account that goes with it.                *)
LEMMA AnswerKeeps ==
  ASSUME SignInInv, NEW r \in Requests, NEW outcome \in Outcomes, Answer(r, outcome)
  PROVE  SignInInv'
<1> USE DEF SignInInv
<1> DEFINE a == asking[r].account
           charged == outcome = "wrong" /\ a # NoAccount
<1>1. /\ asking[r].phase = "verifying"
      /\ IF outcome = "wrong" THEN Becomes(r, "charging") ELSE Ended(r)
      /\ byAccount' = IF charged THEN ByAccount!Recorded(a) ELSE byAccount
      /\ wrong' = IF charged THEN OneMore(wrong, a, ByAccount!Overflows(a), AccountCeiling) ELSE wrong
      /\ UNCHANGED <<byIP, signups, wrongFrom, created>>
  BY DEF Answer, IsClientError
<1>2. a \in Accounts \cup {NoAccount}
  BY DEF AttemptsOK, AttemptType
<1>3. /\ AttemptsOK'
      /\ \A b \in Accounts : Trying(b)' \subseteq Trying(b) \ {r}
      /\ \A i \in Addresses : Failing(i)' \subseteq Failing(i) /\ Registering(i)' \subseteq Registering(i)
  <2>1. CASE outcome = "wrong"
    <3>1. "charging" \in Phases /\ asking[r].phase # "idle" /\ Becomes(r, "charging")
      BY <1>1, <2>1 DEF Phases
    <3>2. \A i \in Addresses : asking[r].from = i => r \in Failing(i)
      BY <1>1 DEF Failing, InPhase
    <3> QED
      BY <3>1, <3>2, BecomesMoves
  <2>2. CASE outcome # "wrong"
    BY <1>1, <2>2, EndedMoves
  <2> QED
    BY <2>1, <2>2
<1>4. /\ byAccount' \in [Accounts -> Bucket(AccountCeiling)]
      /\ wrong' \in [Accounts -> 0..AccountCeiling]
      /\ Agree(Accounts, byAccount', wrong')
      /\ \A b \in Accounts : wrong'[b] <= wrong[b] \/ (charged /\ b = a /\ wrong'[b] <= wrong[b] + 1)
  <2>1. CASE charged
    <3>1. PICK k \in Accounts : k = a
      BY <1>2, <2>1
    <3>2. ByAccount!Overflows(k) \in BOOLEAN /\ (ByAccount!Overflows(k) => byAccount[k].window = "none")
      BY DEF ByAccount!Overflows
    <3>3. byAccount' = Charged(byAccount, k, ByAccount!Overflows(k), AccountCeiling)
      BY <1>1, <2>1, <3>1 DEF ByAccount!Recorded, ByAccount!NextCount, Charged
    <3>4. wrong' = OneMore(wrong, k, ByAccount!Overflows(k), AccountCeiling)
      BY <1>1, <2>1, <3>1
    <3>5. Counts(Accounts, AccountCeiling, byAccount, wrong)
      BY DEF Counts, ThrottlesOK, ThrottlesAgree
    <3>6. /\ Counts(Accounts, AccountCeiling, byAccount', wrong')
          /\ wrong'[k] <= wrong[k] + 1 /\ \A b \in Accounts \ {k} : wrong'[b] = wrong[b]
      <4> HIDE DEF a, charged
      <4> QED
        BY <3>2, <3>3, <3>4, <3>5, ChargeAgrees, LimitsType
    <3>7. \A b \in Accounts : wrong[b] <= wrong[b]
      BY OpenMeansRoom
    <3> QED
      BY <2>1, <3>1, <3>6, <3>7 DEF Counts
  <2>2. CASE ~charged
    <3>1. byAccount' = byAccount /\ wrong' = wrong /\ \A b \in Accounts : wrong[b] <= wrong[b]
      BY <1>1, <2>2, OpenMeansRoom
    <3> QED
      BY <3>1 DEF ThrottlesOK, ThrottlesAgree
  <2> QED
    BY <2>1, <2>2
<1>5. ThrottlesOK' /\ SignupsOK' /\ ThrottlesAgree'
  BY <1>1, <1>4 DEF ThrottlesOK, SignupsOK, ThrottlesAgree
<1>6. ASSUME NEW b \in Accounts PROVE AccountHolds(b)'
  <2>1. CASE wrong'[b] <= wrong[b]
    BY <1>3, <1>5, <2>1, AccountKept DEF AllHold
  <2>2. CASE charged /\ b = a /\ wrong'[b] <= wrong[b] + 1
    <3>1. r \in Trying(b)
      BY <1>1, <2>2 DEF Trying, InPhase
    <3>2. /\ wrong[b] \in Nat /\ wrong'[b] \in Nat /\ LoginLimit + Cardinality(Requests) \in Nat
          /\ wrong[b] + Cardinality(Trying(b)) < LoginLimit + Cardinality(Requests)
      BY <1>5, LimitsType DEF ThrottlesOK, AllHold, AccountHolds
    <3>3. wrong'[b] + Cardinality(Trying(b)') < LoginLimit + Cardinality(Requests)
      BY <1>3, <2>2, <3>1, <3>2, AskersAreRequests, RoomUsed
    <3> QED
      BY <3>3 DEF AccountHolds
  <2> QED
    BY <1>4, <2>1, <2>2
<1>7. ASSUME NEW i \in Addresses PROVE AddressHolds(i)' /\ SignupHolds(i)'
  <2>1. wrongFrom'[i] <= wrongFrom[i]
    BY <1>1, OpenMeansRoom
  <2> QED
    BY <1>1, <1>3, <1>5, <2>1, AddressKept, SignupKept DEF AllHold
<1> QED
  BY <1>3, <1>5, <1>6, <1>7 DEF AllHold

LEMMA ChargeAddressKeeps ==
  ASSUME SignInInv, NEW r \in Requests, ChargeAddress(r)
  PROVE  SignInInv'
<1> USE DEF SignInInv
<1> DEFINE i == asking[r].from
<1>1. /\ asking[r].phase = "charging" /\ i \in Addresses /\ Ended(r)
      /\ byIP' = ByIP!Recorded(i)
      /\ wrongFrom' = OneMore(wrongFrom, i, ByIP!Overflows(i), AddressCeiling)
      /\ UNCHANGED <<byAccount, signups, wrong, created>>
  BY DEF ChargeAddress, AttemptsOK
<1>2. PICK h \in Addresses : h = i
  BY <1>1
<1> HIDE DEF i
<1>3. /\ AttemptsOK'
      /\ \A b \in Accounts : Trying(b)' \subseteq Trying(b)
      /\ \A j \in Addresses : Failing(j)' \subseteq Failing(j) \ {r} /\ Registering(j)' \subseteq Registering(j)
  BY <1>1, EndedMoves
<1>4. /\ byIP' \in [Addresses -> Bucket(AddressCeiling)]
      /\ wrongFrom' \in [Addresses -> 0..AddressCeiling]
      /\ Agree(Addresses, byIP', wrongFrom')
      /\ wrongFrom'[h] <= wrongFrom[h] + 1 /\ \A j \in Addresses \ {h} : wrongFrom'[j] = wrongFrom[j]
  <2>1. ByIP!Overflows(h) \in BOOLEAN /\ (ByIP!Overflows(h) => byIP[h].window = "none")
    BY DEF ByIP!Overflows
  <2>2. byIP' = Charged(byIP, h, ByIP!Overflows(h), AddressCeiling)
    BY <1>1, <1>2 DEF ByIP!Recorded, ByIP!NextCount, Charged
  <2>3. wrongFrom' = OneMore(wrongFrom, h, ByIP!Overflows(h), AddressCeiling)
    BY <1>1, <1>2
  <2>4. Counts(Addresses, AddressCeiling, byIP, wrongFrom)
    BY DEF Counts, ThrottlesOK, ThrottlesAgree
  <2>5. /\ Counts(Addresses, AddressCeiling, byIP', wrongFrom')
        /\ wrongFrom'[h] <= wrongFrom[h] + 1 /\ \A j \in Addresses \ {h} : wrongFrom'[j] = wrongFrom[j]
    BY <2>1, <2>2, <2>3, <2>4, ChargeAgrees, LimitsType
  <2> QED
    BY <2>5 DEF Counts
<1>5. ThrottlesOK' /\ SignupsOK' /\ ThrottlesAgree'
  BY <1>1, <1>4 DEF ThrottlesOK, SignupsOK, ThrottlesAgree
<1>6. \A b \in Accounts : AccountHolds(b)'
  <2>1. \A b \in Accounts : wrong'[b] <= wrong[b]
    BY <1>1, OpenMeansRoom
  <2> QED
    BY <1>3, <1>5, <2>1, AccountKept DEF AllHold
<1>7. ASSUME NEW j \in Addresses PROVE AddressHolds(j)'
  <2>1. CASE j # h
    <3>1. wrongFrom'[j] <= wrongFrom[j]
      BY <1>4, <2>1, OpenMeansRoom
    <3> QED
      BY <1>3, <1>5, <3>1, AddressKept DEF AllHold
  <2>2. CASE j = h
    <3>1. r \in Failing(j)
      BY <1>1, <1>2, <2>2 DEF Failing, InPhase, i
    <3>2. /\ wrongFrom[j] \in Nat /\ wrongFrom'[j] \in Nat /\ AddressLimit + Cardinality(Requests) \in Nat
          /\ wrongFrom[j] + Cardinality(Failing(j)) < AddressLimit + Cardinality(Requests)
      BY <1>5, LimitsType DEF ThrottlesOK, AllHold, AddressHolds
    <3>3. wrongFrom'[j] + Cardinality(Failing(j)') < AddressLimit + Cardinality(Requests)
      BY <1>3, <1>4, <2>2, <3>1, <3>2, AskersAreRequests, RoomUsed
    <3> QED
      BY <3>3 DEF AddressHolds
  <2> QED
    BY <2>1, <2>2
<1>8. \A j \in Addresses : SignupHolds(j)'
  BY <1>1, <1>3, SignupKept DEF AllHold
<1> QED
  BY <1>3, <1>5, <1>6, <1>7, <1>8 DEF AllHold

-----------------------------------------------------------------------------
(* Signing up.                                                             *)

(* What leaves the sign-in throttle, and those it let through, alone.      *)
LEMMA ThrottleAlone ==
  ASSUME SignInInv, UNCHANGED <<byAccount, byIP, wrong, wrongFrom>>,
         \A a \in Accounts : Trying(a)' \subseteq Trying(a),
         \A i \in Addresses : Failing(i)' \subseteq Failing(i)
  PROVE  /\ ThrottlesOK' /\ ThrottlesAgree'
         /\ \A a \in Accounts : AccountHolds(a)'
         /\ \A i \in Addresses : AddressHolds(i)'
<1> USE DEF SignInInv
<1>1. ThrottlesOK' /\ ThrottlesAgree'
  BY DEF ThrottlesOK, ThrottlesAgree
<1>2. /\ \A a \in Accounts : wrong'[a] <= wrong[a]
      /\ \A i \in Addresses : wrongFrom'[i] <= wrongFrom[i]
  BY OpenMeansRoom
<1> QED
  BY <1>1, <1>2, AccountKept, AddressKept DEF AllHold

LEMMA SignUpKeeps ==
  ASSUME SignInInv, NEW r \in Requests, NEW i \in Addresses, SignUp(r, i)
  PROVE  SignInInv'
<1> USE DEF SignInInv
<1> DEFINE b == signups[i]
           n == IF b.window # "running" THEN 1
                ELSE IF b.count = SignupCeiling THEN SignupCeiling ELSE b.count + 1
           over == Signups!Overflows(i)
<1>1. /\ asking[r].phase = "idle"
      /\ signups' = IF over THEN signups ELSE [signups EXCEPT ![i] = [window |-> "running", count |-> n]]
      /\ IF over \/ n <= SignupLimit THEN Stands(r, "signingUp", NoAccount, i) ELSE asking' = asking
      /\ UNCHANGED <<byAccount, byIP, wrong, wrongFrom, created>>
  BY DEF SignUp, MaySignUp, Signups!Recorded, Signups!NextCount, Signups!Allows, historyVars, Stands
<1>2. /\ over => b.window = "none"
      /\ b \in Bucket(SignupCeiling) /\ b.count \in 0..SignupCeiling
  BY DEF Signups!Overflows, SignupsOK, Bucket
<1>3. n \in 0..SignupCeiling /\ n \in Nat
  BY <1>2, LimitsType
<1> HIDE DEF over
<1>4. SignupsOK'
  <2>1. [window |-> "running", count |-> n] \in Bucket(SignupCeiling)
    BY <1>3 DEF Bucket
  <2> HIDE DEF n
  <2> QED
    BY <1>1, <2>1 DEF SignupsOK
<1>5. /\ AttemptsOK'
      /\ \A a \in Accounts : Trying(a)' \subseteq Trying(a)
      /\ \A j \in Addresses : Failing(j)' \subseteq Failing(j)
      /\ \A j \in Addresses \ {i} : Registering(j)' \subseteq Registering(j)
      /\ Registering(i)' \subseteq Registering(i) \cup {r}
      /\ ~(over \/ n <= SignupLimit) => Registering(i)' = Registering(i)
  <2> HIDE DEF n
  <2>1. CASE over \/ n <= SignupLimit
    <3>1. Stands(r, "signingUp", NoAccount, i) /\ "signingUp" \in Phases /\ NoAccount \notin Accounts
      BY <1>1, <2>1, SignInAssumption DEF Phases
    <3> QED
      BY <2>1, <3>1, AttemptMoves
  <2>2. CASE ~(over \/ n <= SignupLimit)
    BY <1>1, <2>2 DEF AttemptsOK, Trying, Failing, Registering, InPhase
  <2> QED
    BY <2>1, <2>2
<1>6. /\ ThrottlesOK' /\ ThrottlesAgree'
      /\ \A a \in Accounts : AccountHolds(a)'
      /\ \A j \in Addresses : AddressHolds(j)'
  BY <1>1, <1>5, ThrottleAlone
<1>7. ASSUME NEW j \in Addresses \ {i} PROVE SignupHolds(j)'
  <2>1. signups'[j] = signups[j] /\ created'[j] = created[j]
    BY <1>1 DEF SignupsOK
  <2> QED
    BY <1>5, <2>1, SignupKept DEF AllHold
<1>8. SignupHolds(i)'
  <2> DEFINE was == Cardinality(Registering(i))
             are == Cardinality(Registering(i)')
             all == Cardinality(Requests)
  <2>1. /\ was \in Nat /\ are \in Nat /\ all \in Nat /\ are <= all /\ all >= 1
        /\ SignupCeiling = SignupLimit + all /\ SignupLimit \in Nat \ {0}
    <3>1. Cardinality({r}) = 1 /\ {r} \in SUBSET Requests
      BY FS_Singleton
    <3> QED
      BY <3>1, AskersAreRequests, AskersFinite, LimitsType, SignInAssumption
  <2>2. are <= was + 1 /\ (~(over \/ n <= SignupLimit) => are = was)
    <3>1. Registering(i) \cup {r} \in SUBSET Requests /\ r \notin Registering(i)
      BY <1>1 DEF Registering, InPhase
    <3>2. Cardinality(Registering(i) \cup {r}) = was + 1
      BY <3>1, AskersAreRequests, AskersFinite, FS_AddElement
    <3>3. are <= Cardinality(Registering(i) \cup {r})
      BY <1>5, <3>1, AskersAreRequests, AskersFinite, FS_Subset
    <3> QED
      BY <1>5, <3>2, <3>3
  <2>3. created' = created /\ created[i] \in Nat
    BY <1>1 DEF SignupsOK
  <2>4. CASE over
    <3>1. signups'[i].window # "running" /\ created[i] = 0
      BY <1>1, <1>2, <2>4 DEF AllHold, SignupHolds
    <3> QED
      BY <2>3, <3>1 DEF SignupHolds
  <2>5. CASE ~over
    <3>1. signups'[i].window = "running" /\ signups'[i].count = n
      BY <1>1, <2>5 DEF SignupsOK
    <3>2. CASE b.window # "running"
      <4>1. created[i] = 0 /\ n = 1
        BY <3>2 DEF AllHold, SignupHolds
      <4>2. created'[i] + are <= n + all /\ created'[i] + are <= SignupLimit + all
        BY <2>1, <2>3, <4>1
      <4> QED
        BY <3>1, <4>2 DEF SignupHolds
    <3>3. CASE b.window = "running"
      <4>1. created[i] + was <= b.count + all /\ created[i] + was <= SignupLimit + all
        BY <3>3 DEF AllHold, SignupHolds
      <4>2. n = IF b.count = SignupCeiling THEN SignupCeiling ELSE b.count + 1
        BY <3>3
      <4>3. b.count \in 0..SignupCeiling
        BY <1>2
      <4> HIDE DEF n, are, was, all, b
      <4>4. CASE n <= SignupLimit
        <5>1. n = b.count + 1
          BY <2>1, <4>2, <4>3, <4>4
        <5>2. created'[i] + are <= n + all /\ created'[i] + are <= SignupLimit + all
          BY <2>1, <2>2, <2>3, <4>1, <4>3, <4>4, <5>1
        <5> QED
          BY <3>1, <5>2 DEF SignupHolds, are, all
      <4>5. CASE ~(n <= SignupLimit)
        <5>1. n >= b.count /\ are = was
          BY <2>1, <2>2, <2>5, <4>2, <4>3, <4>5
        <5>2. created'[i] + are <= n + all /\ created'[i] + are <= SignupLimit + all
          BY <1>3, <2>1, <2>3, <4>1, <4>3, <5>1
        <5> QED
          BY <3>1, <5>2 DEF SignupHolds, are, all
      <4> QED
        BY <4>4, <4>5
    <3> QED
      BY <3>2, <3>3
  <2> QED
    BY <2>4, <2>5
<1> QED
  BY <1>4, <1>5, <1>6, <1>7, <1>8 DEF AllHold

(* The account is there, and its request no longer to come.                *)
LEMMA CreateAccountKeeps ==
  ASSUME SignInInv, NEW r \in Requests, CreateAccount(r)
  PROVE  SignInInv'
<1> USE DEF SignInInv
<1>1. PICK i \in Addresses : i = asking[r].from
  BY DEF CreateAccount, AttemptsOK
<1>2. /\ asking[r].phase = "signingUp" /\ Ended(r)
      /\ created' = OneMore(created, i, signups[i].window # "running", SignupCeiling)
      /\ UNCHANGED <<byAccount, byIP, signups, wrong, wrongFrom>>
  BY <1>1 DEF CreateAccount, throttleVars
<1>3. /\ AttemptsOK'
      /\ \A a \in Accounts : Trying(a)' \subseteq Trying(a)
      /\ \A j \in Addresses : Failing(j)' \subseteq Failing(j) /\ Registering(j)' = Registering(j) \ {r}
  BY <1>2, EndedMoves
<1>4. /\ ThrottlesOK' /\ ThrottlesAgree'
      /\ \A a \in Accounts : AccountHolds(a)'
      /\ \A j \in Addresses : AddressHolds(j)'
  BY <1>2, <1>3, ThrottleAlone
<1> DEFINE n == IF signups[i].window # "running" THEN 0
                ELSE IF created[i] = SignupCeiling THEN SignupCeiling ELSE created[i] + 1
<1>5. created' = [created EXCEPT ![i] = n]
  BY <1>2 DEF OneMore, SignupsOK
<1>6. n \in 0..SignupCeiling /\ n <= created[i] + 1
  BY LimitsType DEF SignupsOK
<1>7. SignupsOK'
  <2> HIDE DEF n
  <2> QED
    BY <1>2, <1>5, <1>6 DEF SignupsOK
<1>8. ASSUME NEW j \in Addresses \ {i} PROVE SignupHolds(j)'
  <2>1. signups'[j] = signups[j] /\ created'[j] = created[j]
    BY <1>2, <1>5 DEF SignupsOK
  <2> QED
    BY <1>3, <2>1, SignupKept DEF AllHold
<1>9. SignupHolds(i)'
  <2>1. signups' = signups /\ created'[i] = n
    BY <1>2, <1>5 DEF SignupsOK
  <2>2. CASE signups[i].window # "running"
    BY <2>1, <2>2 DEF SignupHolds
  <2>3. CASE signups[i].window = "running"
    <3>1. r \in Registering(i) /\ Registering(i) \in SUBSET Requests
      BY <1>1, <1>2 DEF Registering, InPhase
    <3>2. Cardinality(Registering(i)') = Cardinality(Registering(i)) - 1
      BY <1>3, <3>1, AskersFinite, FS_RemoveElement
    <3>3. /\ created[i] + Cardinality(Registering(i)) <= signups[i].count + Cardinality(Requests)
          /\ created[i] + Cardinality(Registering(i)) <= SignupLimit + Cardinality(Requests)
      BY <2>3 DEF AllHold, SignupHolds
    <3>4. /\ created[i] \in Nat /\ signups[i].count \in Nat /\ SignupLimit \in Nat
          /\ n \in Nat /\ n <= created[i] + 1
          /\ Cardinality(Registering(i)) \in Nat /\ Cardinality(Requests) \in Nat
      BY <1>6, <3>1, AskersFinite, LimitsType, SignInAssumption DEF SignupsOK, Bucket
    <3> HIDE DEF n
    <3>5. /\ n + Cardinality(Registering(i)') <= signups[i].count + Cardinality(Requests)
          /\ n + Cardinality(Registering(i)') <= SignupLimit + Cardinality(Requests)
      BY <3>2, <3>3, <3>4
    <3> QED
      BY <2>1, <2>3, <3>5 DEF SignupHolds
  <2> QED
    BY <2>2, <2>3
<1> QED
  BY <1>3, <1>4, <1>7, <1>8, <1>9 DEF AllHold

LEMMA RefuseAccountKeeps ==
  ASSUME SignInInv, NEW r \in Requests, RefuseAccount(r)
  PROVE  SignInInv'
<1>1. Ended(r) /\ UNCHANGED <<byAccount, byIP, signups, wrong, wrongFrom, created>>
  BY DEF RefuseAccount, throttleVars, historyVars
<1>2. /\ AttemptsOK'
      /\ \A a \in Accounts : Trying(a)' \subseteq Trying(a)
      /\ \A j \in Addresses : Failing(j)' \subseteq Failing(j) /\ Registering(j)' \subseteq Registering(j)
  BY <1>1, EndedMoves DEF SignInInv
<1> QED
  BY <1>1, <1>2, NothingCharged

-----------------------------------------------------------------------------
(* The clock, the janitors and the process.                                *)

LEMMA AskersUnmoved ==
  ASSUME AttemptsOK, asking' = asking
  PROVE  /\ AttemptsOK'
         /\ \A a \in Accounts : Trying(a)' = Trying(a)
         /\ \A i \in Addresses : Failing(i)' = Failing(i) /\ Registering(i)' = Registering(i)
  BY DEF AttemptsOK, Trying, Failing, Registering, InPhase

LEMMA ElapsedBucket ==
  ASSUME NEW ceiling \in Nat
  PROVE  [window |-> "elapsed", count |-> 0] \in Bucket(ceiling) /\ 0 \in 0..ceiling
  BY DEF Bucket

LEMMA ElapseAccountKeeps ==
  ASSUME SignInInv, NEW a \in Accounts, ElapseAccount(a)
  PROVE  SignInInv'
<1> USE DEF SignInInv
<1>1. /\ byAccount' = [byAccount EXCEPT ![a] = [window |-> "elapsed", count |-> 0]]
      /\ wrong' = [wrong EXCEPT ![a] = 0]
      /\ UNCHANGED <<byIP, signups, asking, wrongFrom, created>>
  BY DEF ElapseAccount, ByAccount!Elapsed
<1>2. ThrottlesOK' /\ SignupsOK'
  BY <1>1, ElapsedBucket, LimitsType DEF ThrottlesOK, SignupsOK
<1>3. ThrottlesAgree'
  BY <1>1 DEF ThrottlesOK, ThrottlesAgree, Agree
<1>4. \A b \in Accounts : wrong'[b] <= wrong[b] /\ wrong'[b] \in Nat
  <2>1. \A b \in Accounts : wrong'[b] = IF b = a THEN 0 ELSE wrong[b]
    BY <1>1 DEF ThrottlesOK
  <2> QED
    BY <2>1, OpenMeansRoom
<1>5. \A i \in Addresses : wrongFrom'[i] <= wrongFrom[i]
  BY <1>1, OpenMeansRoom
<1> QED
  BY <1>1, <1>2, <1>3, <1>4, <1>5, AskersUnmoved, AccountKept, AddressKept, SignupKept DEF AllHold

LEMMA ElapseAddressKeeps ==
  ASSUME SignInInv, NEW i \in Addresses, ElapseAddress(i)
  PROVE  SignInInv'
<1> USE DEF SignInInv
<1>1. /\ byIP' = [byIP EXCEPT ![i] = [window |-> "elapsed", count |-> 0]]
      /\ wrongFrom' = [wrongFrom EXCEPT ![i] = 0]
      /\ UNCHANGED <<byAccount, signups, asking, wrong, created>>
  BY DEF ElapseAddress, ByIP!Elapsed
<1>2. ThrottlesOK' /\ SignupsOK'
  BY <1>1, ElapsedBucket, LimitsType DEF ThrottlesOK, SignupsOK
<1>3. ThrottlesAgree'
  BY <1>1 DEF ThrottlesOK, ThrottlesAgree, Agree
<1>4. \A j \in Addresses : wrongFrom'[j] <= wrongFrom[j] /\ wrongFrom'[j] \in Nat
  <2>1. \A j \in Addresses : wrongFrom'[j] = IF j = i THEN 0 ELSE wrongFrom[j]
    BY <1>1 DEF ThrottlesOK
  <2> QED
    BY <2>1, OpenMeansRoom
<1>5. \A a \in Accounts : wrong'[a] <= wrong[a]
  BY <1>1, OpenMeansRoom
<1> QED
  BY <1>1, <1>2, <1>3, <1>4, <1>5, AskersUnmoved, AccountKept, AddressKept, SignupKept DEF AllHold

LEMMA ElapseSignupsKeeps ==
  ASSUME SignInInv, NEW i \in Addresses, ElapseSignups(i)
  PROVE  SignInInv'
<1> USE DEF SignInInv
<1>1. /\ signups' = [signups EXCEPT ![i] = [window |-> "elapsed", count |-> 0]]
      /\ created' = [created EXCEPT ![i] = 0]
      /\ UNCHANGED <<byAccount, byIP, asking, wrong, wrongFrom>>
  BY DEF ElapseSignups, Signups!Elapsed
<1>2. SignupsOK'
  BY <1>1, ElapsedBucket, LimitsType DEF SignupsOK
<1>3. /\ AttemptsOK'
      /\ \A a \in Accounts : Trying(a)' = Trying(a)
      /\ \A j \in Addresses : Failing(j)' = Failing(j) /\ Registering(j)' = Registering(j)
  BY <1>1, AskersUnmoved
<1>4. /\ ThrottlesOK' /\ ThrottlesAgree'
      /\ \A a \in Accounts : AccountHolds(a)'
      /\ \A j \in Addresses : AddressHolds(j)'
  BY <1>1, <1>3, ThrottleAlone
<1>5. SignupHolds(i)'
  BY <1>1 DEF SignupsOK, SignupHolds
<1>6. ASSUME NEW j \in Addresses \ {i} PROVE SignupHolds(j)'
  <2>1. signups'[j] = signups[j] /\ created'[j] = created[j]
    BY <1>1 DEF SignupsOK
  <2> QED
    BY <1>3, <2>1, SignupKept DEF AllHold
<1> QED
  BY <1>2, <1>3, <1>4, <1>5, <1>6 DEF AllHold

(* A janitor forgets windows that have elapsed, which count for nothing.   *)
LEMMA SweepThrottlesKeeps ==
  ASSUME SignInInv, SweepThrottles
  PROVE  SignInInv'
<1> USE DEF SignInInv
<1> DEFINE none == [window |-> "none", count |-> 0]
<1>1. /\ \/ /\ byAccount' = [a \in Accounts |-> IF byAccount[a].window = "elapsed" THEN none ELSE byAccount[a]]
            /\ UNCHANGED <<byIP, signups>>
         \/ /\ byIP' = [i \in Addresses |-> IF byIP[i].window = "elapsed" THEN none ELSE byIP[i]]
            /\ UNCHANGED <<byAccount, signups>>
         \/ /\ signups' = [i \in Addresses |-> IF signups[i].window = "elapsed" THEN none ELSE signups[i]]
            /\ UNCHANGED <<byAccount, byIP>>
      /\ UNCHANGED <<asking, wrong, wrongFrom, created>>
  BY DEF SweepThrottles, historyVars, ByAccount!Swept, ByIP!Swept, Signups!Swept,
     ByAccount!NoBucket, ByIP!NoBucket, Signups!NoBucket
<1>2. /\ none.window = "none"
      /\ none \in Bucket(AccountCeiling) /\ none \in Bucket(AddressCeiling) /\ none \in Bucket(SignupCeiling)
  BY LimitsType DEF Bucket
<1> HIDE DEF none
<1>3. ThrottlesOK' /\ SignupsOK'
  BY <1>1, <1>2 DEF ThrottlesOK, SignupsOK
<1>4. ThrottlesAgree'
  BY <1>1, <1>2 DEF ThrottlesOK, ThrottlesAgree, Agree
<1>5. /\ AttemptsOK'
      /\ \A a \in Accounts : Trying(a)' = Trying(a)
      /\ \A j \in Addresses : Failing(j)' = Failing(j) /\ Registering(j)' = Registering(j)
  BY <1>1, AskersUnmoved
<1>6. /\ \A a \in Accounts : wrong'[a] <= wrong[a]
      /\ \A i \in Addresses : wrongFrom'[i] <= wrongFrom[i]
  BY <1>1, OpenMeansRoom
<1>7. \A i \in Addresses : SignupHolds(i)'
  <2>1. ASSUME NEW i \in Addresses PROVE SignupHolds(i)'
    <3>1. created'[i] = created[i] /\ (signups'[i] = signups[i] \/
             (signups[i].window # "running" /\ signups'[i].window # "running"))
      BY <1>1, <1>2 DEF SignupsOK
    <3>2. CASE signups'[i] = signups[i]
      BY <1>5, <3>1, <3>2, SignupKept DEF AllHold
    <3>3. CASE signups[i].window # "running" /\ signups'[i].window # "running"
      BY <3>1, <3>3 DEF AllHold, SignupHolds
    <3> QED
      BY <3>1, <3>2, <3>3
  <2> QED
    BY <2>1
<1> QED
  BY <1>3, <1>4, <1>5, <1>6, <1>7, AccountKept, AddressKept DEF AllHold

LEMMA NextSignInInv == SignInInv /\ [SignInNext]_signInVars => SignInInv'
<1> SUFFICES ASSUME SignInInv, [SignInNext]_signInVars PROVE SignInInv'
  OBVIOUS
<1>1. CASE \/ \E r \in Requests, a \in Accounts, i \in Addresses : LogIn(r, a, i)
           \/ \E r \in Requests, i \in Addresses : EnterCode(r, i) \/ SignUp(r, i)
           \/ \E r \in Requests, o \in Outcomes : Answer(r, o)
  BY <1>1, LogInKeeps, EnterCodeKeeps, SignUpKeeps, AnswerKeeps
<1>2. CASE \E r \in Requests :
              CheckAddress(r) \/ ChargeAddress(r) \/ CreateAccount(r) \/ RefuseAccount(r)
  BY <1>2, CheckAddressKeeps, ChargeAddressKeeps, CreateAccountKeeps, RefuseAccountKeeps
<1>3. CASE \/ \E a \in Accounts : ElapseAccount(a)
           \/ \E i \in Addresses : ElapseAddress(i) \/ ElapseSignups(i)
           \/ SweepThrottles
  BY <1>3, ElapseAccountKeeps, ElapseAddressKeeps, ElapseSignupsKeeps, SweepThrottlesKeeps
<1>4. CASE RestartThrottles
  <2>1. Fresh'
    BY <1>4 DEF RestartThrottles, Fresh, ByAccount!NoBucket, ByIP!NoBucket, Signups!NoBucket
  <2> QED
    BY <2>1, FreshSignInInv, PTL
<1>5. CASE UNCHANGED signInVars
  <2>1. UNCHANGED <<byAccount, byIP, signups, wrong, wrongFrom, created>> /\ asking' = asking
    BY <1>5 DEF signInVars
  <2> QED
    BY <2>1, AskersUnmoved, NothingCharged DEF SignInInv
<1> QED
  BY <1>1, <1>2, <1>3, <1>4, <1>5 DEF SignInNext

LEMMA SignInInvHolds == SignInSpec => []SignInInv
  BY InitSignInInv, NextSignInInv, PTL DEF SignInSpec

(* The type invariant of SignIns.                                          *)
THEOREM SignInTypeCorrect == SignInSpec => []SignInType
<1>1. SignInInv => SignInType
  BY SignInTypeParts DEF SignInInv
<1> QED
  BY <1>1, SignInInvHolds, PTL

(* Whatever the limits and however many requests are between check and     *)
(* charge, accounts, addresses and sign-ups get through a window no more   *)
(* often than the limit and once for each of those requests (check,        *)
(* failed, attempt).                                                       *)
THEOREM AttemptsStayBounded == SignInSpec => []AttemptsBounded
<1>1. ASSUME SignInInv PROVE AttemptsBounded
  <2>1. AccountsHold /\ AddressesHold
    BY <1>1 DEF SignInInv, AllHold, AccountHolds, AddressHolds, AccountsHold, AddressesHold,
       Trying, Failing
  <2>2. SignupsHold
    BY <1>1 DEF SignInInv, AllHold, SignupHolds, SignupsHold, Registering
  <2> QED
    BY <2>1, <2>2 DEF AttemptsBounded
<1> QED
  BY <1>1, SignInInvHolds, PTL

(* An account or an address is refused only after as many failures as its  *)
(* limit in its window (failed is called for client errors alone).         *)
THEOREM OnlyFailuresClose == SignInSpec => []ClosedOnlyByFailures
<1>1. ASSUME SignInInv PROVE ClosedOnlyByFailures
  <2>1. LoginLimit \in Nat /\ AddressLimit \in Nat
    BY LimitsType, SignInAssumption
  <2> QED
    BY <1>1, <2>1, OpenMeansRoom DEF SignInInv, ClosedOnlyByFailures
<1> QED
  BY <1>1, SignInInvHolds, PTL
=================================================================================
