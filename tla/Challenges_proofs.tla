-------------------------- MODULE Challenges_proofs --------------------------
(***************************************************************************)
(* Proofs about sign-in codes, for any number of challenges, recovery      *)
(* codes and simultaneous requests, and any cap on attempts.               *)
(***************************************************************************)
EXTENDS Challenges, FiniteSetTheorems, TLAPS

(* A request holds a challenge exactly while it is redeeming one.          *)
HoldsOK == \A r \in Requests : req[r].phase \in {"idle", "cleared"} => req[r].id = NoId

Base == TypeOK /\ HoldsOK

LEMMA InitBase == Init => Base
  BY ChallengeAssumption DEF Init, Base, TypeOK, HoldsOK, Idle, RequestType, Phases

(* What a step does to the requests.                                       *)
LEMMA DoneFact ==
  ASSUME Base, NEW r \in Requests, Done(r)
  PROVE  /\ req' \in [Requests -> RequestType]
         /\ req'[r] = Idle
         /\ \A q \in Requests \ {r} : req'[q] = req[q]
  BY DEF Done, Base, TypeOK, Idle, RequestType, Phases

LEMMA AtFact ==
  ASSUME Base, NEW r \in Requests, NEW p \in Phases, At(r, p)
  PROVE  /\ req' \in [Requests -> RequestType]
         /\ req'[r].phase = p /\ req'[r].id = req[r].id
         /\ req'[r].code = req[r].code /\ req'[r].right = req[r].right
         /\ \A q \in Requests \ {r} : req'[q] = req[q]
  BY DEF At, Base, TypeOK, RequestType

LEMMA NextBase == Base /\ [Next]_vars => Base'
<1> SUFFICES ASSUME Base, [Next]_vars PROVE Base'
  OBVIOUS
<1> USE ChallengeAssumption DEF Base, TypeOK, HoldsOK, rowVars, codeVars, historyVars
<1>1. ASSUME NEW r \in Requests, Count(r)  PROVE Base'
  BY <1>1, AtFact DEF Count, Phases
<1>2. ASSUME NEW r \in Requests, NEW c \in Ids, Create(r, c)  PROVE Base'
  BY <1>2, DoneFact DEF Create, Retired, Outstanding, Idle
<1>3. ASSUME NEW r \in Requests, NEW c \in Ids, NEW k \in Codes \cup {NoCode},
             NEW right \in BOOLEAN, Load(r, c, k, right)
      PROVE Base'
  BY <1>3 DEF Load, Open, RequestType, Phases
<1>4. ASSUME NEW r \in Requests, Charge(r)  PROVE Base'
  <2>1. attempts' \in [Ids -> Nat] /\ compared' \in [Ids -> Nat]
    BY <1>4 DEF Charge, Charged
  <2>2. CASE At(r, "charged") \/ At(r, "matched")
    BY <1>4, <2>1, <2>2, AtFact DEF Charge, Phases
  <2>3. CASE Done(r)
    BY <1>4, <2>1, <2>3, DoneFact DEF Charge, Idle
  <2> QED
    BY <1>4, <2>2, <2>3 DEF Charge
<1>5. ASSUME NEW r \in Requests, Consume(r)  PROVE Base'
  BY <1>5, AtFact DEF Consume, ConsumeRow, Phases
<1>6. ASSUME NEW r \in Requests, Match(r)  PROVE Base'
  <2>1. CASE At(r, "found") /\ req[r].code \in unspent
    BY <1>6, <2>1, AtFact DEF Match, Phases
  <2>2. CASE Done(r)
    BY <1>6, <2>2, DoneFact DEF Match, Idle
  <2> QED
    BY <1>6, <2>1, <2>2 DEF Match
<1>7. ASSUME NEW r \in Requests, SpendCode(r)  PROVE Base'
  BY <1>7, AtFact DEF SpendCode, Spent, Phases
<1>8. ASSUME NEW r \in Requests, SpendChallenge(r)  PROVE Base'
  BY <1>8, AtFact DEF SpendChallenge, ConsumeRow, Phases
<1>9. ASSUME NEW r \in Requests, Grant(r)  PROVE Base'
  <2>1. grants' \in [Ids -> Nat] /\ spends' \in [Codes -> Nat]
    BY <1>9 DEF Grant, RequestType
  <2> QED
    BY <1>9, <2>1, DoneFact DEF Grant, Idle
<1>10. ASSUME NEW r \in Requests, HangUp(r)  PROVE Base'
  BY <1>10, DoneFact DEF HangUp, Idle
<1>11. CASE Regenerate \/ ClearSheet
  BY <1>11 DEF Regenerate, ClearSheet
<1>12. ASSUME NEW c \in Ids, Expire(c)  PROVE Base'
  BY <1>12 DEF Expire
<1>13. ASSUME NEW c \in Ids, Age(c)  PROVE Base'
  BY <1>13 DEF Age
<1>14. CASE Purge
  BY <1>14 DEF Purge
<1>15. CASE UNCHANGED vars
  BY <1>15 DEF vars
<1> QED
  BY <1>1, <1>2, <1>3, <1>4, <1>5, <1>6, <1>7, <1>8, <1>9, <1>10, <1>11, <1>12, <1>13, <1>14,
     <1>15 DEF Next

(* The types of the state hold in every reachable state.                   *)
THEOREM Typing == Spec => []TypeOK
<1>1. Base => TypeOK
  BY DEF Base
<1> QED
  BY <1>1, InitBase, NextBase, PTL DEF Spec

-----------------------------------------------------------------------------
(* At most one code is outstanding, because issuing one retires the rest.  *)
THEOREM Outstands == Spec => []OneOutstanding
<1>1. Init => OneOutstanding
  BY DEF Init, OneOutstanding, Outstanding
<1>2. OneOutstanding /\ [Next]_vars => OneOutstanding'
  <2> SUFFICES ASSUME OneOutstanding, [Next]_vars PROVE OneOutstanding'
    OBVIOUS
  <2>1. ASSUME NEW r \in Requests, NEW c \in Ids, Create(r, c)  PROVE OneOutstanding'
    BY <2>1 DEF Create, Retired, Outstanding, OneOutstanding
  <2>2. ASSUME Outstanding' \subseteq Outstanding  PROVE OneOutstanding'
    BY <2>2 DEF OneOutstanding
  <2>3. ASSUME NEW r \in Requests,
               Count(r) \/ Charge(r) \/ Consume(r) \/ Match(r) \/ SpendCode(r)
                 \/ SpendChallenge(r) \/ Grant(r) \/ HangUp(r)
        PROVE Outstanding' \subseteq Outstanding
    BY <2>3 DEF Count, Charge, Consume, Match, SpendCode, SpendChallenge, Grant, HangUp,
                ConsumeRow, Outstanding, rowVars
  <2>4. ASSUME NEW r \in Requests, NEW c \in Ids, NEW k \in Codes \cup {NoCode},
               NEW right \in BOOLEAN, Load(r, c, k, right)
        PROVE Outstanding' \subseteq Outstanding
    BY <2>4 DEF Load, Outstanding, rowVars
  <2>5. CASE Regenerate \/ ClearSheet
    BY <2>2, <2>5 DEF Regenerate, ClearSheet, Outstanding, rowVars
  <2>6. ASSUME NEW c \in Ids, Expire(c) \/ Age(c)  PROVE Outstanding' \subseteq Outstanding
    BY <2>6 DEF Expire, Age, Outstanding
  <2>7. CASE Purge
    BY <2>2, <2>7 DEF Purge, Outstanding
  <2>8. CASE UNCHANGED vars
    BY <2>2, <2>8 DEF vars, Outstanding
  <2> QED
    BY <2>1, <2>2, <2>3, <2>4, <2>5, <2>6, <2>7, <2>8 DEF Next
<1> QED
  BY <1>1, <1>2, PTL DEF Spec

-----------------------------------------------------------------------------
(* Redemption.                                                             *)

(* A challenge that no two requests held together is held by at most one,  *)
(* and once it has opened a session it is closed and held by none.         *)
HeldOnce ==
    \A c \in Ids \ raced :
        /\ \A r, q \in Requests : req[r].id = c /\ req[q].id = c => r = q
        /\ \/ grants[c] = 0
           \/ /\ grants[c] = 1 /\ c \in used \ Outstanding
              /\ \A r \in Requests : req[r].id # c

RedeemedClosed ==
    \A r \in Requests : req[r].phase = "redeemed" => req[r].id \notin Outstanding

(* A step only closes challenges that were already issued.                 *)
LEMMA StepUsed ==
  ASSUME Base, [Next]_vars
  PROVE  /\ used \subseteq used'
         /\ Outstanding' \cap used \subseteq Outstanding
         /\ raced \subseteq raced'
<1> USE DEF Outstanding, rowVars, historyVars
<1>1. ASSUME NEW r \in Requests, NEW c \in Ids, Create(r, c)
      PROVE /\ used \subseteq used'
            /\ Outstanding' \cap used \subseteq Outstanding /\ raced \subseteq raced'
  BY <1>1 DEF Create, Base, TypeOK
<1>2. ASSUME NEW r \in Requests,
             Count(r) \/ Charge(r) \/ Consume(r) \/ Match(r) \/ SpendCode(r)
               \/ SpendChallenge(r) \/ Grant(r) \/ HangUp(r)
      PROVE /\ used \subseteq used'
            /\ Outstanding' \cap used \subseteq Outstanding /\ raced \subseteq raced'
  BY <1>2 DEF Count, Charge, Consume, Match, SpendCode, SpendChallenge, Grant, HangUp, ConsumeRow
<1>3. ASSUME NEW r \in Requests, NEW c \in Ids, NEW k \in Codes \cup {NoCode},
             NEW right \in BOOLEAN, Load(r, c, k, right)
      PROVE /\ used \subseteq used'
            /\ Outstanding' \cap used \subseteq Outstanding /\ raced \subseteq raced'
  BY <1>3 DEF Load
<1>4. CASE Regenerate \/ ClearSheet
  BY <1>4 DEF Regenerate, ClearSheet
<1>5. ASSUME NEW c \in Ids, Expire(c) \/ Age(c)
      PROVE /\ used \subseteq used'
            /\ Outstanding' \cap used \subseteq Outstanding /\ raced \subseteq raced'
  BY <1>5 DEF Expire, Age
<1>6. CASE Purge
  BY <1>6 DEF Purge
<1>7. CASE UNCHANGED vars
  BY <1>7 DEF vars
<1> QED
  BY <1>1, <1>2, <1>3, <1>4, <1>5, <1>6, <1>7 DEF Next

(* Apart from Load, which takes hold of one, and Grant, which opens a      *)
(* session, a step keeps what the requests hold or lets go of it.          *)
LetsGo ==
    /\ grants' = grants
    /\ \A r \in Requests : /\ req'[r].id \in {req[r].id, NoId}
                           /\ req'[r].phase = "redeemed" =>
                                /\ req'[r].id = req[r].id
                                /\ req[r].phase = "redeemed" \/ req[r].id \notin Outstanding'

LEMMA StepHolds ==
  ASSUME Base, [Next]_vars
  PROVE  \/ LetsGo
         \/ \E r \in Requests, c \in Ids, k \in Codes \cup {NoCode}, right \in BOOLEAN :
               Load(r, c, k, right)
         \/ \E r \in Requests : Grant(r)
<1> USE DEF LetsGo, rowVars, codeVars, historyVars, Idle
<1>1. ASSUME NEW r \in Requests, Count(r)  PROVE LetsGo
  BY <1>1, AtFact DEF Count, Phases
<1>2. ASSUME NEW r \in Requests, NEW c \in Ids, Create(r, c)  PROVE LetsGo
  BY <1>2, DoneFact DEF Create
<1>3. ASSUME NEW r \in Requests, Charge(r)  PROVE LetsGo
  BY <1>3, AtFact, DoneFact DEF Charge, Phases
<1>4. ASSUME NEW r \in Requests, Consume(r)  PROVE LetsGo
  BY <1>4, AtFact DEF Consume, ConsumeRow, Outstanding, Phases
<1>5. ASSUME NEW r \in Requests, Match(r)  PROVE LetsGo
  BY <1>5, AtFact, DoneFact DEF Match, Phases
<1>6. ASSUME NEW r \in Requests, SpendCode(r)  PROVE LetsGo
  BY <1>6, AtFact DEF SpendCode, Phases
<1>7. ASSUME NEW r \in Requests, SpendChallenge(r)  PROVE LetsGo
  BY <1>7, AtFact DEF SpendChallenge, ConsumeRow, Outstanding, Phases
<1>8. ASSUME NEW r \in Requests, HangUp(r)  PROVE LetsGo
  BY <1>8, DoneFact DEF HangUp
<1>9. CASE Regenerate \/ ClearSheet
  BY <1>9 DEF Regenerate, ClearSheet
<1>10. ASSUME NEW c \in Ids, Expire(c) \/ Age(c)  PROVE LetsGo
  BY <1>10 DEF Expire, Age
<1>11. CASE Purge
  BY <1>11 DEF Purge
<1>12. CASE UNCHANGED vars
  BY <1>12 DEF vars
<1> QED
  BY <1>1, <1>2, <1>3, <1>4, <1>5, <1>6, <1>7, <1>8, <1>9, <1>10, <1>11, <1>12 DEF Next

LEMMA NextRedeemed ==
  Base /\ HeldOnce /\ RedeemedClosed /\ [Next]_vars => HeldOnce' /\ RedeemedClosed'
<1> SUFFICES ASSUME Base, HeldOnce, RedeemedClosed, [Next]_vars
             PROVE  HeldOnce' /\ RedeemedClosed'
  OBVIOUS
<1>0. /\ used \subseteq used' /\ Outstanding' \cap used \subseteq Outstanding
      /\ raced \subseteq raced' /\ Outstanding \subseteq used /\ NoId \notin Ids
  BY StepUsed, ChallengeAssumption DEF Outstanding, Base, TypeOK
<1>1. CASE LetsGo
  <2>1. HeldOnce'
    BY <1>0, <1>1 DEF LetsGo, HeldOnce
  <2>2. RedeemedClosed'
    BY <1>0, <1>1 DEF LetsGo, RedeemedClosed, Base, TypeOK
  <2> QED
    BY <2>1, <2>2
<1>2. ASSUME NEW r \in Requests, NEW c \in Ids, NEW k \in Codes \cup {NoCode},
             NEW right \in BOOLEAN, Load(r, c, k, right)
      PROVE HeldOnce' /\ RedeemedClosed'
  <2>1. /\ c \in Outstanding /\ grants' = grants /\ Outstanding' = Outstanding
        /\ raced' = IF Holding(c) = {} THEN raced ELSE raced \cup {c}
        /\ used' = used
    BY <1>2 DEF Load, Open, Outstanding, rowVars
  <2>2. /\ req'[r].id = c /\ req'[r].phase = "loaded" /\ req[r].id = NoId
        /\ \A q \in Requests \ {r} : req'[q] = req[q]
    BY <1>2 DEF Load, Base, TypeOK, HoldsOK
  <2>3. HeldOnce'
    BY <1>0, <2>1, <2>2 DEF HeldOnce, Holding
  <2>4. RedeemedClosed'
    BY <2>1, <2>2 DEF RedeemedClosed
  <2> QED
    BY <2>3, <2>4
<1>3. ASSUME NEW r \in Requests, Grant(r)  PROVE HeldOnce' /\ RedeemedClosed'
  <2>1. PICK c \in Ids : c = req[r].id
    BY <1>3 DEF Grant, Base, TypeOK
  <2>2. /\ c \in used \ Outstanding /\ used' = used /\ Outstanding' = Outstanding
        /\ grants' = [grants EXCEPT ![c] = grants[c] + 1] /\ raced' = raced
    BY <1>3, <2>1 DEF Grant, RedeemedClosed, Outstanding, rowVars, Base, TypeOK
  <2>3. req'[r].id = NoId /\ req'[r].phase = "idle" /\ \A q \in Requests \ {r} : req'[q] = req[q]
    BY <1>3, DoneFact DEF Grant, Idle
  <2>4. c \notin raced => grants[c] = 0 /\ \A q \in Requests \ {r} : req[q].id # c
    BY <2>1 DEF HeldOnce
  <2>5. HeldOnce'
    BY <1>0, <2>2, <2>3, <2>4 DEF HeldOnce, Base, TypeOK
  <2>6. RedeemedClosed'
    BY <2>2, <2>3 DEF RedeemedClosed
  <2> QED
    BY <2>5, <2>6
<1> QED
  BY <1>1, <1>2, <1>3, StepHolds

(* A challenge opens one session, unless two requests held it at once.     *)
THEOREM RedeemsOnce == Spec => []RedeemedOnceUnlessRaced
<1>1. Init => HeldOnce /\ RedeemedClosed
  BY ChallengeAssumption DEF Init, HeldOnce, RedeemedClosed, Idle
<1>2. HeldOnce => RedeemedOnceUnlessRaced
  BY DEF HeldOnce, RedeemedOnceUnlessRaced
<1> QED
  BY <1>1, <1>2, InitBase, NextBase, NextRedeemed, PTL DEF Spec

-----------------------------------------------------------------------------
(* Recovery codes.                                                         *)

Holders(k) == {r \in Requests : req[r].phase \in {"found", "spent", "redeemed"} /\ req[r].code = k}

(* A code that no two requests found unspent together is in the hands of   *)
(* one request at most, and once spent it is on no sheet again.            *)
CodeOnce ==
    \A k \in Codes \ shared :
        /\ \A r, q \in Holders(k) : r = q
        /\ \A r \in Holders(k) : /\ k \in minted /\ spends[k] = 0
                                 /\ req[r].phase # "found" => k \notin unspent
        /\ k \in unspent => spends[k] = 0
        /\ spends[k] <= 1 /\ (k \notin minted => spends[k] = 0)

MailedOK == \A r \in Requests : req[r].phase = "matched" => req[r].code = NoCode

CodeInv == CodeOnce /\ MailedOK

(* Steps that move no request towards holding a code and spend none.       *)
Idles ==
    /\ UNCHANGED <<unspent, minted, spends, shared>>
    /\ \A r \in Requests : \A k \in Codes :
          req'[r].phase \in {"found", "spent", "redeemed"} /\ req'[r].code = k =>
             req[r].phase = req'[r].phase /\ req[r].code = k
    /\ \A r \in Requests : req'[r].phase = "matched" =>
          req'[r].code = NoCode \/ (req[r].phase = "matched" /\ req'[r].code = req[r].code)

LEMMA IdlesKeep ==
  ASSUME CodeInv, Idles
  PROVE  CodeInv'
<1>1. \A k \in Codes : \A r \in Holders(k)' : r \in Holders(k) /\ req'[r].phase = req[r].phase
  BY DEF Idles, Holders
<1>2. CodeOnce'
  BY <1>1 DEF CodeInv, CodeOnce, Idles
<1>3. MailedOK'
  BY DEF CodeInv, MailedOK, Idles
<1> QED
  BY <1>2, <1>3 DEF CodeInv

LEMMA NextCodes == Base /\ CodeInv /\ [Next]_vars => CodeInv'
<1> SUFFICES ASSUME Base, CodeInv, [Next]_vars PROVE CodeInv'
  OBVIOUS
<1> USE ChallengeAssumption DEF rowVars, codeVars, historyVars
<1>1. ASSUME NEW r \in Requests, Count(r)  PROVE Idles
  BY <1>1, AtFact DEF Count, Idles, Phases
<1>2. ASSUME NEW r \in Requests, Charge(r)  PROVE Idles
  BY <1>2, AtFact, DoneFact DEF Charge, Idles, Idle, Phases
<1>3. ASSUME NEW r \in Requests, HangUp(r)  PROVE Idles
  BY <1>3, DoneFact DEF HangUp, Idles, Idle
<1>4. ASSUME NEW r \in Requests, NEW c \in Ids, Create(r, c)  PROVE Idles
  BY <1>4, DoneFact DEF Create, Idles, Idle
<1>5. ASSUME NEW r \in Requests, NEW c \in Ids, NEW k \in Codes \cup {NoCode},
             NEW right \in BOOLEAN, Load(r, c, k, right)
      PROVE Idles
  BY <1>5 DEF Load, Idles, Base, TypeOK
<1>6. ASSUME NEW r \in Requests, Consume(r)  PROVE Idles
  BY <1>6, AtFact DEF Consume, Idles, Phases, CodeInv, MailedOK
<1>7. ASSUME NEW r \in Requests, Match(r)  PROVE CodeInv'
  <2>1. CASE req[r].code \notin unspent
    <3>1. Done(r) /\ UNCHANGED <<unspent, minted, spends, shared>>
      BY <1>7, <2>1 DEF Match
    <3> QED
      BY <3>1, DoneFact, IdlesKeep DEF Idles, Idle
  <2>2. CASE req[r].code \in unspent
    <3>1. /\ UNCHANGED <<unspent, minted, spends>>
          /\ shared' = IF Finding(req[r].code) = {} THEN shared ELSE shared \cup {req[r].code}
          /\ req'[r].phase = "found" /\ req'[r].code = req[r].code
          /\ \A q \in Requests \ {r} : req'[q] = req[q]
      BY <1>7, <2>2, AtFact DEF Match, Phases
    <3>2. req[r].code \in Codes /\ req[r].code \in minted
      BY <2>2 DEF Base, TypeOK
    <3>3. ASSUME NEW k \in Codes \ shared', k = req[r].code
          PROVE  Holders(k)' = {r} /\ spends[k] = 0
      BY <2>2, <3>1, <3>3 DEF Holders, Finding, CodeInv, CodeOnce
    <3>4. ASSUME NEW k \in Codes, k # req[r].code
          PROVE  \A q \in Holders(k)' : q \in Holders(k) /\ req'[q].phase = req[q].phase
      BY <3>1, <3>4 DEF Holders
    <3>5. shared \subseteq shared'
      BY <3>1
    <3>6. CodeOnce'
      BY <3>1, <3>2, <3>3, <3>4, <3>5 DEF CodeInv, CodeOnce
    <3> QED
      BY <3>1, <3>6 DEF CodeInv, MailedOK
  <2> QED
    BY <2>1, <2>2
<1>8. ASSUME NEW r \in Requests, SpendCode(r)  PROVE CodeInv'
  <2>1. /\ unspent' = unspent \ {req[r].code} /\ UNCHANGED <<minted, spends, shared>>
        /\ req[r].phase = "found" /\ req'[r].phase = "spent" /\ req'[r].code = req[r].code
        /\ \A q \in Requests \ {r} : req'[q] = req[q]
    BY <1>8, AtFact DEF SpendCode, Spent, Phases
  <2>2. \A k \in Codes : Holders(k)' = Holders(k)
    BY <2>1 DEF Holders
  <2>3. CodeOnce'
    BY <2>1, <2>2 DEF CodeInv, CodeOnce, Holders
  <2> QED
    BY <2>1, <2>3 DEF CodeInv, MailedOK
<1>9. ASSUME NEW r \in Requests, SpendChallenge(r)  PROVE CodeInv'
  <2>1. /\ UNCHANGED <<unspent, minted, spends, shared>>
        /\ req[r].phase = "spent" /\ req'[r].phase = "redeemed" /\ req'[r].code = req[r].code
        /\ \A q \in Requests \ {r} : req'[q] = req[q]
    BY <1>9, AtFact DEF SpendChallenge, Phases
  <2>2. \A k \in Codes : Holders(k)' = Holders(k)
    BY <2>1 DEF Holders
  <2>3. CodeOnce'
    BY <2>1, <2>2 DEF CodeInv, CodeOnce, Holders
  <2> QED
    BY <2>1, <2>3 DEF CodeInv, MailedOK
<1>10. ASSUME NEW r \in Requests, Grant(r)  PROVE CodeInv'
  <2>1. /\ UNCHANGED <<unspent, minted, shared>> /\ req[r].phase = "redeemed"
        /\ spends' = IF req[r].code = NoCode THEN spends
                     ELSE [spends EXCEPT ![req[r].code] = spends[req[r].code] + 1]
        /\ req'[r].phase = "idle" /\ \A q \in Requests \ {r} : req'[q] = req[q]
    BY <1>10, DoneFact DEF Grant, Idle
  <2>2. \A k \in Codes : /\ Holders(k)' = Holders(k) \ {r}
                          /\ r \in Holders(k) <=> req[r].code = k
    BY <2>1 DEF Holders
  <2>3. spends \in [Codes -> Nat] /\ req[r].code \in Codes \cup {NoCode}
    BY DEF Base, TypeOK, RequestType
  <2>4. ASSUME NEW k \in Codes \ shared, k # req[r].code
        PROVE  spends'[k] = spends[k] /\ Holders(k)' = Holders(k)
    <3>1. Holders(k)' = Holders(k)
      BY <2>1, <2>4 DEF Holders
    <3>2. spends'[k] = spends[k]
      BY <2>1, <2>3, <2>4
    <3> QED
      BY <3>1, <3>2
  <2>5. ASSUME NEW k \in Codes \ shared, k = req[r].code
        PROVE  /\ spends'[k] = 1 /\ Holders(k)' = {}
               /\ k \notin unspent /\ k \in minted
    BY <2>1, <2>2, <2>3, <2>5 DEF CodeInv, CodeOnce
  <2>6. \A q \in Requests : q # r => req'[q] = req[q]
    BY <2>1
  <2>7. CodeOnce'
    BY <2>1, <2>2, <2>4, <2>5, <2>6 DEF CodeInv, CodeOnce, Holders
  <2> QED
    BY <2>1, <2>7 DEF CodeInv, MailedOK
<1>11. CASE Regenerate
  <2>1. PICK sheet \in SUBSET (Codes \ minted) : unspent' = sheet /\ minted' = minted \cup sheet
    BY <1>11 DEF Regenerate
  <2>2. UNCHANGED <<req, spends, shared>>
    BY <1>11 DEF Regenerate
  <2> QED
    BY <2>1, <2>2 DEF CodeInv, CodeOnce, MailedOK, Holders
<1>12. ASSUME NEW c \in Ids, Expire(c) \/ Age(c)  PROVE Idles
  BY <1>12 DEF Expire, Age, Idles
<1>13. CASE Purge
  BY <1>13, IdlesKeep DEF Purge, Idles
<1>14. CASE ClearSheet
  <2>1. unspent' = {} /\ UNCHANGED <<minted, req, spends, shared>>
    BY <1>14 DEF ClearSheet
  <2> QED
    BY <2>1 DEF CodeInv, CodeOnce, MailedOK, Holders
<1>15. CASE UNCHANGED vars
  BY <1>15, IdlesKeep DEF vars, Idles
<1> QED
  BY <1>1, <1>2, <1>3, <1>4, <1>5, <1>6, <1>7, <1>8, <1>9, <1>10, <1>11, <1>12, <1>13, <1>14,
     <1>15, IdlesKeep DEF Next

(* A recovery code opens one session, unless two requests found it unspent *)
(* at once.                                                                *)
THEOREM CodesOpenOnce == Spec => []RecoveryOnceUnlessShared
<1>1. Init => CodeInv
  BY ChallengeAssumption DEF Init, CodeInv, CodeOnce, MailedOK, Holders, Idle
<1>2. CodeInv => RecoveryOnceUnlessShared
  BY DEF CodeInv, CodeOnce, RecoveryOnceUnlessShared
<1> QED
  BY <1>1, <1>2, InitBase, NextBase, NextCodes, PTL DEF Spec

-----------------------------------------------------------------------------
(* The statements implement the promise of a one-time code.                *)

(* An id that was never given to a row has no attempts charged to it.      *)
FreshOK == \A c \in Ids \ used : attempts[c] = 0

LEMMA NextFresh == Base /\ FreshOK /\ [Next]_vars => FreshOK'
<1> SUFFICES ASSUME Base, FreshOK, [Next]_vars PROVE FreshOK'
  OBVIOUS
<1>1. used \subseteq used'
  BY StepUsed
<1>2. CASE attempts' = attempts
  BY <1>1, <1>2 DEF FreshOK
<1>3. ASSUME NEW r \in Requests, Charge(r)  PROVE FreshOK'
  BY <1>3 DEF Charge, FreshOK, Base, TypeOK
<1>4. attempts' = attempts \/ \E r \in Requests : Charge(r)
  BY DEF Next, vars, Count, Create, Load, Consume, Match, SpendCode, SpendChallenge, Grant,
         HangUp, Regenerate, ClearSheet, Expire, Age, Purge, rowVars
<1> QED
  BY <1>2, <1>3, <1>4

(* Steps that keep the sessions and issue nothing: all they can do to the  *)
(* promise is shut codes and let go of one.                                *)
LEMMA QuietRefines ==
  ASSUME Base, UNCHANGED <<used, grants>>, HeldBy' = HeldBy, Redeemable' = Redeemable
  PROVE  [Promise!Next]_(Promise!vars)
  BY DEF Promise!vars

LEMMA CloseRefines ==
  ASSUME Base, NEW c \in Ids, UNCHANGED <<used, grants>>, HeldBy' = HeldBy,
         Redeemable' \in {Redeemable, Redeemable \ {c}}
  PROVE  [Promise!Next]_(Promise!vars)
<1>1. CASE c \in Redeemable /\ Redeemable' = Redeemable \ {c}
  <2>1. Promise!Close(c)
    BY <1>1 DEF Promise!Close
  <2> QED
    BY <2>1 DEF Promise!Next
<1>2. CASE Redeemable' = Redeemable
  BY <1>2, QuietRefines
<1> QED
  BY <1>1, <1>2

LEMMA DoneLetsGo ==
  ASSUME Base, NEW r \in Requests, Done(r)
  PROVE  HeldBy' = [HeldBy EXCEPT ![r] = NoId]
<1>1. req'[r].id = NoId /\ \A q \in Requests \ {r} : req'[q] = req[q]
  BY DoneFact DEF Idle
<1> QED
  BY <1>1 DEF HeldBy

LEMMA GiveUpRefines ==
  ASSUME Base, NEW r \in Requests, UNCHANGED <<used, grants>>, Done(r),
         Redeemable' \in {Redeemable, Redeemable \ {req[r].id}}
  PROVE  [Promise!Next]_(Promise!vars)
<1>1. HeldBy' = [HeldBy EXCEPT ![r] = NoId]
  BY DoneLetsGo
<1>2. HeldBy[r] = req[r].id
  BY DEF HeldBy
<1>3. CASE req[r].id # NoId
  <2>1. Promise!GiveUp(r)
    BY <1>1, <1>2, <1>3 DEF Promise!GiveUp
  <2> QED
    BY <2>1 DEF Promise!Next
<1>4. CASE req[r].id = NoId
  <2>1. HeldBy' = HeldBy
    BY <1>1, <1>2, <1>4 DEF HeldBy
  <2>2. Redeemable' = Redeemable
    BY <1>4, ChallengeAssumption DEF Redeemable, Base, TypeOK
  <2> QED
    BY <2>1, <2>2, QuietRefines
<1> QED
  BY <1>3, <1>4

LEMMA StepRefines ==
  ASSUME Base, RedeemedClosed, FreshOK, [Next]_vars
  PROVE  [Promise!Next]_(Promise!vars)
<1> USE ChallengeAssumption DEF rowVars, codeVars, historyVars
<1>1. ASSUME NEW r \in Requests, NEW p \in Phases, At(r, p)  PROVE HeldBy' = HeldBy
  BY <1>1, AtFact DEF HeldBy
<1>2. ASSUME NEW r \in Requests, Count(r) \/ Match(r) \/ SpendCode(r) \/ HangUp(r)
      PROVE  [Promise!Next]_(Promise!vars)
  <2>1. UNCHANGED <<used, grants>> /\ Redeemable' = Redeemable
    BY <1>2 DEF Count, Match, SpendCode, HangUp, Redeemable, Closed
  <2>2. Done(r) \/ HeldBy' = HeldBy
    BY <1>1, <1>2 DEF Count, Match, SpendCode, HangUp, Phases
  <2> QED
    BY <2>1, <2>2, QuietRefines, GiveUpRefines
<1>3. ASSUME NEW r \in Requests, NEW c \in Ids, Create(r, c)
      PROVE  [Promise!Next]_(Promise!vars)
  <2>1. c \notin used /\ used' = used \cup {c} /\ grants' = grants
    BY <1>3 DEF Create
  <2>2. HeldBy' = HeldBy
    BY <1>3, DoneFact DEF Create, HeldBy, Idle, Base, HoldsOK
  <2>3. Redeemable' = {c}
    <3>1. ~ Closed(c)'
      BY <1>3, <2>1 DEF Create, Closed, Retired, Outstanding, FreshOK, Base, TypeOK
    <3>2. ASSUME NEW d \in used', d # c  PROVE Closed(d)'
      BY <1>3, <3>2 DEF Create, Closed, Retired, Outstanding
    <3> QED
      BY <2>1, <3>1, <3>2 DEF Redeemable
  <2>4. Promise!Issue(c)
    BY <2>1, <2>2, <2>3 DEF Promise!Issue
  <2> QED
    BY <2>4 DEF Promise!Next
<1>4. ASSUME NEW r \in Requests, NEW c \in Ids, NEW k \in Codes \cup {NoCode},
             NEW right \in BOOLEAN, Load(r, c, k, right)
      PROVE  [Promise!Next]_(Promise!vars)
  <2>1. /\ c \in Redeemable /\ Redeemable' = Redeemable /\ UNCHANGED <<used, grants>>
    BY <1>4 DEF Load, Open, Redeemable, Closed, Base, TypeOK
  <2>2. HeldBy[r] = NoId /\ HeldBy' = [HeldBy EXCEPT ![r] = c]
    BY <1>4 DEF Load, HeldBy, Base, TypeOK, HoldsOK
  <2>3. Promise!Claim(r, c)
    BY <2>1, <2>2 DEF Promise!Claim
  <2> QED
    BY <2>3 DEF Promise!Next
<1>5. ASSUME NEW r \in Requests, Charge(r)  PROVE [Promise!Next]_(Promise!vars)
  <2>1. PICK c \in Ids : c = req[r].id
    BY <1>5 DEF Charge, Base, TypeOK
  <2>2. UNCHANGED <<used, grants, made, consumed, expired>>
    BY <1>5 DEF Charge
  <2>3. \A d \in Ids : d # c => (Closed(d)' <=> Closed(d))
    BY <1>5, <2>1, <2>2 DEF Charge, Closed, Base, TypeOK
  <2>4. Closed(c) => Closed(c)'
    BY <1>5, <2>1, <2>2 DEF Charge, Charged, Closed, Base, TypeOK
  <2>5. Redeemable' \in {Redeemable, Redeemable \ {c}}
    BY <2>2, <2>3, <2>4 DEF Redeemable, Base, TypeOK
  <2>6. Done(r) \/ HeldBy' = HeldBy
    BY <1>1, <1>5 DEF Charge, Phases
  <2> QED
    BY <2>1, <2>2, <2>5, <2>6, CloseRefines, GiveUpRefines
<1>6. ASSUME NEW r \in Requests, Consume(r) \/ SpendChallenge(r)
      PROVE  [Promise!Next]_(Promise!vars)
  <2>1. PICK c \in Ids : c = req[r].id
    BY <1>6 DEF Consume, SpendChallenge, Base, TypeOK
  <2>2. UNCHANGED <<used, grants, made, expired, attempts>> /\ HeldBy' = HeldBy
    BY <1>1, <1>6 DEF Consume, SpendChallenge, Phases
  <2>3. consumed' \in {consumed, consumed \cup {c}}
    BY <1>6, <2>1 DEF Consume, SpendChallenge, ConsumeRow
  <2>4. Redeemable' \in {Redeemable, Redeemable \ {c}}
    BY <2>2, <2>3 DEF Redeemable, Closed
  <2> QED
    BY <2>2, <2>4, CloseRefines
<1>7. ASSUME NEW r \in Requests, Grant(r)  PROVE [Promise!Next]_(Promise!vars)
  <2>1. PICK c \in Ids : c = req[r].id /\ c \in used \ Outstanding
    BY <1>7 DEF Grant, Base, TypeOK, RedeemedClosed
  <2>2. c \notin Redeemable
    BY <2>1 DEF Redeemable, Closed, Outstanding
  <2>3. used' = used /\ Redeemable' = Redeemable
    BY <1>7 DEF Grant, Redeemable, Closed
  <2>4. HeldBy[r] = c /\ HeldBy' = [HeldBy EXCEPT ![r] = NoId]
    BY <1>7, <2>1, DoneLetsGo DEF Grant, HeldBy
  <2>5. grants' = [grants EXCEPT ![c] = @ + 1]
    BY <1>7, <2>1 DEF Grant
  <2>6. Promise!Redeem(r)
    BY <2>1, <2>2, <2>3, <2>4, <2>5 DEF Promise!Redeem
  <2> QED
    BY <2>6 DEF Promise!Next
<1>8. CASE Regenerate \/ ClearSheet \/ UNCHANGED vars
  <2>1. UNCHANGED <<used, grants, req, made, consumed, expired, attempts>>
    BY <1>8 DEF Regenerate, ClearSheet, vars
  <2> QED
    BY <2>1, QuietRefines DEF HeldBy, Redeemable, Closed
<1>9. ASSUME NEW c \in Ids, Expire(c) \/ Age(c)  PROVE [Promise!Next]_(Promise!vars)
  <2>1. UNCHANGED <<used, grants, req, made, consumed, attempts>>
    BY <1>9 DEF Expire, Age
  <2>2. expired' \in {expired, expired \cup {c}}
    BY <1>9 DEF Expire, Age
  <2>3. Redeemable' \in {Redeemable, Redeemable \ {c}}
    BY <2>1, <2>2 DEF Redeemable, Closed
  <2> QED
    BY <2>1, <2>3, CloseRefines DEF HeldBy
<1>10. CASE Purge
  <2>1. UNCHANGED <<used, grants, req>>
    BY <1>10 DEF Purge
  <2>2. Redeemable' = Redeemable
    BY <1>10 DEF Purge, Redeemable, Closed
  <2> QED
    BY <2>1, <2>2, QuietRefines DEF HeldBy
<1> QED
  BY <1>2, <1>3, <1>4, <1>5, <1>6, <1>7, <1>8, <1>9, <1>10 DEF Next

(* The rows and statements of sign-in codes implement the one-time code of *)
(* OneTimeCode: whatever the order of the statements and wherever a        *)
(* request is cut short, every step of the server is a step of the promise *)
(* or leaves it as it is.                                                  *)
THEOREM Keeps == Spec => KeepsPromise
<1>1. Init => Promise!Init
  BY ChallengeAssumption DEF Init, Promise!Init, Redeemable, HeldBy, Idle
<1>2. Init => HeldOnce /\ RedeemedClosed /\ FreshOK
  BY ChallengeAssumption DEF Init, HeldOnce, RedeemedClosed, FreshOK, Idle
<1> QED
  BY <1>1, <1>2, InitBase, NextBase, NextRedeemed, NextFresh, StepRefines, PTL
     DEF Spec, KeepsPromise, Promise!Spec

LEMMA DeadByPromise ==
  ASSUME Base, [Promise!Next]_(Promise!vars)
  PROVE  Dead \subseteq Dead' /\ \A c \in Dead : grants'[c] = grants[c]
<1> DEFINE Over == {c \in used : c \notin Redeemable /\ \A p \in Requests : HeldBy[p] # c}
<1>1. Dead = Over
  BY DEF Dead, Redeemable, HeldBy, Holding
<1>2. Dead' = Over'
  BY DEF Dead, Redeemable, HeldBy, Holding
<1>3. /\ HeldBy \in [Requests -> Ids \cup {NoId}] /\ grants \in [Ids -> Nat]
      /\ used \subseteq Ids /\ NoId \notin Ids /\ Redeemable \subseteq used
  BY ChallengeAssumption DEF Base, TypeOK, RequestType, HeldBy, Redeemable
<1>4. ASSUME NEW c \in Ids, Promise!Issue(c) \/ Promise!Close(c)
      PROVE  Over \subseteq Over' /\ grants' = grants
  BY <1>3, <1>4 DEF Promise!Issue, Promise!Close
<1>5. ASSUME NEW p \in Requests, Promise!GiveUp(p)
      PROVE  Over \subseteq Over' /\ grants' = grants
  BY <1>3, <1>5 DEF Promise!GiveUp
<1>6. ASSUME NEW p \in Requests, Promise!Redeem(p)
      PROVE  Over \subseteq Over' /\ \A c \in Over : grants'[c] = grants[c]
  BY <1>3, <1>6 DEF Promise!Redeem
<1>7. ASSUME NEW p \in Requests, NEW c \in Ids, Promise!Claim(p, c)
      PROVE  Over \subseteq Over' /\ grants' = grants
  BY <1>3, <1>7 DEF Promise!Claim
<1>8. CASE UNCHANGED Promise!vars
  BY <1>1, <1>2, <1>8 DEF Promise!vars
<1> QED
  BY <1>1, <1>2, <1>4, <1>5, <1>6, <1>7, <1>8 DEF Promise!Next

(* A code that is retired, spent, outlived or guessed at too often, and    *)
(* held by no request, stays so and opens no further session: the promise  *)
(* says so, and the statements keep it.                                    *)
THEOREM DeadStays == Spec => DeadOpensNothing
<1>1. Base /\ RedeemedClosed /\ FreshOK /\ [Next]_vars
        => [Dead \subseteq Dead' /\ \A c \in Dead : grants'[c] = grants[c]]_vars
  BY StepRefines, DeadByPromise
<1>2. Init => HeldOnce /\ RedeemedClosed /\ FreshOK
  BY ChallengeAssumption DEF Init, HeldOnce, RedeemedClosed, FreshOK, Idle
<1> QED
  BY <1>1, <1>2, InitBase, NextBase, NextRedeemed, NextFresh, PTL DEF Spec, DeadOpensNothing

-----------------------------------------------------------------------------
(* The cap on messages.                                                    *)

Counted == recent \cap made
Forgot == recent \ made

Most == MaxSends + Cardinality(Requests) - 1

LEMMA FiniteSends ==
  ASSUME Base
  PROVE  /\ IsFiniteSet(AboutToSend) /\ IsFiniteSet(Counted) /\ IsFiniteSet(Forgot)
         /\ IsFiniteSet(Requests)
         /\ Cardinality(AboutToSend) \in Nat /\ Cardinality(Counted) \in Nat
         /\ Cardinality(Forgot) \in Nat
         /\ Cardinality(Requests) \in Nat /\ Cardinality(AboutToSend) <= Cardinality(Requests)
<1>1. AboutToSend \subseteq Requests /\ Counted \subseteq Ids /\ Forgot \subseteq Ids
  BY DEF AboutToSend, Counted, Forgot, Base, TypeOK
<1> QED
  BY <1>1, FS_Subset, FS_CardinalityType, ChallengeAssumption

LEMMA SendsParts ==
  SendsBounded <=> /\ Cardinality(Counted) + Cardinality(AboutToSend) <= Most
                   /\ Cardinality(Forgot) <= Most
  BY DEF SendsBounded, Counted, Forgot, Most

(* A step that sends nothing and forgets nothing.                          *)
LEMMA QuietSends ==
  ASSUME Base, SendsBounded, Counted' \subseteq Counted, Forgot' \subseteq Forgot,
         AboutToSend' \subseteq AboutToSend
  PROVE  SendsBounded'
<1>1. /\ Cardinality(Counted') <= Cardinality(Counted)
      /\ Cardinality(Forgot') <= Cardinality(Forgot)
      /\ Cardinality(AboutToSend') <= Cardinality(AboutToSend)
  BY FiniteSends, FS_Subset
<1>2. /\ Cardinality(Counted') \in Nat /\ Cardinality(Forgot') \in Nat
      /\ Cardinality(AboutToSend') \in Nat
  BY FiniteSends, FS_Subset, FS_CardinalityType
<1>3. Most \in Int /\ Most' = Most
  BY FiniteSends, ChallengeAssumption DEF Most
<1>4. /\ Cardinality(Counted') + Cardinality(AboutToSend') <= Most
      /\ Cardinality(Forgot') <= Most
  BY <1>1, <1>2, <1>3, FiniteSends, SendsParts
<1>5. SendsBounded' <=> /\ Cardinality(Counted') + Cardinality(AboutToSend') <= Most
                        /\ Cardinality(Forgot') <= Most
  BY DEF SendsBounded, Counted, Forgot, Most
<1> QED
  BY <1>4, <1>5

LEMMA NextSends == Base /\ SendsBounded /\ [Next]_vars => SendsBounded'
<1> SUFFICES ASSUME Base, SendsBounded, [Next]_vars PROVE SendsBounded'
  OBVIOUS
<1>0. /\ Most \in Int /\ Cardinality(Forgot) <= Most
      /\ Cardinality(Counted) + Cardinality(AboutToSend) <= Most
  BY FiniteSends, SendsParts, ChallengeAssumption DEF Most
<1>1. SendsBounded' <=> /\ Cardinality(Counted') + Cardinality(AboutToSend') <= Most
                        /\ Cardinality(Forgot') <= Most
  BY DEF SendsBounded, Counted, Forgot, Most
<1>3. ASSUME NEW r \in Requests, Count(r)  PROVE SendsBounded'
  <2>1. Counted' = Counted /\ Forgot' = Forgot /\ Cardinality(Counted) < MaxSends
    BY <1>3 DEF Count, MaySend, Counted, Forgot, rowVars
  <2>2. Cardinality(AboutToSend') <= Cardinality(Requests) /\ Cardinality(AboutToSend') \in Nat
    <3>1. AboutToSend' \subseteq Requests
      BY DEF AboutToSend
    <3> QED
      BY <3>1, FiniteSends, FS_Subset, FS_CardinalityType
  <2>3. Cardinality(Counted) + Cardinality(AboutToSend') <= Most
    BY <2>1, <2>2, FiniteSends, ChallengeAssumption DEF Most
  <2> QED
    BY <1>0, <1>1, <2>1, <2>3
<1>4. ASSUME NEW r \in Requests, NEW c \in Ids, Create(r, c)  PROVE SendsBounded'
  <2>1. Counted' = Counted \cup {c} /\ Forgot' = Forgot
    BY <1>4 DEF Create, Counted, Forgot, Base, TypeOK
  <2>2. AboutToSend' = AboutToSend \ {r} /\ r \in AboutToSend
    BY <1>4, DoneFact DEF Create, AboutToSend, Idle
  <2>3. Cardinality(AboutToSend') = Cardinality(AboutToSend) - 1
    BY <2>2, FiniteSends, FS_RemoveElement
  <2>4. Cardinality(Counted \cup {c}) = IF c \in Counted THEN Cardinality(Counted)
                                        ELSE Cardinality(Counted) + 1
    BY FiniteSends, FS_AddElement
  <2>5. Cardinality(Counted') <= Cardinality(Counted) + 1 /\ Cardinality(Counted') \in Nat
    BY <2>1, <2>4, FiniteSends
  <2>6. Cardinality(Counted') + Cardinality(AboutToSend') <= Most
    BY <1>0, <2>3, <2>5, FiniteSends
  <2> QED
    BY <1>0, <1>1, <2>1, <2>6
<1>5. ASSUME NEW r \in Requests, Charge(r) \/ Consume(r) \/ Match(r) \/ SpendCode(r)
                                  \/ SpendChallenge(r) \/ Grant(r) \/ HangUp(r)
      PROVE  SendsBounded'
  <2>1. Counted' = Counted /\ Forgot' = Forgot
    BY <1>5 DEF Charge, Consume, Match, SpendCode, SpendChallenge, Grant, HangUp, Counted,
                Forgot, rowVars
  <2>2. ASSUME Done(r)  PROVE AboutToSend' \subseteq AboutToSend
    BY <2>2, DoneFact DEF AboutToSend, Idle
  <2>3. ASSUME NEW p \in Phases \ {"cleared"}, At(r, p)  PROVE AboutToSend' \subseteq AboutToSend
    BY <2>3, AtFact DEF AboutToSend
  <2>4. Done(r) \/ \E p \in Phases \ {"cleared"} : At(r, p)
    BY <1>5 DEF Charge, Consume, Match, SpendCode, SpendChallenge, Grant, HangUp, Phases
  <2> QED
    BY <2>1, <2>2, <2>3, <2>4, QuietSends
<1>6. ASSUME NEW r \in Requests, NEW c \in Ids, NEW k \in Codes \cup {NoCode},
             NEW right \in BOOLEAN, Load(r, c, k, right)
      PROVE  SendsBounded'
  <2>1. Counted' = Counted /\ Forgot' = Forgot /\ AboutToSend' \subseteq AboutToSend
    BY <1>6 DEF Load, Counted, Forgot, AboutToSend, rowVars, Base, TypeOK
  <2> QED
    BY <2>1, QuietSends
<1>7. CASE Regenerate \/ ClearSheet \/ UNCHANGED vars
  BY <1>7, QuietSends DEF Regenerate, ClearSheet, vars, Counted, Forgot, AboutToSend, rowVars
<1>8. ASSUME NEW c \in Ids, Expire(c) \/ Age(c)  PROVE SendsBounded'
  BY <1>8, QuietSends DEF Expire, Age, Counted, Forgot, AboutToSend
<1>9. CASE Purge
  (* Whatever the sweep forgets was counted until then.                    *)
  <2>1. Counted' \subseteq Counted /\ Forgot' \subseteq Counted /\ AboutToSend' = AboutToSend
    BY <1>9 DEF Purge, Counted, Forgot, AboutToSend
  <2>2. /\ Cardinality(Counted') <= Cardinality(Counted)
        /\ Cardinality(Forgot') <= Cardinality(Counted)
    BY <2>1, FiniteSends, FS_Subset
  <2>3. Cardinality(Counted') \in Nat /\ Cardinality(Forgot') \in Nat
    BY <2>1, FiniteSends, FS_Subset, FS_CardinalityType
  <2>4. Cardinality(Counted') + Cardinality(AboutToSend) <= Most /\ Cardinality(Forgot') <= Most
    BY <1>0, <2>2, <2>3, FiniteSends
  <2> QED
    BY <1>1, <2>1, <2>4
<1> QED
  BY <1>3, <1>4, <1>5, <1>6, <1>7, <1>8, <1>9 DEF Next

(* Of the messages of an hour, those whose rows are left and those about   *)
(* to be sent pass the cap by at most as many as there are concurrent      *)
(* requests, less one, and so do those a sweep has forgotten.              *)
THEOREM SendsStayBounded == Spec => []SendsBounded
<1>1. Init => SendsBounded
  <2> SUFFICES ASSUME Init PROVE SendsBounded
    OBVIOUS
  <2>1. Counted = {} /\ Forgot = {} /\ AboutToSend = {}
    BY DEF Init, Idle, Counted, Forgot, AboutToSend
  <2>2. Cardinality({}) = 0 /\ Cardinality(Requests) \in Nat
    BY FS_EmptySet, FS_CardinalityType, ChallengeAssumption
  <2>3. /\ Cardinality(Counted) + Cardinality(AboutToSend) <= Most
        /\ Cardinality(Forgot) <= Most
    BY <2>1, <2>2, ChallengeAssumption DEF Most
  <2> QED
    BY <2>3, SendsParts
<1> QED
  BY <1>1, InitBase, NextBase, NextSends, PTL DEF Spec

(* The messages really sent within any window, with or without their rows, *)
(* and those about to be: at most twice as many.  ChallengesHour.cfg shows *)
(* that the cap alone is not enough.                                       *)
HourBounded == Cardinality(recent) + Cardinality(AboutToSend) <= 2 * Most

THEOREM HourStaysBounded == Spec => []HourBounded
<1>1. Base /\ SendsBounded => HourBounded
  <2> SUFFICES ASSUME Base, SendsBounded PROVE HourBounded
    OBVIOUS
  <2>1. Cardinality(recent) = Cardinality(Counted) + Cardinality(Forgot)
    <3>1. recent = Counted \cup Forgot /\ Counted \cap Forgot = {}
      BY DEF Counted, Forgot
    <3>2. Cardinality(Counted \cup Forgot) =
            Cardinality(Counted) + Cardinality(Forgot) - Cardinality(Counted \cap Forgot)
      BY FiniteSends, FS_Union
    <3>3. Cardinality(Counted \cap Forgot) = 0
      BY <3>1, FS_EmptySet
    <3>4. Cardinality(recent) = Cardinality(Counted \cup Forgot)
      BY <3>1
    <3> QED
      BY <3>2, <3>3, <3>4, FiniteSends
  <2>2. Most \in Int
    BY FiniteSends, ChallengeAssumption DEF Most
  <2> QED
    BY <2>1, <2>2, FiniteSends, SendsParts DEF HourBounded
<1> QED
  BY <1>1, InitBase, NextBase, SendsStayBounded, PTL DEF Spec

-----------------------------------------------------------------------------
(* The cap on guesses.                                                     *)

(* The requests that have read the row of c and not yet charged it.        *)
Uncharged(c) == {r \in Requests : req[r].phase = "loaded" /\ req[r].id = c}

(* While its row is there, a challenge counts the guesses compared; those  *)
(* still to be compared were let in when the count was below the cap.      *)
CountsOK ==
    \A c \in Ids :
        /\ c \in made => compared[c] = attempts[c]
        /\ c \notin used => compared[c] = 0
        /\ compared[c] + Cardinality(Uncharged(c)) < MaxAttempts + Cardinality(Requests)

LEMMA FiniteUncharged ==
  /\ Cardinality(Requests) \in Nat
  /\ \A c \in Ids : /\ IsFiniteSet(Uncharged(c)) /\ Cardinality(Uncharged(c)) \in Nat
                    /\ Cardinality(Uncharged(c)) <= Cardinality(Requests)
<1>1. \A c \in Ids : Uncharged(c) \subseteq Requests
  BY DEF Uncharged
<1> QED
  BY <1>1, FS_Subset, FS_CardinalityType, ChallengeAssumption

(* A step that compares no guess and lets no request read a row.           *)
LEMMA UnchargedShrinks ==
  ASSUME NEW c \in Ids, Uncharged(c)' \subseteq Uncharged(c)
  PROVE  /\ Cardinality(Uncharged(c)') \in Nat
         /\ Cardinality(Uncharged(c)') <= Cardinality(Uncharged(c))
<1>1. IsFiniteSet(Uncharged(c))
  BY FiniteUncharged
<1>2. IsFiniteSet(Uncharged(c)') /\ Cardinality(Uncharged(c)') <= Cardinality(Uncharged(c))
  BY <1>1, FS_Subset
<1> QED
  BY <1>2, FS_CardinalityType

LEMMA QuietCounts ==
  ASSUME Base, CountsOK, UNCHANGED <<compared, attempts>>, used \subseteq used',
         \A c \in made' : c \in made \/ (c \notin used /\ attempts[c] = 0),
         \A c \in Ids : Uncharged(c)' \subseteq Uncharged(c)
  PROVE  CountsOK'
<1>1. ASSUME NEW c \in Ids
      PROVE  compared[c] + Cardinality(Uncharged(c)') < MaxAttempts + Cardinality(Requests)
  <2>1. /\ compared[c] \in Nat /\ MaxAttempts \in Nat
        /\ compared[c] + Cardinality(Uncharged(c)) < MaxAttempts + Cardinality(Requests)
    BY ChallengeAssumption DEF Base, TypeOK, CountsOK
  <2>2. /\ Cardinality(Uncharged(c)') \in Nat /\ Cardinality(Uncharged(c)) \in Nat
        /\ Cardinality(Uncharged(c)') <= Cardinality(Uncharged(c))
        /\ Cardinality(Requests) \in Nat
    BY UnchargedShrinks, FiniteUncharged
  <2> QED
    BY <2>1, <2>2
<1>2. ASSUME NEW c \in Ids
      PROVE  /\ c \in made' => compared[c] = attempts[c]
             /\ c \notin used' => compared[c] = 0
  BY DEF CountsOK
<1>3. \A c \in Ids : Cardinality(Uncharged(c)') = Cardinality(Uncharged(c))'
  OBVIOUS
<1> QED
  BY <1>1, <1>2, <1>3 DEF CountsOK

LEMMA NextCounts == Base /\ FreshOK /\ CountsOK /\ [Next]_vars => CountsOK'
<1> SUFFICES ASSUME Base, FreshOK, CountsOK, [Next]_vars PROVE CountsOK'
  OBVIOUS
<1> USE DEF rowVars, codeVars, historyVars
<1>0. used \subseteq used'
  BY StepUsed
<1>1. ASSUME NEW r \in Requests, Done(r), NEW c \in Ids  PROVE Uncharged(c)' \subseteq Uncharged(c)
  BY <1>1, DoneFact DEF Uncharged, Idle
<1>2. ASSUME NEW r \in Requests, NEW p \in Phases \ {"loaded"}, At(r, p), NEW c \in Ids
      PROVE Uncharged(c)' \subseteq Uncharged(c)
  BY <1>2, AtFact DEF Uncharged
<1>3. ASSUME NEW r \in Requests,
             Count(r) \/ Consume(r) \/ Match(r) \/ SpendCode(r) \/ SpendChallenge(r)
               \/ Grant(r) \/ HangUp(r)
      PROVE  CountsOK'
  <2>1. UNCHANGED <<made, compared, attempts>>
    BY <1>3 DEF Count, Consume, Match, SpendCode, SpendChallenge, Grant, HangUp
  <2>2. Done(r) \/ \E p \in Phases \ {"loaded"} : At(r, p)
    BY <1>3 DEF Count, Consume, Match, SpendCode, SpendChallenge, Grant, HangUp, Phases
  <2>3. \A c \in Ids : Uncharged(c)' \subseteq Uncharged(c)
    BY <1>1, <1>2, <2>2
  <2> QED
    BY <1>0, <2>1, <2>3, QuietCounts
<1>4. ASSUME NEW r \in Requests, NEW c \in Ids, Create(r, c)  PROVE CountsOK'
  <2>1. UNCHANGED <<compared, attempts>> /\ made' = made \cup {c} /\ c \notin used
    BY <1>4 DEF Create
  <2>2. \A d \in Ids : Uncharged(d)' \subseteq Uncharged(d)
    BY <1>1, <1>4 DEF Create
  <2>3. attempts[c] = 0
    BY <2>1 DEF FreshOK
  <2> QED
    BY <1>0, <2>1, <2>2, <2>3, QuietCounts
<1>5. ASSUME NEW r \in Requests, NEW c \in Ids, NEW k \in Codes \cup {NoCode},
             NEW right \in BOOLEAN, Load(r, c, k, right)
      PROVE  CountsOK'
  <2>1. /\ UNCHANGED <<made, used, compared, attempts>>
        /\ c \in made /\ attempts[c] < MaxAttempts
    BY <1>5 DEF Load, Open
  <2>2. \A d \in Ids \ {c} : Uncharged(d)' = Uncharged(d)
    BY <1>5 DEF Load, Uncharged, Base, TypeOK
  <2>3. Uncharged(c)' \subseteq Requests
    BY DEF Uncharged
  <2>4. Cardinality(Uncharged(c)') \in Nat /\ Cardinality(Uncharged(c)') <= Cardinality(Requests)
    BY <2>3, FS_Subset, FS_CardinalityType, ChallengeAssumption
  <2>5. compared[c] + Cardinality(Uncharged(c)') < MaxAttempts + Cardinality(Requests)
    <3>1. compared[c] < MaxAttempts /\ compared[c] \in Nat
      BY <2>1 DEF CountsOK, Base, TypeOK
    <3> QED
      BY <2>4, <3>1, FiniteUncharged, ChallengeAssumption
  <2> QED
    BY <2>1, <2>2, <2>5 DEF CountsOK
<1>6. ASSUME NEW r \in Requests, Charge(r)  PROVE CountsOK'
  <2>1. PICK c \in Ids : c = req[r].id
    BY <1>6 DEF Charge, Base, TypeOK
  <2>2. /\ UNCHANGED <<made, used>> /\ c \in used /\ made \subseteq used
        /\ compared' = [compared EXCEPT ![c] = compared[c] + 1]
        /\ attempts' = IF c \in made THEN [attempts EXCEPT ![c] = attempts[c] + 1] ELSE attempts
    BY <1>6, <2>1 DEF Charge, Charged, Base, TypeOK
  <2>3. /\ req'[r].phase # "loaded" /\ req[r].phase = "loaded"
        /\ \A q \in Requests \ {r} : req'[q] = req[q]
    BY <1>6, AtFact, DoneFact DEF Charge, Idle, Phases
  <2>4. Uncharged(c)' = Uncharged(c) \ {r} /\ r \in Uncharged(c)
    BY <2>1, <2>3 DEF Uncharged
  <2>5. \A d \in Ids \ {c} : Uncharged(d)' = Uncharged(d)
    BY <2>1, <2>3 DEF Uncharged
  <2>6. Cardinality(Uncharged(c)') = Cardinality(Uncharged(c)) - 1
    BY <2>4, FiniteUncharged, FS_RemoveElement
  <2>7. /\ compared \in [Ids -> Nat] /\ attempts \in [Ids -> Nat]
        /\ Cardinality(Uncharged(c)) \in Nat
    BY FiniteUncharged DEF Base, TypeOK
  <2>8. compared'[c] + Cardinality(Uncharged(c)') = compared[c] + Cardinality(Uncharged(c))
    BY <2>2, <2>6, <2>7
  <2>9. \A d \in Ids : compared'[d] + Cardinality(Uncharged(d)')
                         < MaxAttempts + Cardinality(Requests)
    BY <2>2, <2>5, <2>7, <2>8 DEF CountsOK
  <2>10. \A d \in Ids : /\ d \in made' => compared'[d] = attempts'[d]
                        /\ d \notin used' => compared'[d] = 0
    BY <2>2, <2>7 DEF CountsOK
  <2> QED
    BY <2>9, <2>10 DEF CountsOK
<1>7. ASSUME NEW c \in Ids, Expire(c) \/ Age(c)  PROVE CountsOK'
  <2>1. UNCHANGED <<made, compared, attempts, req>>
    BY <1>7 DEF Expire, Age
  <2> QED
    BY <1>0, <2>1, QuietCounts DEF Uncharged
<1>8. CASE Regenerate \/ ClearSheet \/ UNCHANGED vars
  <2>1. UNCHANGED <<made, compared, attempts, req>>
    BY <1>8 DEF Regenerate, ClearSheet, vars
  <2> QED
    BY <1>0, <2>1, QuietCounts DEF Uncharged
<1>9. CASE Purge
  <2>1. UNCHANGED <<compared, attempts, req>> /\ made' \subseteq made
    BY <1>9 DEF Purge
  <2> QED
    BY <1>0, <2>1, QuietCounts DEF Uncharged
<1> QED
  BY <1>3, <1>4, <1>5, <1>6, <1>7, <1>8, <1>9 DEF Next

(* Concurrent requests pass the cap on guesses at a challenge by at most   *)
(* as many as they are, less one, whether they give a mailed code or a     *)
(* recovery code and even if the row is swept away under them.             *)
THEOREM GuessesStayBounded == Spec => []GuessesBounded
<1>1. Init => CountsOK
  <2> SUFFICES ASSUME Init PROVE CountsOK
    OBVIOUS
  <2>1. \A c \in Ids : Uncharged(c) = {}
    BY DEF Init, Idle, Uncharged
  <2>2. Cardinality({}) = 0 /\ Cardinality(Requests) \in Nat
    BY FS_EmptySet, FS_CardinalityType, ChallengeAssumption
  <2>3. made = {} /\ \A c \in Ids : compared[c] = 0
    BY DEF Init
  <2>4. ASSUME NEW c \in Ids
        PROVE  compared[c] + Cardinality(Uncharged(c)) < MaxAttempts + Cardinality(Requests)
    <3>1. Cardinality(Uncharged(c)) = 0 /\ compared[c] = 0
      BY <2>1, <2>2, <2>3
    <3> QED
      BY <2>2, <3>1, ChallengeAssumption
  <2> QED
    BY <2>3, <2>4 DEF CountsOK
<1>2. Base /\ CountsOK => GuessesBounded
  <2> SUFFICES ASSUME Base, CountsOK, NEW c \in Ids
               PROVE  compared[c] < MaxAttempts + Cardinality(Requests)
    BY DEF GuessesBounded
  <2> QED
    BY FiniteUncharged, ChallengeAssumption DEF CountsOK, Base, TypeOK
<1>3. Init => FreshOK
  BY DEF Init, FreshOK
<1> QED
  BY <1>1, <1>2, <1>3, InitBase, NextBase, NextFresh, NextCounts, PTL DEF Spec

=============================================================================
