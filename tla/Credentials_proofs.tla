-------------------------- MODULE Credentials_proofs --------------------------
(***************************************************************************)
(* Proofs about one account's credentials, for any number of addresses,    *)
(* devices and simultaneous requests.                                      *)
(***************************************************************************)
EXTENDS Credentials, TLAPS

LEMMA InitTypeOK == Init => TypeOK
<1> SUFFICES ASSUME Init PROVE TypeOK
  OBVIOUS
<1>1. Idle \in RequestType /\ Idle.phase \notin Addressing
  BY DEF Idle, Fresh, RequestType, Ops, Phases, Addressing
<1>2. req = [r \in Requests |-> Idle]
  BY DEF Init
<1> QED
  BY <1>1, <1>2, CredentialAssumption DEF Init, TypeOK

(* A request goes to a phase where its address does not matter, or keeps   *)
(* the address it has.                                                     *)
RequestsOK ==
    /\ req \in [Requests -> RequestType]
    /\ \A r \in Requests : req[r].phase \in Addressing => req[r].email \in Emails

LEMMA DoneOK ==
  ASSUME RequestsOK, NEW r \in Requests, Done(r)
  PROVE  RequestsOK'
  BY DEF RequestsOK, Done, Idle, Fresh, RequestType, Ops, Phases, Addressing

LEMMA BeginOK ==
  ASSUME RequestsOK, NEW r \in Requests, NEW op \in Ops, NEW phase \in Phases, NEW e \in Emails,
         Begin(r, op, phase, e)
  PROVE  RequestsOK'
  BY DEF RequestsOK, Begin, Fresh, RequestType

LEMMA AtOK ==
  ASSUME RequestsOK, NEW r \in Requests, NEW phase \in Phases,
         req[r].phase \in Addressing \/ phase \notin Addressing,
         req' = [req EXCEPT ![r] = At(r, phase)]
  PROVE  RequestsOK'
  BY DEF RequestsOK, At, RequestType

LEMMA UpdatedOK ==
  ASSUME RequestsOK, NEW r \in Requests, Updated(r)
  PROVE  RequestsOK'
  BY DEF RequestsOK, Updated, Fresh, RequestType, Phases, Addressing

LEMMA MovedOK ==
  ASSUME RequestsOK, NEW r \in Requests, Moved(r)
  PROVE  RequestsOK'
  BY DEF RequestsOK, Moved, Relying, Fresh, RequestType, Ops, Phases, Addressing

LEMMA NextTypeOK == TypeOK /\ [Next]_vars => TypeOK'
<1> SUFFICES ASSUME TypeOK, [Next]_vars PROVE TypeOK'
  OBVIOUS
<1> USE CredentialAssumption DEF TypeOK, userVars, rowVars, proofVars, trustVars
<1>0. RequestsOK /\ (RequestsOK' <=> /\ req' \in [Requests -> RequestType]
                                    /\ \A r \in Requests : req'[r].phase \in Addressing
                                                            => req'[r].email \in Emails)
  BY DEF RequestsOK
<1>1. ASSUME NEW r \in Requests, NEW e \in Emails, StartChange(r, e)  PROVE TypeOK'
  <2>1. RequestsOK'
    BY <1>0, <1>1, BeginOK DEF StartChange, Ops, Phases
  <2> QED
    BY <1>0, <1>1, <2>1 DEF StartChange
<1>2. ASSUME NEW r \in Requests, SaveUnchanged(r)  PROVE TypeOK'
  BY <1>2 DEF SaveUnchanged, Replied
<1>3. ASSUME NEW r \in Requests, StartPassword(r)  PROVE TypeOK'
  <2>1. RequestsOK'
    BY <1>0, <1>3, BeginOK DEF StartPassword, Ops, Phases
  <2> QED
    BY <1>0, <1>3, <2>1 DEF StartPassword
<1>4. ASSUME NEW r \in Requests, NEW op \in {"on", "off"}, StartTwoFactor(r, op)  PROVE TypeOK'
  <2>1. RequestsOK'
    BY <1>0, <1>4, BeginOK DEF StartTwoFactor, Ops, Phases
  <2> QED
    BY <1>0, <1>4, <2>1 DEF StartTwoFactor
<1>5. ASSUME NEW r \in Requests, UpdateEmail(r)  PROVE TypeOK'
  <2>1. RequestsOK'
    BY <1>0, <1>5, MovedOK DEF UpdateEmail
  <2> QED
    BY <1>0, <1>5, <2>1 DEF UpdateEmail, Cleared, Addressing
<1>6. ASSUME NEW r \in Requests, SetPasswordHash(r)  PROVE TypeOK'
  <2>1. RequestsOK'
    BY <1>0, <1>6, UpdatedOK DEF SetPasswordHash
  <2> QED
    BY <1>0, <1>6, <2>1 DEF SetPasswordHash
<1>7. ASSUME NEW r \in Requests, SetFlag(r)  PROVE TypeOK'
  <2>1. RequestsOK'
    BY <1>0, <1>7, UpdatedOK DEF SetFlag
  <2> QED
    BY <1>0, <1>7, <2>1 DEF SetFlag, Flag, RequestsOK, RequestType
<1>8. ASSUME NEW r \in Requests, ForgetAllDevices(r)  PROVE TypeOK'
  <2>1. RequestsOK'
    BY <1>0, <1>8, DoneOK, AtOK DEF ForgetAllDevices, Phases, Addressing
  <2> QED
    BY <1>0, <1>8, <2>1 DEF ForgetAllDevices, Forgotten
<1>9. ASSUME NEW r \in Requests, SendAsked(r)  PROVE TypeOK'
  <2>1. RequestsOK'
    BY <1>0, <1>9, BeginOK DEF SendAsked, Ops, Phases
  <2> QED
    BY <1>0, <1>9, <2>1 DEF SendAsked
<1>10. ASSUME NEW r \in Requests, SendAfterChange(r)  PROVE TypeOK'
  <2>1. RequestsOK'
    <3>1. CASE Done(r)
      BY <1>0, <3>1, DoneOK
    <3>2. CASE req' = [req EXCEPT ![r] = Fresh("email", "sending", email)]
      BY <1>0, <3>2 DEF RequestsOK, Fresh, RequestType, Ops, Phases
    <3> QED
      BY <1>10, <3>1, <3>2 DEF SendAfterChange
  <2> QED
    BY <1>0, <1>10, <2>1 DEF SendAfterChange, Replied
<1>11. ASSUME NEW r \in Requests, SendLink(r)  PROVE TypeOK'
  <2>1. RequestsOK'
    BY <1>0, <1>11, DoneOK DEF SendLink
  <2> QED
    BY <1>0, <1>11, <2>1 DEF SendLink, Replied, Addressing
<1>12. ASSUME NEW r \in Requests, OpenLink(r)  PROVE TypeOK'
  <2>1. RequestsOK'
    BY <1>0, <1>12, BeginOK DEF OpenLink, Ops, Phases
  <2> QED
    BY <1>0, <1>12, <2>1 DEF OpenLink
<1>13. ASSUME NEW r \in Requests, CheckAddress(r)  PROVE TypeOK'
  <2>1. RequestsOK'
    BY <1>0, <1>13, DoneOK, AtOK DEF CheckAddress, Phases, Addressing
  <2> QED
    BY <1>0, <1>13, <2>1 DEF CheckAddress
<1>14. ASSUME NEW r \in Requests, Confirm(r)  PROVE TypeOK'
  <2>1. RequestsOK'
    BY <1>0, <1>14, DoneOK DEF Confirm
  <2> QED
    BY <1>0, <1>14, <2>1 DEF Confirm
<1>15. ASSUME NEW r \in Requests, LogIn(r)  PROVE TypeOK'
  <2>1. RequestsOK'
    BY <1>0, <1>15, BeginOK DEF LogIn, Ops, Phases
  <2> QED
    BY <1>0, <1>15, <2>1 DEF LogIn
<1>16. ASSUME NEW r \in Requests, SendCode(r)  PROVE TypeOK'
  <2>1. RequestsOK' /\ req[r].email \in Emails /\ req[r].old \in BOOLEAN
    BY <1>0, <1>16, DoneOK DEF SendCode, RequestsOK, RequestType, Addressing
  <2> QED
    BY <1>0, <1>16, <2>1 DEF SendCode
<1>17. ASSUME NEW r \in Requests, RedeemCode(r)  PROVE TypeOK'
  <2>1. RequestsOK'
    BY <1>0, <1>17, BeginOK DEF RedeemCode, Ops, Phases
  <2> QED
    BY <1>0, <1>17, <2>1 DEF RedeemCode
<1>18. ASSUME NEW r \in Requests, Admit(r)  PROVE TypeOK'
  <2>1. RequestsOK'
    BY <1>0, <1>18, DoneOK, AtOK DEF Admit, Phases, Addressing
  <2> QED
    BY <1>0, <1>18, <2>1 DEF Admit
<1>19. ASSUME NEW r \in Requests, NEW d \in Devices, Remember(r, d)  PROVE TypeOK'
  <2>1. RequestsOK'
    BY <1>0, <1>19, DoneOK DEF Remember
  <2>2. req[r].email \in Emails
    BY <1>0, <1>19 DEF Remember, RequestsOK, Addressing
  <2> QED
    BY <1>0, <1>19, <2>1, <2>2 DEF Remember
<1>20. ASSUME NEW r \in Requests, HangUp(r)  PROVE TypeOK'
  <2>1. RequestsOK'
    BY <1>0, <1>20, DoneOK DEF HangUp
  <2> QED
    BY <1>0, <1>20, <2>1 DEF HangUp
<1>21. CASE LapseLink
  BY <1>21 DEF LapseLink
<1>22. CASE LapseCode
  BY <1>22 DEF LapseCode
<1>23. ASSUME NEW d \in Devices, ForgetDevice(d)  PROVE TypeOK'
  BY <1>23 DEF ForgetDevice
<1>24. CASE UNCHANGED vars
  BY <1>24 DEF vars
<1> QED
  BY <1>1, <1>2, <1>3, <1>4, <1>5, <1>6, <1>7, <1>8, <1>9, <1>10, <1>11, <1>12, <1>13,
     <1>14, <1>15, <1>16, <1>17, <1>18, <1>19, <1>20, <1>21, <1>22, <1>23, <1>24 DEF Next

(* The types of the state hold in every reachable state.                   *)
THEOREM Typing == Spec => []TypeOK
  BY InitTypeOK, NextTypeOK, PTL DEF Spec

-----------------------------------------------------------------------------
(* Trust.                                                                  *)

(* A sign-in past its last check has given a code mailed to the address    *)
(* the account has, unless the address was changed since that check.       *)
AdmittedOK ==
    \A r \in Requests : req[r].phase = "admitted" => req[r].email = email \/ req[r].old

(* Steps after which no more is remembered or admitted, nothing else is    *)
(* the account's address, and a change under way is still under way.       *)
TrustStays ==
    /\ UNCHANGED <<email, devices, mailedTo, late, outdated>>
    /\ Sweeping \/ cut => Sweeping' \/ cut'
    /\ \A r \in Requests : req'[r].phase = "admitted" =>
          /\ req[r].phase = "admitted" /\ req'[r].email = req[r].email
          /\ req[r].old => req'[r].old

LEMMA TrustStaysKeep ==
  ASSUME TrustIsCurrent, AdmittedOK, TrustStays
  PROVE  TrustIsCurrent' /\ AdmittedOK'
<1>1. AdmittedOK'
  BY DEF AdmittedOK, TrustStays
<1>2. ASSUME NEW d \in devices'
      PROVE  mailedTo'[d] = email' \/ d \in late' \/ (d \in outdated' /\ (Sweeping' \/ cut'))
  BY <1>2 DEF TrustIsCurrent, TrustStays
<1> QED
  BY <1>1, <1>2 DEF TrustIsCurrent

(* A request that ends or moves on, not from a change of address that has  *)
(* yet to sweep, leaves the others' changes under way.                     *)
LEMMA StillSweeping ==
  ASSUME NEW r \in Requests, ~ (req[r].op = "email" /\ req[r].phase = "updated"),
         \A q \in Requests \ {r} : req'[q].op = req[q].op /\ req'[q].phase = req[q].phase
  PROVE  Sweeping => Sweeping'
  BY DEF Sweeping

LEMMA NextTrust == TypeOK /\ TrustIsCurrent /\ AdmittedOK /\ [Next]_vars
                     => TrustIsCurrent' /\ AdmittedOK'
<1> SUFFICES ASSUME TypeOK, TrustIsCurrent, AdmittedOK, [Next]_vars
             PROVE  TrustIsCurrent' /\ AdmittedOK'
  OBVIOUS
<1> USE DEF userVars, rowVars, proofVars, trustVars
<1>0. req \in [Requests -> RequestType]
  BY DEF TypeOK
<1>1. ASSUME NEW r \in Requests,
             \/ \E e \in Emails : StartChange(r, e)
             \/ \E op \in {"on", "off"} : StartTwoFactor(r, op)
             \/ StartPassword(r) \/ SendAsked(r) \/ LogIn(r) \/ OpenLink(r) \/ RedeemCode(r)
      PROVE  TrustStays
  <2>1. /\ UNCHANGED <<email, devices, mailedTo, late, outdated, cut>>
        /\ req[r].phase = "idle" /\ req'[r].phase \notin {"admitted"}
        /\ \A q \in Requests \ {r} : req'[q] = req[q]
    BY <1>0, <1>1 DEF StartChange, StartTwoFactor, StartPassword, SendAsked, LogIn, OpenLink,
          RedeemCode, Begin, Fresh
  <2> QED
    BY <2>1, StillSweeping DEF TrustStays
<1>2. ASSUME NEW r \in Requests,
             \/ SendAfterChange(r) \/ SendLink(r) \/ CheckAddress(r) \/ Confirm(r)
             \/ SendCode(r) \/ SetPasswordHash(r) \/ SetFlag(r)
      PROVE  TrustStays
  <2>1. /\ UNCHANGED <<email, devices, mailedTo, late, outdated, cut>>
        /\ ~ (req[r].op = "email" /\ req[r].phase = "updated") /\ req'[r].phase # "admitted"
        /\ \A q \in Requests \ {r} : req'[q] = req[q]
    BY <1>0, <1>2 DEF SendAfterChange, SendLink, CheckAddress, Confirm, SendCode,
          SetPasswordHash, SetFlag, Updated, Done, Idle, At, Fresh
  <2> QED
    BY <2>1, StillSweeping DEF TrustStays
<1>3. ASSUME NEW r \in Requests, HangUp(r)  PROVE TrustStays
  <2>1. /\ UNCHANGED <<email, devices, mailedTo, late, outdated>>
        /\ cut' = (cut \/ (req[r].op = "email" /\ req[r].phase = "updated"))
        /\ req'[r].phase = "idle"
        /\ \A q \in Requests \ {r} : req'[q] = req[q]
    BY <1>0, <1>3 DEF HangUp, Done, Idle, Fresh
  <2> QED
    BY <2>1, StillSweeping DEF TrustStays
<1>4. ASSUME UNCHANGED <<email, devices, mailedTo, late, outdated, cut, req>>  PROVE TrustStays
  BY <1>4 DEF TrustStays, Sweeping
<1>5. ASSUME NEW r \in Requests, SaveUnchanged(r)  PROVE TrustStays
  BY <1>4, <1>5 DEF SaveUnchanged
<1>6. CASE LapseLink \/ LapseCode \/ UNCHANGED vars
  BY <1>4, <1>6, TrustStaysKeep DEF LapseLink, LapseCode, vars
<1>7. ASSUME NEW r \in Requests, UpdateEmail(r)  PROVE TrustIsCurrent' /\ AdmittedOK'
  <2>1. outdated' = devices /\ devices' = devices
    BY <1>7 DEF UpdateEmail
  <2>2. req'[r].op = "email" /\ req'[r].phase = "updated"
    BY <1>0, <1>7 DEF UpdateEmail, Moved, Fresh
  <2>3. ASSUME NEW q \in Requests, req'[q].phase = "admitted"  PROVE req'[q].old
    BY <1>0, <1>7, <2>3 DEF UpdateEmail, Moved, Fresh, Relying
  <2> QED
    BY <2>1, <2>2, <2>3 DEF TrustIsCurrent, AdmittedOK, Sweeping
<1>8. ASSUME NEW r \in Requests, ForgetAllDevices(r)  PROVE TrustIsCurrent' /\ AdmittedOK'
  <2>1. devices' = {} /\ email' = email
    BY <1>8 DEF ForgetAllDevices, Forgotten
  <2>2. req'[r].phase # "admitted" /\ \A q \in Requests \ {r} : req'[q] = req[q]
    BY <1>0, <1>8 DEF ForgetAllDevices, At, Done, Idle, Fresh
  <2> QED
    BY <2>1, <2>2 DEF TrustIsCurrent, AdmittedOK
<1>9. ASSUME NEW r \in Requests, Admit(r)  PROVE TrustIsCurrent' /\ AdmittedOK'
  <2>1. /\ UNCHANGED <<email, devices, mailedTo, late, outdated, cut>>
        /\ ~ (req[r].op = "email" /\ req[r].phase = "updated")
        /\ \A q \in Requests \ {r} : req'[q] = req[q]
    BY <1>0, <1>9 DEF Admit, At, Done
  <2>2. req'[r].phase = "admitted" => req'[r].email = email
    BY <1>0, <1>9 DEF Admit, SameAddress, At, Done, Idle, Fresh
  <2>3. Sweeping => Sweeping'
    BY <2>1, StillSweeping
  <2> QED
    BY <2>1, <2>2, <2>3 DEF TrustIsCurrent, AdmittedOK
<1>10. ASSUME NEW r \in Requests, NEW d \in Devices, Remember(r, d)
       PROVE  TrustIsCurrent' /\ AdmittedOK'
  <2>1. /\ devices' = devices \cup {d} /\ mailedTo' = [mailedTo EXCEPT ![d] = req[r].email]
        /\ late' = IF req[r].old THEN late \cup {d} ELSE late
        /\ UNCHANGED <<email, outdated, cut>>
    BY <1>10 DEF Remember
  <2>2. /\ req[r].phase = "admitted" /\ req'[r].phase = "idle"
        /\ \A q \in Requests \ {r} : req'[q] = req[q]
    BY <1>0, <1>10 DEF Remember, Done, Idle, Fresh
  <2>3. Sweeping => Sweeping'
    BY <2>2, StillSweeping
  <2>4. mailedTo'[d] = email' \/ d \in late'
    BY <2>1, <2>2 DEF AdmittedOK, TypeOK
  <2>5. \A e \in devices \ {d} : mailedTo'[e] = mailedTo[e]
    BY <2>1 DEF TypeOK
  <2> QED
    BY <2>1, <2>2, <2>3, <2>4, <2>5 DEF TrustIsCurrent, AdmittedOK
<1>11. ASSUME NEW d \in Devices, ForgetDevice(d)  PROVE TrustIsCurrent' /\ AdmittedOK'
  <2>1. /\ devices' = devices \ {d} /\ mailedTo' = [mailedTo EXCEPT ![d] = NoEmail]
        /\ late' = late \ {d} /\ outdated' = outdated \ {d}
        /\ UNCHANGED <<email, req, cut>>
    BY <1>11 DEF ForgetDevice
  <2>2. Sweeping' <=> Sweeping
    BY <2>1 DEF Sweeping
  <2>3. \A e \in devices \ {d} : mailedTo'[e] = mailedTo[e]
    BY <2>1 DEF TypeOK
  <2> QED
    BY <2>1, <2>2, <2>3 DEF TrustIsCurrent, AdmittedOK
<1> QED
  BY <1>1, <1>2, <1>3, <1>5, <1>6, <1>7, <1>8, <1>9, <1>10, <1>11, TrustStaysKeep DEF Next

(* A remembered browser was given a code mailed to the address the account *)
(* has now, or its sign-in was past its last check when the address was    *)
(* changed, or the change has not swept: still under way, or cut short.    *)
THEOREM TrustCurrent == Spec => []TrustIsCurrent
<1>1. Init => TrustIsCurrent /\ AdmittedOK
  BY DEF Init, TrustIsCurrent, AdmittedOK, Idle, Fresh
<1> QED
  BY <1>1, InitTypeOK, NextTypeOK, NextTrust, PTL DEF Spec

-----------------------------------------------------------------------------
(* Confirmed addresses.                                                    *)

Vouched == proven \cup slipped

(* What the statements of a redemption have established so far: the link's *)
(* address is proven from the first, and is the account's address from the *)
(* check on, unless the account moved after it.  A request to turn         *)
(* two-factor on found the account's address confirmed, unless the account *)
(* moved since.                                                            *)
ProofInv ==
    /\ verified => email \in Vouched
    /\ twoFactor /\ ~ overtaken => armedFor \in Vouched
    /\ \A r \in Requests :
          /\ req[r].phase \in {"consumed", "addressed"} => req[r].email \in proven
          /\ req[r].phase = "addressed" => req[r].email = email \/ email \in slipped
          /\ req[r].op = "on" /\ req[r].phase = "checked" => email \in Vouched \/ req[r].old

(* Steps that move no redemption or switching-on forward.                  *)
Waits ==
    /\ email' = email /\ (verified' => verified)
    /\ (twoFactor' => twoFactor) /\ armedFor' = armedFor /\ overtaken' = overtaken
    /\ UNCHANGED <<proven, slipped>>
    /\ \A r \in Requests :
          req'[r].phase \in {"consumed", "addressed"} \/ (req'[r].op = "on" /\ req'[r].phase = "checked")
             => /\ req'[r].phase = req[r].phase /\ req'[r].email = req[r].email
                /\ req'[r].op = req[r].op /\ req'[r].old = req[r].old

LEMMA WaitsKeep ==
  ASSUME ProofInv, Waits
  PROVE  ProofInv'
  BY DEF ProofInv, Waits, Vouched

LEMMA NextProof == TypeOK /\ ProofInv /\ [Next]_vars => ProofInv'
<1> SUFFICES ASSUME TypeOK, ProofInv, [Next]_vars PROVE ProofInv'
  OBVIOUS
<1> USE DEF userVars, rowVars, proofVars, trustVars
<1>0. req \in [Requests -> RequestType]
  BY DEF TypeOK
<1>1. ASSUME NEW r \in Requests, NEW e \in Emails, StartChange(r, e)  PROVE Waits
  BY <1>0, <1>1 DEF StartChange, Begin, Fresh, Waits
<1>2. ASSUME NEW r \in Requests, SaveUnchanged(r) \/ StartPassword(r)  PROVE Waits
  BY <1>0, <1>2 DEF SaveUnchanged, StartPassword, Begin, Fresh, Waits
<1>3. ASSUME NEW r \in Requests, NEW op \in {"on", "off"}, StartTwoFactor(r, op)
      PROVE  ProofInv'
  BY <1>0, <1>3 DEF StartTwoFactor, MayArm, Begin, Fresh, ProofInv, Vouched
<1>4. ASSUME NEW r \in Requests, UpdateEmail(r)  PROVE ProofInv'
  <2>1. /\ email' = req[r].email /\ verified' = FALSE
        /\ slipped' = IF Confirming = {} THEN slipped ELSE slipped \cup {email'}
        /\ UNCHANGED <<twoFactor, proven, armedFor, overtaken>>
    BY <1>4 DEF UpdateEmail, Cleared
  <2>2. /\ req'[r].phase = "updated"
        /\ \A q \in Requests \ {r} : /\ req'[q].phase = req[q].phase
                                     /\ req'[q].email = req[q].email /\ req'[q].op = req[q].op
                                     /\ Relying(q) => req'[q].old
    BY <1>0, <1>4 DEF UpdateEmail, Moved, Fresh
  <2> QED
    BY <2>1, <2>2 DEF ProofInv, Vouched, Confirming, Relying
<1>5. ASSUME NEW r \in Requests, SetPasswordHash(r)  PROVE Waits
  BY <1>0, <1>5 DEF SetPasswordHash, Updated, Fresh, Waits
<1>6. ASSUME NEW r \in Requests, SetFlag(r)  PROVE ProofInv'
  <2>1. /\ UNCHANGED <<email, verified, proven, slipped>>
        /\ twoFactor' => /\ req[r].op = "on" /\ req[r].phase = "checked" /\ armedFor' = email
                         /\ ~ overtaken' => ~ req[r].old
    BY <1>6 DEF SetFlag, Flag
  <2>2. /\ req'[r].phase = "updated"
        /\ \A q \in Requests \ {r} : req'[q] = req[q]
    BY <1>0, <1>6 DEF SetFlag, Updated, Fresh
  <2> QED
    BY <2>1, <2>2 DEF ProofInv, Vouched
<1>7. ASSUME NEW r \in Requests, ForgetAllDevices(r)  PROVE Waits
  BY <1>0, <1>7 DEF ForgetAllDevices, At, Done, Idle, Fresh, Waits
<1>8. ASSUME NEW r \in Requests, SendAsked(r)  PROVE Waits
  BY <1>0, <1>8 DEF SendAsked, Begin, Fresh, Waits
<1>9. ASSUME NEW r \in Requests, SendAfterChange(r)  PROVE Waits
  BY <1>0, <1>9 DEF SendAfterChange, Done, Idle, Fresh, Waits
<1>10. ASSUME NEW r \in Requests, SendLink(r)  PROVE Waits
  BY <1>0, <1>10 DEF SendLink, Done, Idle, Fresh, Waits
<1>11. ASSUME NEW r \in Requests, OpenLink(r)  PROVE ProofInv'
  BY <1>0, <1>11 DEF OpenLink, Begin, Fresh, ProofInv, Vouched
<1>12. ASSUME NEW r \in Requests, CheckAddress(r)  PROVE ProofInv'
  BY <1>0, <1>12 DEF CheckAddress, SameAddress, At, Done, Idle, Fresh, ProofInv, Vouched
<1>13. ASSUME NEW r \in Requests, Confirm(r)  PROVE ProofInv'
  BY <1>0, <1>13 DEF Confirm, Done, Idle, Fresh, ProofInv, Vouched
<1>14. ASSUME NEW r \in Requests, LogIn(r) \/ SendCode(r)  PROVE Waits
  BY <1>0, <1>14 DEF LogIn, SendCode, Begin, Fresh, Done, Idle, Waits
<1>15. ASSUME NEW r \in Requests, RedeemCode(r) \/ Admit(r)  PROVE Waits
  <2>1. CASE RedeemCode(r)
    BY <1>0, <2>1 DEF RedeemCode, Begin, Fresh, Waits
  <2>2. CASE Admit(r)
    BY <1>0, <2>2 DEF Admit, At, Done, Idle, Fresh, Waits
  <2> QED
    BY <1>15, <2>1, <2>2
<1>16. ASSUME NEW r \in Requests, NEW d \in Devices, Remember(r, d)  PROVE Waits
  BY <1>0, <1>16 DEF Remember, Done, Idle, Fresh, Waits
<1>17. ASSUME NEW r \in Requests, HangUp(r)  PROVE Waits
  BY <1>0, <1>17 DEF HangUp, Done, Idle, Fresh, Waits
<1>18. CASE LapseLink \/ LapseCode
  BY <1>18, WaitsKeep DEF LapseLink, LapseCode, Waits
<1>19. ASSUME NEW d \in Devices, ForgetDevice(d)  PROVE Waits
  BY <1>19 DEF ForgetDevice, Waits
<1>20. CASE UNCHANGED vars
  BY <1>20, WaitsKeep DEF vars, Waits
<1> QED
  BY <1>1, <1>2, <1>3, <1>4, <1>5, <1>6, <1>7, <1>8, <1>9, <1>10, <1>11, <1>12, <1>13, <1>14,
     <1>15, <1>16, <1>17, <1>18, <1>19, <1>20, WaitsKeep DEF Next

LEMMA ProofInvariance == Spec => []ProofInv
<1>1. Init => ProofInv
  BY DEF Init, ProofInv, Vouched, Idle, Fresh
<1> QED
  BY <1>1, InitTypeOK, NextTypeOK, NextProof, PTL DEF Spec

(* An address is confirmed only if it was proven, or given while a link to *)
(* another was between its last check and its effect.                      *)
THEOREM VerifiedProven == Spec => []VerifiedIsProven
<1>1. ProofInv => VerifiedIsProven
  BY DEF ProofInv, Vouched, VerifiedIsProven
<1> QED
  BY <1>1, ProofInvariance, PTL

(* Two-factor is armed only for an address that was proven, likewise: the  *)
(* address the account had when the flag was set, if no change of address  *)
(* fell between the reading of the confirmation and that.                  *)
THEOREM ArmedProven == Spec => []ArmedIsProven
<1>1. ProofInv => ArmedIsProven
  BY DEF ProofInv, Vouched, ArmedIsProven
<1> QED
  BY <1>1, ProofInvariance, PTL

=============================================================================
