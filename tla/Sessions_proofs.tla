--------------------------- MODULE Sessions_proofs ---------------------------
(***************************************************************************)
(* Proofs about the refresh tokens of a user, for any number of browsers,  *)
(* tabs, tokens and simultaneous requests.                                 *)
(***************************************************************************)
EXTENDS Sessions, TLAPS

(* What a request of each kind carries.                                    *)
CarriesOK ==
    \A r \in Requests : req[r].kind = "refresh" => req[r].token \in Minted

(* Descent is recorded exactly for the tokens that exist.                  *)
LineOK ==
    /\ \A k \in Minted : login[k] \in Minted
    /\ \A k \in Tokens \ Minted : login[k] = NoToken /\ parent[k] = NoToken
    /\ \A k \in Tokens : parent[k] # NoToken => parent[k] \in Minted /\ login[k] = login[parent[k]]
    /\ out \subseteq Minted
    /\ overlapped \subseteq Minted

Base == TypeOK /\ CarriesOK /\ LineOK

LEMMA InitBase == Init => Base
  BY SessionAssumption DEF Init, Base, TypeOK, CarriesOK, LineOK, Minted, Idle, RequestType, Kinds, Phases

LEMMA NextBase == Base /\ [Next]_vars => Base'
<1> SUFFICES ASSUME Base, [Next]_vars PROVE Base'
  OBVIOUS
<1> USE SessionAssumption DEF Base, TypeOK, CarriesOK, LineOK, Minted, RequestType, Kinds, Phases,
        serverVars, clientVars, boundVars, lineVars, sweepVars, clientHistory
<1>1. ASSUME NEW t \in Tabs, NEW r \in Requests, OpenTab(t, r)  PROVE Base'
  BY <1>1 DEF OpenTab, SendRefresh, Send
<1>2. ASSUME NEW t \in Tabs, NEW r \in Requests, Refresh(t, r)  PROVE Base'
  BY <1>2 DEF Refresh, SendRefresh, Send
<1>3. ASSUME NEW t \in Tabs, NEW r \in Requests, LogIn(t, r)  PROVE Base'
  BY <1>3 DEF LogIn, Send
<1>4. ASSUME NEW t \in Tabs, NEW r \in Requests, LogOut(t, r)  PROVE Base'
  BY <1>4 DEF LogOut, Send
<1>5. ASSUME NEW t \in Tabs, NEW r \in Requests, ChangeEmail(t, r)  PROVE Base'
  BY <1>5 DEF ChangeEmail, Send
<1>6. ASSUME NEW r \in Requests, Adopt(r)  PROVE Base'
  BY <1>6 DEF Adopt, SetSession, Finished, Listening, Idle
<1>7. ASSUME NEW r \in Requests, Discard(r)  PROVE Base'
  <2>1. req[r].tab \in Tabs
    BY <1>7 DEF Discard, Listening
  <2>2. left' \subseteq Browsers
    BY <1>7, <2>1 DEF Discard, Leaving
  <2> QED
    BY <1>7, <2>1, <2>2 DEF Discard, SetSession, Finished, Idle
<1>8. ASSUME NEW r \in Requests, Fail(r)  PROVE Base'
  <2>1. req' = [q \in Requests |->
                  IF q = r THEN Moved(req[q], req[q].phase, NoTab, req[q].new) ELSE req[q]]
    BY <1>8 DEF Fail, Unheard
  <2>2. excused' \subseteq Tokens
    BY <1>8 DEF Fail, RefreshedBy
  <2>3. req[r].tab \in Tabs
    BY <1>8 DEF Fail, Listening
  <2>4. left' \subseteq Browsers
    BY <1>8, <2>3 DEF Fail, Leaving
  <2>5. /\ stored' \in [Browsers -> Tokens \cup {NoToken}] /\ access' \in [Tabs -> BOOLEAN]
        /\ \A b \in Browsers : stored'[b] \in {stored[b], NoToken}
    <3>1. CASE req[r].kind \in {"refresh", "logout"}
      <4>1. /\ stored' = [stored EXCEPT ![BrowserOf[req[r].tab]] = NoToken]
            /\ access' = [access EXCEPT ![req[r].tab] = (NoToken # NoToken)]
        BY <1>8, <3>1 DEF Fail, SetSession
      <4> QED
        BY <1>8, <2>3, <4>1 DEF Fail
    <3>2. CASE req[r].kind \notin {"refresh", "logout"}
      BY <1>8, <2>3, <3>2 DEF Fail
    <3> QED
      BY <3>1, <3>2
  <2> QED
    <3>1. req' \in [Requests -> RequestType]
      BY <2>1 DEF Moved
    <3>2. /\ UNCHANGED <<token, expired, open, changes, parent, login, overlapped, swept, out,
                         replayed, changed>>
          /\ faults' \in Nat
      BY <1>8 DEF Fail
    <3>3. \A q \in Requests : /\ req'[q].kind = req[q].kind /\ req'[q].phase = req[q].phase
                              /\ req'[q].token = req[q].token /\ req'[q].new = req[q].new
      BY <2>1 DEF Moved
    <3> QED
      BY <2>2, <2>4, <2>5, <3>1, <3>2, <3>3
<1>9. ASSUME NEW r \in Requests, Abandon(r)  PROVE Base'
  BY <1>9 DEF Abandon, Finished, Idle
<1>10. ASSUME NEW t \in Tabs, CloseTab(t)  PROVE Base'
  BY <1>10 DEF CloseTab, Unheard, RefreshedBy, Moved
<1>11. ASSUME NEW r \in Requests, Lookup(r)  PROVE Base'
  <2>1. req[r].token \in Minted
    BY <1>11 DEF Lookup
  <2>2. CASE req' = At(r, "found")
    BY <1>11, <2>1, <2>2 DEF Lookup, At, Moved
  <2>3. CASE req' = At(r, "replay")
    BY <1>11, <2>1, <2>3 DEF Lookup, At, Moved
  <2>4. CASE req' = At(r, "refused")
    BY <1>11, <2>1, <2>4 DEF Lookup, At, Moved
  <2> QED
    BY <1>11, <2>2, <2>3, <2>4 DEF Lookup
<1>12. ASSUME NEW r \in Requests, Sweep(r)  PROVE Base'
  <2>1. PICK p \in {"swept", "refused"} : req' = At(r, p)
    BY <1>12 DEF Sweep
  <2>2. token' = [k \in Tokens |-> IF token[k] = "live" THEN "revoked" ELSE token[k]]
    BY <1>12 DEF Sweep, Revoked
  <2>3. Minted' = Minted
    BY <2>2
  <2>4. Logins \subseteq Minted
    BY DEF Logins
  <2>5. TypeOK'
    BY <1>12, <2>1, <2>2, <2>3, <2>4 DEF Sweep, At, Moved
  <2>6. CarriesOK'
    BY <2>1, <2>3 DEF At, Moved
  <2>7. LineOK'
    BY <1>12, <2>3, <2>4 DEF Sweep
  <2> QED
    BY <2>5, <2>6, <2>7
<1>13. ASSUME NEW r \in Requests, Revoke(r)  PROVE Base'
  BY <1>13 DEF Revoke, At, Moved, Revoked
<1>14. ASSUME NEW r \in Requests, NEW n \in Tokens, Rotate(r, n)  PROVE Base'
  <2>1. req[r].token \in Minted /\ req[r].token \in Tokens /\ n \notin Minted
    BY <1>14 DEF Rotate
  <2>2. token' = [token EXCEPT ![req[r].token] = Revoked(req[r].token), ![n] = "live"]
    BY <1>14 DEF Rotate, Rotated
  <2>3. Revoked(req[r].token) \in {"live", "revoked", "purged"}
    BY <2>1 DEF Revoked
  <2>4. Minted' = Minted \cup {n}
    BY <2>1, <2>2, <2>3
  <2>5. req' = [req EXCEPT ![r] = [kind |-> req[r].kind, phase |-> "granted", tab |-> req[r].tab,
                                   token |-> req[r].token, new |-> n]]
    BY <1>14 DEF Rotate, Granted, Moved
  <2>6. token' \in [Tokens -> {"unminted", "live", "revoked", "purged"}]
    BY <2>1, <2>2, <2>3
  <2>7. /\ parent' = [parent EXCEPT ![n] = req[r].token]
        /\ login' = [login EXCEPT ![n] = login[req[r].token]]
    BY <1>14 DEF Rotate
  <2>8. TypeOK'
    BY <1>14, <2>1, <2>4, <2>5, <2>6, <2>7 DEF Rotate
  <2>9. CarriesOK'
    BY <2>4, <2>5
  <2>10. LineOK'
    BY <1>14, <2>1, <2>4, <2>7 DEF Rotate
  <2> QED
    BY <2>8, <2>9, <2>10
<1>15. ASSUME NEW r \in Requests, NEW n \in Tokens, Issue(r, n)  PROVE Base'
  <2>1. n \notin Minted
    BY <1>15 DEF Issue
  <2>2. token' = [token EXCEPT ![n] = "live"]
    BY <1>15 DEF Issue, Issued
  <2>3. Minted' = Minted \cup {n}
    BY <2>1, <2>2
  <2>4. req' = [req EXCEPT ![r] = [kind |-> req[r].kind, phase |-> "granted", tab |-> req[r].tab,
                                   token |-> req[r].token, new |-> n]]
    BY <1>15 DEF Issue, Granted, Moved
  <2>5. login' = [login EXCEPT ![n] = n] /\ UNCHANGED parent
    BY <1>15 DEF Issue
  <2>6. TypeOK'
    BY <1>15, <2>1, <2>2, <2>3, <2>4, <2>5 DEF Issue
  <2>7. CarriesOK'
    BY <2>3, <2>4
  <2>8. LineOK'
    BY <1>15, <2>1, <2>3, <2>5 DEF Issue
  <2> QED
    BY <2>6, <2>7, <2>8
<1>16. ASSUME NEW k \in Tokens, Expire(k)  PROVE Base'
  BY <1>16 DEF Expire
<1>17. CASE Purge
  BY <1>17 DEF Purge
<1>18. CASE UNCHANGED vars
  BY <1>18 DEF vars
<1> QED
  BY <1>1, <1>2, <1>3, <1>4, <1>5, <1>6, <1>7, <1>8, <1>9, <1>10, <1>11, <1>12, <1>13, <1>14,
     <1>15, <1>16, <1>17, <1>18 DEF Next

(* The types of the state hold in every reachable state.                   *)
THEOREM Typing == Spec => []TypeOK
<1>1. Base => TypeOK
  BY DEF Base
<1> QED
  BY <1>1, InitBase, NextBase, PTL DEF Spec

-----------------------------------------------------------------------------
(* What happens to the rows is all that matters to the two theorems below: *)
(* every other step leaves rows and descent alone and starts no rotation.  *)

Quiet ==
    /\ UNCHANGED <<token, parent, login, overlapped, out>>
    /\ \A r \in Requests : req'[r].phase = "found" =>
          req[r].phase = "found" /\ req'[r].token = req[r].token

LEMMA StepKinds ==
  ASSUME Base, [Next]_vars
  PROVE  \/ Quiet
         \/ \E r \in Requests : Lookup(r) \/ Sweep(r) \/ Revoke(r)
         \/ \E r \in Requests, n \in Tokens : Rotate(r, n) \/ Issue(r, n)
         \/ Purge
<1> USE DEF Quiet, Base, TypeOK, RequestType, lineVars, sweepVars, serverVars
<1>1. ASSUME NEW t \in Tabs, NEW r \in Requests, OpenTab(t, r)  PROVE Quiet
  BY <1>1 DEF OpenTab, SendRefresh, Send
<1>2. ASSUME NEW t \in Tabs, NEW r \in Requests, Refresh(t, r)  PROVE Quiet
  BY <1>2 DEF Refresh, SendRefresh, Send
<1>3. ASSUME NEW t \in Tabs, NEW r \in Requests, LogIn(t, r)  PROVE Quiet
  BY <1>3 DEF LogIn, Send
<1>4. ASSUME NEW t \in Tabs, NEW r \in Requests, LogOut(t, r)  PROVE Quiet
  BY <1>4 DEF LogOut, Send
<1>5. ASSUME NEW t \in Tabs, NEW r \in Requests, ChangeEmail(t, r)  PROVE Quiet
  BY <1>5 DEF ChangeEmail, Send
<1>6. ASSUME NEW r \in Requests, Adopt(r)  PROVE Quiet
  BY <1>6 DEF Adopt, Finished, Idle
<1>7. ASSUME NEW r \in Requests, Discard(r)  PROVE Quiet
  BY <1>7 DEF Discard, Finished, Idle
<1>8. ASSUME NEW r \in Requests, Fail(r)  PROVE Quiet
  BY <1>8 DEF Fail, Unheard, Moved
<1>9. ASSUME NEW r \in Requests, Abandon(r)  PROVE Quiet
  BY <1>9 DEF Abandon, Finished, Idle
<1>10. ASSUME NEW t \in Tabs, CloseTab(t)  PROVE Quiet
  BY <1>10 DEF CloseTab, Unheard, Moved
<1>11. ASSUME NEW k \in Tokens, Expire(k)  PROVE Quiet
  BY <1>11 DEF Expire
<1>12. CASE UNCHANGED vars
  BY <1>12 DEF vars
<1> QED
  BY <1>1, <1>2, <1>3, <1>4, <1>5, <1>6, <1>7, <1>8, <1>9, <1>10, <1>11, <1>12 DEF Next

(* SweptLoginsStayOut is inductive: a sweep leaves nothing live, a lookup  *)
(* finds only live rows, and a rotation continues a login it had found.    *)
LEMMA NextSwept == Base /\ SweptLoginsStayOut /\ [Next]_vars => SweptLoginsStayOut'
<1> SUFFICES ASSUME Base, SweptLoginsStayOut, [Next]_vars PROVE SweptLoginsStayOut'
  OBVIOUS
<1> USE DEF SweptLoginsStayOut, Base, TypeOK, CarriesOK, LineOK, RequestType, lineVars, sweepVars
<1>1. CASE Quiet
  BY <1>1 DEF Quiet
<1>2. ASSUME NEW r \in Requests, Lookup(r)  PROVE SweptLoginsStayOut'
  BY <1>2 DEF Lookup, FoundLive, At, Moved, serverVars, Minted
<1>3. ASSUME NEW r \in Requests, Sweep(r)  PROVE SweptLoginsStayOut'
  <2>1. PICK p \in {"swept", "refused"} : req' = At(r, p)
    BY <1>3 DEF Sweep
  <2>2. \A q \in Requests : req'[q].phase = "found" =>
            req[q].phase = "found" /\ req'[q].token = req[q].token
    BY <2>1 DEF At, Moved
  <2>3. \A k \in Tokens : token'[k] # "live"
    BY <1>3 DEF Sweep, Revoked
  <2> QED
    BY <1>3, <2>2, <2>3 DEF Sweep, Rotating, Minted
<1>4. ASSUME NEW r \in Requests, Revoke(r)  PROVE SweptLoginsStayOut'
  BY <1>4 DEF Revoke, Revoked, At, Moved
<1>5. ASSUME NEW r \in Requests, NEW n \in Tokens, Rotate(r, n)  PROVE SweptLoginsStayOut'
  <2>1. req[r].token \in Minted /\ n \notin Minted /\ req[r].phase = "found"
    BY <1>5 DEF Rotate
  <2>2. \A k \in Tokens : token'[k] = "live" => token[k] = "live" \/ k = n
    BY <1>5, <2>1 DEF Rotate, Rotated, Revoked, Minted
  <2>3. \A q \in Requests : req'[q].phase = "found" =>
            req[q].phase = "found" /\ req'[q].token = req[q].token
    BY <1>5 DEF Rotate, Granted, Moved
  <2>4. login' = [login EXCEPT ![n] = login[req[r].token]] /\ out' = out
    BY <1>5 DEF Rotate
  <2> QED
    BY <2>1, <2>2, <2>3, <2>4 DEF Minted
<1>6. ASSUME NEW r \in Requests, NEW n \in Tokens, Issue(r, n)  PROVE SweptLoginsStayOut'
  <2>1. n \notin Minted
    BY <1>6 DEF Issue
  <2>2. \A k \in Tokens : token'[k] = "live" => token[k] = "live" \/ k = n
    BY <1>6 DEF Issue, Issued
  <2>3. \A q \in Requests : req'[q].phase = "found" =>
            req[q].phase = "found" /\ req'[q].token = req[q].token
    BY <1>6 DEF Issue, Granted, Moved
  <2>4. login' = [login EXCEPT ![n] = n] /\ out' = out
    BY <1>6 DEF Issue
  <2> QED
    BY <2>1, <2>2, <2>3, <2>4 DEF Minted
<1>7. CASE Purge
  BY <1>7 DEF Purge
<1> QED
  BY <1>1, <1>2, <1>3, <1>4, <1>5, <1>6, <1>7, StepKinds

(* Revoking every session is final for every login that was not in the     *)
(* middle of a rotation.                                                   *)
THEOREM SweptStayOut == Spec => []SweptLoginsStayOut
<1>1. Init => SweptLoginsStayOut
  BY DEF Init, SweptLoginsStayOut, Idle
<1> QED
  BY <1>1, InitBase, NextBase, NextSwept, PTL DEF Spec

-----------------------------------------------------------------------------
(* Rotation.                                                               *)

(* Of two refreshes that have read the same token as live, the second one  *)
(* recorded it as overlapped.                                              *)
ReadOnce ==
    \A r, q \in Requests :
        /\ req[r].phase = "found" /\ req[q].phase = "found" /\ req[r].token = req[q].token
        => r = q \/ req[r].token \in overlapped

(* A login is a chain: its one childless token is its newest.              *)
OneTip ==
    \A k, n \in Minted :
        /\ login[k] = login[n] /\ Children(k) = {} /\ Children(n) = {} /\ k # n
        => \E o \in overlapped : login[o] = login[k]

ChainInv == ReadOnce /\ SingleUseUnlessOverlapped /\ OneTip

LEMMA NextChain == Base /\ ChainInv /\ [Next]_vars => ChainInv'
<1> SUFFICES ASSUME Base, ChainInv, [Next]_vars PROVE ChainInv'
  OBVIOUS
<1> USE DEF Base, TypeOK, CarriesOK, LineOK, RequestType, lineVars, sweepVars
<1>a. ASSUME UNCHANGED <<parent, login, overlapped>>, Minted' = Minted,
             \A r \in Requests : req'[r].phase = "found" =>
                req[r].phase = "found" /\ req'[r].token = req[r].token,
             \A k \in Tokens : token'[k] = "live" => token[k] = "live"
      PROVE ChainInv'
  <2>1. ReadOnce'
    BY <1>a DEF ChainInv, ReadOnce
  <2>2. SingleUseUnlessOverlapped'
    BY <1>a DEF ChainInv, SingleUseUnlessOverlapped, Children, Reading
  <2>3. OneTip'
    BY <1>a DEF ChainInv, OneTip, Children
  <2> QED
    BY <2>1, <2>2, <2>3 DEF ChainInv
<1>1. CASE Quiet
  BY <1>a, <1>1 DEF Quiet, Minted
<1>2. ASSUME NEW r \in Requests, Lookup(r)  PROVE ChainInv'
  <2>1. CASE ~ FoundLive(req[r].token)
    BY <1>a, <1>2, <2>1 DEF Lookup, At, Moved, serverVars, Minted
  <2>2. CASE FoundLive(req[r].token)
    <3>1. /\ req' = At(r, "found") /\ UNCHANGED <<token, parent, login>>
          /\ overlapped' = IF Reading(req[r].token) = {} THEN overlapped
                           ELSE overlapped \cup {req[r].token}
          /\ req[r].token \in Minted /\ token[req[r].token] = "live"
      BY <1>2, <2>2 DEF Lookup, serverVars, FoundLive
    <3>2. \A q \in Requests : q # r => req'[q] = req[q]
      BY <3>1 DEF At
    <3>3. req'[r].phase = "found" /\ req'[r].token = req[r].token
      BY <3>1 DEF At, Moved
    <3>4. ReadOnce'
      BY <3>1, <3>2, <3>3 DEF ChainInv, ReadOnce, Reading
    <3>5. SingleUseUnlessOverlapped'
      BY <3>1, <3>2, <3>3 DEF ChainInv, SingleUseUnlessOverlapped, Children, Reading
    <3>6. OneTip'
      BY <3>1 DEF ChainInv, OneTip, Children, Minted
    <3> QED
      BY <3>4, <3>5, <3>6 DEF ChainInv
  <2> QED
    BY <2>1, <2>2
<1>3. ASSUME NEW r \in Requests, Sweep(r)  PROVE ChainInv'
  <2>1. PICK p \in {"swept", "refused"} : req' = At(r, p)
    BY <1>3 DEF Sweep
  <2> QED
    BY <1>a, <1>3, <2>1 DEF Sweep, Revoked, At, Moved, Minted
<1>4. ASSUME NEW r \in Requests, Revoke(r)  PROVE ChainInv'
  BY <1>a, <1>4 DEF Revoke, Revoked, At, Moved, Minted
<1>5. ASSUME NEW r \in Requests, NEW n \in Tokens, Rotate(r, n)  PROVE ChainInv'
  <2>0. PICK k \in Tokens : k = req[r].token
    BY <1>5 DEF Rotate, Minted
  <2>1. k \in Minted /\ n \notin Minted /\ k # n /\ req[r].phase = "found"
    BY <1>5, <2>0 DEF Rotate, Minted
  <2>2. \A j \in Tokens : token'[j] = "live" => (token[j] = "live" /\ j # k) \/ j = n
    BY <1>5, <2>0, <2>1 DEF Rotate, Rotated, Revoked, Minted
  <2>3. Minted' = Minted \cup {n}
    BY <1>5, <2>0, <2>1 DEF Rotate, Rotated, Revoked, Minted
  <2>4. \A q \in Requests : /\ req'[q].phase = "found" =>
                                  q # r /\ req[q].phase = "found" /\ req'[q].token = req[q].token
    BY <1>5 DEF Rotate, Granted, Moved
  <2>5. /\ login' = [login EXCEPT ![n] = login[k]] /\ parent' = [parent EXCEPT ![n] = k]
        /\ overlapped' = overlapped
    BY <1>5, <2>0 DEF Rotate
  <2>6. /\ Children(k)' = Children(k) \cup {n}
        /\ \A j \in Tokens \ {k} : Children(j)' = Children(j)
        /\ Children(n) = {}
    BY <2>1, <2>5, SessionAssumption DEF Children, Minted
  <2>7. k \notin overlapped => Children(k) = {} /\ \A q \in Requests \ {r} : q \notin Reading(k)
    BY <2>0, <2>1 DEF ChainInv, SingleUseUnlessOverlapped, ReadOnce, Reading
  <2>8. ReadOnce'
    BY <2>4, <2>5 DEF ChainInv, ReadOnce
  <2>9. SingleUseUnlessOverlapped'
    <3> SUFFICES ASSUME NEW j \in Tokens \ overlapped
                 PROVE  /\ \A a, b \in Children(j)' : a = b
                        /\ Children(j)' # {} => token'[j] # "live" /\ Reading(j)' = {}
      BY <2>5 DEF SingleUseUnlessOverlapped
    <3>1. CASE j = k
      <4>1. Reading(j)' = {}
        BY <2>4, <2>7, <3>1 DEF Reading
      <4> QED
        BY <2>1, <2>2, <2>6, <2>7, <3>1, <4>1
    <3>2. CASE j # k
      <4>1. Reading(j)' \subseteq Reading(j)
        BY <2>4 DEF Reading
      <4> QED
        BY <2>2, <2>6, <3>2, <4>1 DEF ChainInv, SingleUseUnlessOverlapped
    <3> QED
      BY <3>1, <3>2
  <2>10. OneTip'
    <3> SUFFICES ASSUME NEW a \in Minted', NEW b \in Minted', login'[a] = login'[b],
                        Children(a)' = {}, Children(b)' = {}, a # b
                 PROVE  \E o \in overlapped : login'[o] = login'[a]
      BY <2>5 DEF OneTip
    <3>1. a # k /\ b # k /\ \A j \in Minted : login'[j] = login[j]
      BY <2>1, <2>5, <2>6 DEF Minted
    <3>2. \A o \in overlapped : login'[o] = login[o]
      BY <3>1
    <3>3. CASE a # n /\ b # n
      <4>1. Children(a) = {} /\ Children(b) = {} /\ a \in Minted /\ b \in Minted
        BY <2>3, <2>6, <3>1, <3>3 DEF Minted
      <4> QED
        BY <3>1, <3>2, <4>1 DEF ChainInv, OneTip
    <3>4. CASE a = n \/ b = n
      <4>1. PICK c \in Minted : c \in {a, b} /\ c # n
        BY <2>1, <2>3, <3>4
      <4>2. Children(c) = {} /\ login[c] = login[k] /\ c # k /\ login'[a] = login[k]
        BY <2>1, <2>5, <2>6, <3>1, <3>4, <4>1 DEF Minted
      <4>3. CASE k \in overlapped
        BY <2>1, <3>2, <4>2, <4>3
      <4>4. CASE k \notin overlapped
        BY <2>1, <2>7, <3>2, <4>2, <4>4 DEF ChainInv, OneTip
      <4> QED
        BY <4>3, <4>4
    <3> QED
      BY <3>3, <3>4
  <2> QED
    BY <2>8, <2>9, <2>10 DEF ChainInv
<1>6. ASSUME NEW r \in Requests, NEW n \in Tokens, Issue(r, n)  PROVE ChainInv'
  <2>1. n \notin Minted
    BY <1>6 DEF Issue
  <2>2. /\ login' = [login EXCEPT ![n] = n] /\ UNCHANGED <<parent, overlapped>>
        /\ token' = [token EXCEPT ![n] = "live"]
    BY <1>6 DEF Issue, Issued
  <2>3. Minted' = Minted \cup {n}
    BY <2>1, <2>2 DEF Minted
  <2>4. \A q \in Requests : req'[q].phase = "found" =>
            req[q].phase = "found" /\ req'[q].token = req[q].token
    BY <1>6 DEF Issue, Granted, Moved
  <2>5. Children(n) = {} /\ \A j \in Tokens : Children(j)' = Children(j)
    BY <2>1, <2>2, SessionAssumption DEF Children, Minted
  <2>6. ReadOnce'
    BY <2>2, <2>4 DEF ChainInv, ReadOnce
  <2>7. SingleUseUnlessOverlapped'
    <3>1. \A j \in Tokens : Reading(j)' \subseteq Reading(j)
      BY <2>4 DEF Reading
    <3> QED
      BY <2>2, <2>5, <3>1 DEF ChainInv, SingleUseUnlessOverlapped
  <2>8. OneTip'
    <3>1. \A j \in Minted : login'[j] = login[j] /\ login[j] # n
      BY <2>1, <2>2 DEF Minted
    <3>2. login'[n] = n
      BY <2>2
    <3> QED
      BY <2>1, <2>2, <2>3, <2>5, <3>1, <3>2 DEF ChainInv, OneTip, Minted
  <2> QED
    BY <2>6, <2>7, <2>8 DEF ChainInv
<1>7. CASE Purge
  BY <1>a, <1>7 DEF Purge, Minted
<1> QED
  BY <1>1, <1>2, <1>3, <1>4, <1>5, <1>6, <1>7, StepKinds

LEMMA InitChain == Init => ChainInv
<1> SUFFICES ASSUME Init PROVE ChainInv
  OBVIOUS
<1>1. Minted = {} /\ \A k \in Tokens : Children(k) = {}
  BY SessionAssumption DEF Init, Minted, Children
<1>2. ReadOnce
  BY DEF Init, ReadOnce, Idle
<1> QED
  BY <1>1, <1>2 DEF Init, ChainInv, SingleUseUnlessOverlapped, OneTip

LEMMA ChainMeansOneLive == Base /\ ChainInv => OneLiveTokenPerLogin
  BY DEF Base, TypeOK, LineOK, ChainInv, SingleUseUnlessOverlapped, OneTip, OneLiveTokenPerLogin, Minted

(* Rotation is single-use up to overlapping reads.                         *)
THEOREM RotatesOnce == Spec => []SingleUseUnlessOverlapped
<1>1. ChainInv => SingleUseUnlessOverlapped
  BY DEF ChainInv
<1> QED
  BY <1>1, InitBase, NextBase, InitChain, NextChain, PTL DEF Spec

(* A login has one working refresh token, up to overlapping reads.         *)
THEOREM OneLivePerLogin == Spec => []OneLiveTokenPerLogin
  BY InitBase, NextBase, InitChain, NextChain, ChainMeansOneLive, PTL DEF Spec

-----------------------------------------------------------------------------
(* Replays.                                                                *)

(* The refreshes presenting k.                                             *)
Carriers(k) == {r \in Requests : req[r].kind = "refresh" /\ req[r].token = k}

(* k has reached a client, which kept it, presented it or exchanged it.    *)
Presented(k) == (\E b \in Browsers : stored[b] = k) \/ Carriers(k) # {} \/ Children(k) # {}

KindsOK ==
    /\ \A r \in Requests :
          /\ req[r].phase \in {"found", "replay"} => req[r].kind = "refresh"
          /\ req[r].phase = "granted" => req[r].kind \in {"refresh", "login", "change"}
          /\ req[r].tab \in open \cup {NoTab}
    /\ replayed \subseteq Minted

(* A token is granted by one answer, before any client has it, and is kept *)
(* by one browser.                                                         *)
OnePlace ==
    /\ \A r, q \in Requests :
          req[r].phase = "granted" /\ req[q].phase = "granted" /\ req[r].new = req[q].new => r = q
    /\ \A r \in Requests : req[r].phase = "granted" => ~ Presented(req[r].new)
    /\ \A b, c \in Browsers : stored[b] = stored[c] /\ stored[b] # NoToken => b = c

(* refreshInFlight.                                                        *)
OnePerTab ==
    \A r, q \in Requests :
        /\ req[r].kind = "refresh" /\ req[q].kind = "refresh" /\ req[r].tab = req[q].tab
        /\ Listening(r)
        => r = q

(* A token that is not excused is presented by one refresh at a time, for  *)
(* a tab of the browser that keeps it.  Once exchanged, that refresh is    *)
(* answered, and the browser replaces the token when it hears the answer.  *)
UnexcusedOK(k) ==
    /\ \A r, q \in Carriers(k) : r = q
    /\ \A r \in Carriers(k) :
          /\ Listening(r)
          /\ \A b \in Browsers : stored[b] = k => b = BrowserOf[req[r].tab]
    /\ Children(k) # {} =>
         /\ \A r \in Carriers(k) : req[r].phase = "granted"
         /\ \A b \in Browsers : stored[b] = k => Carriers(k) # {}
    /\ k \in replayed =>
         /\ Children(k) = {} /\ token[k] # "live"
         /\ \A r \in Carriers(k) : req[r].phase # "found"

Unexcused == \A k \in Tokens \ excused : UnexcusedOK(k)

(* What a step does to the requests, told apart by what the client can     *)
(* know of it.                                                             *)

(* A tab sends a request.  A refresh carries the token its browser keeps;  *)
(* a token that another tab is presenting becomes excused.                 *)
Asks(t, r) ==
    /\ req[r].phase = "idle" /\ req'[r].phase = "sent" /\ req'[r].tab = t /\ t \in open'
    /\ \A q \in Requests \ {r} : req'[q] = req[q]
    /\ open \subseteq open'
    /\ UNCHANGED <<token, stored, parent, replayed>>
    /\ \/ req'[r].kind # "refresh" /\ excused' = excused
       \/ /\ req'[r].kind = "refresh" /\ req'[r].token = stored[BrowserOf[t]]
          /\ req'[r].token # NoToken /\ ~ Refreshing(t)
          /\ excused' = IF PresentedElsewhere(t, req'[r].token)
                        THEN excused \cup {req'[r].token} ELSE excused

(* The server takes a request further without granting it anything.        *)
Serves ==
    /\ \A q \in Requests : /\ req'[q].kind = req[q].kind /\ req'[q].tab = req[q].tab
                           /\ req'[q].token = req[q].token /\ req'[q].new = req[q].new
                           /\ \/ req'[q].phase = req[q].phase
                              \/ req'[q].phase \in {"swept", "refused"}
                              \/ /\ req'[q].phase = "found" /\ req[q].kind = "refresh"
                                 /\ req[q].phase = "sent" /\ token[req[q].token] = "live"
                              \/ /\ req'[q].phase = "replay" /\ req[q].kind = "refresh"
                                 /\ req[q].phase = "sent"
                           /\ req[q].phase = "granted" => req'[q].phase = "granted"
    /\ \A k \in Tokens : token'[k] = "live" => token[k] = "live"
    /\ open \subseteq open' /\ Minted' = Minted
    /\ UNCHANGED <<stored, parent, excused>>
    /\ \A k \in replayed' \ replayed :
          /\ token[k] # "live"
          /\ \E r \in Carriers(k) : req[r].phase = "sent"

(* The server grants a request a new token.                                *)
Grants(r, n) ==
    /\ n \notin Minted /\ Minted' = Minted \cup {n}
    /\ req'[r].phase = "granted" /\ req'[r].new = n /\ req'[r].tab = req[r].tab
    /\ req'[r].kind = req[r].kind /\ req'[r].token = req[r].token
    /\ \A q \in Requests \ {r} : req'[q] = req[q]
    /\ \A k \in Tokens \ {n} : token'[k] = "live" => token[k] = "live"
    /\ UNCHANGED <<stored, open, excused, replayed>>
    /\ \/ /\ req[r].phase = "found"
          /\ parent' = [parent EXCEPT ![n] = req[r].token]
       \/ /\ req[r].kind \in {"login", "change"} /\ req[r].phase # "granted"
          /\ parent' = parent

(* A tab hears an answer, and keeps the token that came with it, or none.  *)
Hears(r) ==
    /\ Listening(r) /\ req'[r] = Idle
    /\ \A q \in Requests \ {r} : req'[q] = req[q]
    /\ UNCHANGED <<token, open, parent, excused, replayed>>
    /\ \/ /\ req[r].phase = "granted"
          /\ stored' = [stored EXCEPT ![BrowserOf[req[r].tab]] = req[r].new]
       \/ /\ req[r].phase = "refused"
          /\ stored' = [stored EXCEPT ![BrowserOf[req[r].tab]] = NoToken]

(* Nobody waits for these requests any longer.  The tokens they presented  *)
(* are excused.                                                            *)
Drops(rs) ==
    /\ \A q \in Requests :
          /\ req'[q].kind = req[q].kind /\ req'[q].phase = req[q].phase
          /\ req'[q].token = req[q].token /\ req'[q].new = req[q].new
          /\ req'[q].tab = IF q \in rs THEN NoTab ELSE req[q].tab
    /\ excused' = excused \cup RefreshedBy(rs)
    /\ \A q \in Requests \ rs : req[q].tab \in open' \cup {NoTab}
    /\ UNCHANGED <<token, parent, replayed>>
    /\ \A b \in Browsers : stored'[b] \in {stored[b], NoToken}

(* A request nobody waits for ends.                                        *)
Ends(r) ==
    /\ ~ Listening(r) /\ req'[r] = Idle
    /\ \A q \in Requests \ {r} : req'[q] = req[q]
    /\ UNCHANGED <<token, stored, open, parent, excused, replayed>>

LEMMA StepShapes ==
  ASSUME Base, KindsOK, [Next]_vars
  PROVE  \/ \E t \in Tabs, r \in Requests : Asks(t, r)
         \/ Serves
         \/ \E r \in Requests, n \in Tokens : Grants(r, n)
         \/ \E r \in Requests : Hears(r)
         \/ \E rs \in SUBSET Requests : Drops(rs)
         \/ \E r \in Requests : Ends(r)
<1> USE SessionAssumption DEF Base, TypeOK, CarriesOK, RequestType, serverVars, clientVars,
        lineVars, clientHistory
<1>1. ASSUME NEW t \in Tabs, NEW r \in Requests, OpenTab(t, r)  PROVE Asks(t, r) \/ Serves
  <2>1. CASE stored[BrowserOf[t]] = NoToken
    BY <1>1, <2>1 DEF OpenTab, Serves, Minted
  <2>2. CASE stored[BrowserOf[t]] # NoToken
    <3>1. ~ Refreshing(t)
      BY <1>1 DEF OpenTab, Refreshing, KindsOK
    <3> QED
      BY <1>1, <2>2, <3>1 DEF OpenTab, SendRefresh, Send, Asks
  <2> QED
    BY <2>1, <2>2
<1>2. ASSUME NEW t \in Tabs, NEW r \in Requests, Refresh(t, r)  PROVE Asks(t, r)
  BY <1>2 DEF Refresh, MayRefresh, SendRefresh, Send, Asks
<1>3. ASSUME NEW t \in Tabs, NEW r \in Requests, LogIn(t, r) \/ LogOut(t, r) \/ ChangeEmail(t, r)
      PROVE  Asks(t, r)
  BY <1>3 DEF LogIn, LogOut, ChangeEmail, Send, Asks
<1>4. ASSUME NEW r \in Requests, Adopt(r) \/ Discard(r)  PROVE Hears(r)
  BY <1>4 DEF Adopt, Discard, SetSession, Finished, Hears
<1>5. ASSUME NEW r \in Requests, Fail(r)  PROVE Drops({r})
  <2>1. req' = [q \in Requests |->
                  IF q = r THEN Moved(req[q], req[q].phase, NoTab, req[q].new) ELSE req[q]]
    BY <1>5 DEF Fail, Unheard
  <2>2. \A b \in Browsers : stored'[b] \in {stored[b], NoToken}
    <3>1. CASE req[r].kind \in {"refresh", "logout"}
      <4>1. stored' = [stored EXCEPT ![BrowserOf[req[r].tab]] = NoToken]
        BY <1>5, <3>1 DEF Fail, SetSession
      <4> QED
        BY <4>1
    <3>2. CASE req[r].kind \notin {"refresh", "logout"}
      BY <1>5, <3>2 DEF Fail
    <3> QED
      BY <3>1, <3>2
  <2>3. UNCHANGED <<token, open, parent, replayed>> /\ excused' = excused \cup RefreshedBy({r})
    BY <1>5 DEF Fail
  <2> QED
    BY <2>1, <2>2, <2>3 DEF Drops, Moved, KindsOK
<1>6. ASSUME NEW t \in Tabs, CloseTab(t)  PROVE \E rs \in SUBSET Requests : Drops(rs)
  <2> DEFINE rs == {r \in Requests : req[r].tab = t}
  <2>1. req' = [q \in Requests |->
                  IF q \in rs THEN Moved(req[q], req[q].phase, NoTab, req[q].new) ELSE req[q]]
    BY <1>6 DEF CloseTab, Unheard
  <2>2. excused' = excused \cup RefreshedBy(rs) /\ open' = open \ {t} /\ stored' = stored
    BY <1>6 DEF CloseTab
  <2>3. UNCHANGED <<token, parent, replayed>>
    BY <1>6 DEF CloseTab
  <2>4. Drops(rs)
    BY <2>1, <2>2, <2>3 DEF Drops, Moved, KindsOK
  <2> QED
    BY <2>4
<1>7. ASSUME NEW r \in Requests, Abandon(r)  PROVE Ends(r)
  BY <1>7 DEF Abandon, Finished, Ends
<1>8. ASSUME NEW r \in Requests, Lookup(r)  PROVE Serves
  <2> DEFINE k == req[r].token
  <2>1. req[r].kind = "refresh" /\ req[r].phase = "sent" /\ k \in Tokens
    BY <1>8 DEF Lookup, Minted
  <2>2. UNCHANGED <<token, stored, open, parent, excused>>
    BY <1>8 DEF Lookup
  <2>3. \/ req' = At(r, "found") /\ token[k] = "live" /\ replayed' = replayed
        \/ req' = At(r, "replay") /\ token[k] = "revoked" /\ replayed' = replayed \cup {k}
        \/ req' = At(r, "refused") /\ replayed' = replayed
    BY <1>8 DEF Lookup, FoundLive
  <2>4. r \in Carriers(k)
    BY <2>1 DEF Carriers
  <2> QED
    BY <2>1, <2>2, <2>3, <2>4 DEF Serves, At, Moved, Minted
<1>9. ASSUME NEW r \in Requests, Sweep(r) \/ Revoke(r)  PROVE Serves
  <2>1. \E p \in {"swept", "refused"} : req' = At(r, p)
    BY <1>9 DEF Sweep, Revoke
  <2>2. req[r].phase # "granted" /\ UNCHANGED <<stored, open, parent, excused, replayed>>
    BY <1>9 DEF Sweep, Revoke
  <2>3. \A k \in Tokens : token'[k] = "live" => token[k] = "live"
    BY <1>9 DEF Sweep, Revoke, Revoked
  <2>4. Minted' = Minted
    BY <1>9 DEF Sweep, Revoke, Revoked, Minted
  <2> QED
    BY <2>1, <2>2, <2>3, <2>4 DEF Serves, At, Moved
<1>10. ASSUME NEW r \in Requests, NEW n \in Tokens, Rotate(r, n)  PROVE Grants(r, n)
  <2>1. req[r].token \in Tokens
    BY <1>10 DEF Rotate, Minted
  <2>2. Minted' = Minted \cup {n}
    BY <1>10, <2>1 DEF Rotate, Rotated, Revoked, Minted
  <2>3. \A k \in Tokens \ {n} : token'[k] = "live" => token[k] = "live"
    BY <1>10, <2>1 DEF Rotate, Rotated, Revoked
  <2> QED
    BY <1>10, <2>2, <2>3 DEF Rotate, Granted, Moved, Grants
<1>11. ASSUME NEW r \in Requests, NEW n \in Tokens, Issue(r, n)  PROVE Grants(r, n)
  <2>1. Minted' = Minted \cup {n}
    BY <1>11 DEF Issue, Issued, Minted
  <2> QED
    BY <1>11, <2>1 DEF Issue, Issued, Granted, Moved, Grants
<1>12. CASE Purge \/ (\E k \in Tokens : Expire(k)) \/ UNCHANGED vars
  BY <1>12 DEF Purge, Expire, vars, Serves, Minted
<1> HIDE DEF Base, TypeOK, CarriesOK, RequestType
<1> QED
  BY <1>1, <1>2, <1>3, <1>4, <1>5, <1>6, <1>7, <1>8, <1>9, <1>10, <1>11, <1>12 DEF Next

LEMMA NextKinds == Base /\ KindsOK /\ [Next]_vars => KindsOK'
<1> SUFFICES ASSUME Base, KindsOK, [Next]_vars PROVE KindsOK'
  OBVIOUS
<1> USE DEF KindsOK
<1>1. ASSUME NEW t \in Tabs, NEW r \in Requests, Asks(t, r)  PROVE KindsOK'
  BY <1>1 DEF Asks, Minted
<1>2. CASE Serves
  <2>1. replayed' \subseteq Minted
    BY <1>2 DEF Serves, Carriers, Base, TypeOK, CarriesOK
  <2> QED
    BY <1>2, <2>1 DEF Serves
<1>3. ASSUME NEW r \in Requests, NEW n \in Tokens, Grants(r, n)  PROVE KindsOK'
  BY <1>3 DEF Grants
<1>4. ASSUME NEW r \in Requests, Hears(r) \/ Ends(r)  PROVE KindsOK'
  BY <1>4 DEF Hears, Ends, Idle, Minted
<1>5. ASSUME NEW rs \in SUBSET Requests, Drops(rs)  PROVE KindsOK'
  BY <1>5 DEF Drops, Minted
<1> QED
  BY <1>1, <1>2, <1>3, <1>4, <1>5, StepShapes

LEMMA NextPerTab == Base /\ KindsOK /\ OnePerTab /\ [Next]_vars => OnePerTab'
<1> SUFFICES ASSUME Base, KindsOK, OnePerTab, [Next]_vars PROVE OnePerTab'
  OBVIOUS
<1> USE DEF OnePerTab, Listening
<1>1. ASSUME NEW t \in Tabs, NEW r \in Requests, Asks(t, r)  PROVE OnePerTab'
  BY <1>1 DEF Asks, Refreshing
<1>2. CASE Serves
  BY <1>2 DEF Serves
<1>3. ASSUME NEW r \in Requests, NEW n \in Tokens, Grants(r, n)  PROVE OnePerTab'
  BY <1>3 DEF Grants
<1>4. ASSUME NEW r \in Requests, Hears(r) \/ Ends(r)  PROVE OnePerTab'
  BY <1>4 DEF Hears, Ends, Idle
<1>5. ASSUME NEW rs \in SUBSET Requests, Drops(rs)  PROVE OnePerTab'
  BY <1>5 DEF Drops
<1> QED
  BY <1>1, <1>2, <1>3, <1>4, <1>5, StepShapes

(* A token that was never minted has reached no client.                    *)
LEMMA FreshUnpresented ==
  ASSUME Base, NEW n \in Tokens \ Minted
  PROVE  ~ Presented(n) /\ \A r \in Requests : req[r].phase = "granted" => req[r].new # n
  BY SessionAssumption DEF Base, TypeOK, CarriesOK, LineOK, Presented, Carriers, Children, Minted

LEMMA NextPlace == Base /\ KindsOK /\ OnePlace /\ [Next]_vars => OnePlace'
<1> SUFFICES ASSUME Base, KindsOK, OnePlace, [Next]_vars PROVE OnePlace'
  OBVIOUS
<1> USE SessionAssumption
<1>0. /\ stored \in [Browsers -> Tokens \cup {NoToken}]
      /\ \A r \in Requests : req[r].phase = "granted" => req[r].new \in Tokens
      /\ \A r \in Requests : req[r].tab \in Tabs \cup {NoTab}
  BY DEF Base, TypeOK, RequestType, Minted
<1>1. ASSUME NEW t \in Tabs, NEW r \in Requests, Asks(t, r)  PROVE OnePlace'
  <2>1. \A k \in Tokens : Presented(k)' => Presented(k)
    BY <1>1 DEF Asks, Presented, Carriers, Children
  <2>2. \A q \in Requests : req'[q].phase = "granted" => q # r /\ req'[q] = req[q]
    BY <1>1 DEF Asks
  <2>3. stored' = stored
    BY <1>1 DEF Asks
  <2> QED
    BY <1>0, <2>1, <2>2, <2>3 DEF OnePlace
<1>2. CASE Serves
  <2>1. \A k \in Tokens : Presented(k)' => Presented(k)
    BY <1>2 DEF Serves, Presented, Carriers, Children
  <2>2. \A q \in Requests : req'[q].phase = "granted" =>
            req[q].phase = "granted" /\ req'[q].new = req[q].new
    BY <1>2 DEF Serves
  <2>3. stored' = stored
    BY <1>2 DEF Serves
  <2> QED
    BY <1>0, <2>1, <2>2, <2>3 DEF OnePlace
<1>3. ASSUME NEW r \in Requests, NEW n \in Tokens, Grants(r, n)  PROVE OnePlace'
  <2>1. n \in Tokens \ Minted /\ stored' = stored
    BY <1>3 DEF Grants
  <2>2. req[r].phase = "found" => req[r].token \in Minted /\ r \in Carriers(req[r].token)
    BY DEF KindsOK, Carriers, Base, CarriesOK
  <2>3. \A k \in Tokens : Presented(k)' => Presented(k)
    <3>1. \A k \in Tokens : Carriers(k)' \subseteq Carriers(k)
      BY <1>3 DEF Grants, Carriers
    <3>2. \A k \in Tokens : Children(k)' # {} => Children(k) # {} \/ r \in Carriers(k)
      <4>1. CASE parent' = parent
        BY <4>1 DEF Children
      <4>2. CASE req[r].phase = "found" /\ parent' = [parent EXCEPT ![n] = req[r].token]
        BY <2>2, <4>2 DEF Children, Base, TypeOK
      <4> QED
        BY <1>3, <4>1, <4>2 DEF Grants
    <3> QED
      BY <2>1, <3>1, <3>2 DEF Presented
  <2>4. ~ Presented(n) /\ \A q \in Requests : req[q].phase = "granted" => req[q].new # n
    BY <2>1, FreshUnpresented
  <2>5. \A q \in Requests : req'[q].phase = "granted" =>
            \/ q = r /\ req'[q].new = n
            \/ q # r /\ req[q].phase = "granted" /\ req'[q].new = req[q].new
    BY <1>3 DEF Grants
  <2>6. \A q, s \in Requests :
            req'[q].phase = "granted" /\ req'[s].phase = "granted" /\ req'[q].new = req'[s].new
              => q = s
    BY <2>4, <2>5 DEF OnePlace
  <2>7. ASSUME NEW q \in Requests, req'[q].phase = "granted", NEW k \in Tokens, k = req'[q].new
        PROVE  ~ Presented(k)'
    <3>1. ~ Presented(k)
      BY <2>4, <2>5, <2>7 DEF OnePlace
    <3> QED
      BY <2>3, <3>1
  <2>8. \A q \in Requests : req'[q].phase = "granted" => req'[q].new \in Tokens
    BY <1>0, <2>5
  <2>9. \A b, c \in Browsers : stored'[b] = stored'[c] /\ stored'[b] # NoToken => b = c
    BY <2>1 DEF OnePlace
  <2> QED
    BY <2>6, <2>7, <2>8, <2>9 DEF OnePlace
<1>4. ASSUME NEW r \in Requests, Hears(r)  PROVE OnePlace'
  <2>1. \A q \in Requests : req'[q].phase = "granted" => q # r /\ req'[q] = req[q]
    BY <1>4 DEF Hears, Idle
  <2>2. /\ \A k \in Tokens : Carriers(k)' \subseteq Carriers(k)
        /\ \A k \in Tokens : Children(k)' = Children(k)
    BY <1>4 DEF Hears, Carriers, Children, Idle
  <2>3. PICK b \in Browsers : b = BrowserOf[req[r].tab]
    BY <1>0, <1>4 DEF Hears, Listening
  <2>4. CASE req[r].phase = "refused" /\ stored' = [stored EXCEPT ![b] = NoToken]
    <3>1. \A k \in Tokens : Presented(k)' => Presented(k)
      BY <1>0, <2>2, <2>4 DEF Presented
    <3>2. \A c, d \in Browsers : stored'[c] = stored'[d] /\ stored'[c] # NoToken => c = d
      BY <1>0, <2>4 DEF OnePlace
    <3> QED
      BY <1>0, <2>1, <3>1, <3>2 DEF OnePlace
  <2>5. CASE req[r].phase = "granted" /\ stored' = [stored EXCEPT ![b] = req[r].new]
    <3>1. req[r].new \in Tokens /\ \A c \in Browsers : stored[c] # req[r].new
      BY <1>0, <2>5 DEF OnePlace, Presented
    <3>2. \A k \in Tokens \ {req[r].new} : Presented(k)' => Presented(k)
      BY <1>0, <2>2, <2>5 DEF Presented
    <3>3. \A q \in Requests : req'[q].phase = "granted" =>
              req[q].phase = "granted" /\ req'[q].new = req[q].new /\ req[q].new # req[r].new
      BY <2>1, <2>5 DEF OnePlace
    <3>4. \A c, d \in Browsers : stored'[c] = stored'[d] /\ stored'[c] # NoToken => c = d
      BY <1>0, <2>5, <3>1 DEF OnePlace
    <3> QED
      BY <1>0, <2>1, <3>2, <3>3, <3>4 DEF OnePlace
  <2> QED
    BY <1>4, <2>3, <2>4, <2>5 DEF Hears
<1>5. ASSUME NEW rs \in SUBSET Requests, Drops(rs)  PROVE OnePlace'
  <2>1. \A k \in Tokens : Presented(k)' => Presented(k)
    BY <1>5 DEF Drops, Presented, Carriers, Children
  <2>2. \A q \in Requests : req'[q].phase = req[q].phase /\ req'[q].new = req[q].new
    BY <1>5 DEF Drops
  <2>3. \A c, d \in Browsers : stored'[c] = stored'[d] /\ stored'[c] # NoToken => c = d
    BY <1>0, <1>5 DEF Drops, OnePlace
  <2> QED
    BY <1>0, <2>1, <2>2, <2>3 DEF OnePlace
<1>6. ASSUME NEW r \in Requests, Ends(r)  PROVE OnePlace'
  <2>1. \A k \in Tokens : Presented(k)' => Presented(k)
    BY <1>6 DEF Ends, Presented, Carriers, Children, Idle
  <2>2. \A q \in Requests : req'[q].phase = "granted" => q # r /\ req'[q] = req[q]
    BY <1>6 DEF Ends, Idle
  <2>3. stored' = stored
    BY <1>6 DEF Ends
  <2> QED
    BY <1>0, <2>1, <2>2, <2>3 DEF OnePlace
<1> QED
  BY <1>1, <1>2, <1>3, <1>4, <1>5, <1>6, StepShapes

LEMMA NextUnexcused ==
  ASSUME Base, KindsOK, OnePlace, OnePerTab, Unexcused, [Next]_vars
  PROVE  Unexcused'
<1> USE SessionAssumption
<1>0. /\ stored \in [Browsers -> Tokens \cup {NoToken}]
      /\ excused \subseteq Tokens
      /\ \A r \in Requests : /\ req[r].phase = "granted" => req[r].new \in Tokens
                             /\ req[r].tab \in Tabs \cup {NoTab}
                             /\ req[r].kind = "refresh" => req[r].token \in Tokens
  BY DEF Base, TypeOK, RequestType, CarriesOK, Minted
<1>1. ASSUME NEW t \in Tabs, NEW r \in Requests, Asks(t, r)  PROVE Unexcused'
  <2> SUFFICES ASSUME NEW k \in Tokens \ excused'  PROVE UnexcusedOK(k)'
    BY DEF Unexcused
  <2>1. /\ UNCHANGED <<token, stored, parent, replayed>> /\ Children(k)' = Children(k)
        /\ k \notin excused /\ req[r].phase = "idle"
        /\ \A q \in Requests \ {r} : req'[q] = req[q]
        /\ req'[r].phase = "sent" /\ req'[r].tab = t
    BY <1>1 DEF Asks, Children
  <2>2. CASE r \notin Carriers(k)'
    <3>1. Carriers(k)' \subseteq Carriers(k)
      BY <2>1, <2>2 DEF Carriers
    <3>2. Children(k) # {} => Carriers(k)' = Carriers(k)
      BY <2>1, <3>1 DEF Carriers, Unexcused, UnexcusedOK
    <3>3. \A q \in Carriers(k)' : req'[q] = req[q] /\ Listening(q)' = Listening(q)
      BY <2>1, <2>2 DEF Carriers, Listening
    <3> QED
      BY <2>1, <3>1, <3>2, <3>3 DEF Unexcused, UnexcusedOK
  <2>3. CASE r \in Carriers(k)'
    <3>1. /\ k = stored[BrowserOf[t]] /\ ~ Refreshing(t) /\ ~ PresentedElsewhere(t, k)
      BY <1>1, <2>3 DEF Asks, Carriers
    <3>2. Carriers(k) = {}
      BY <3>1 DEF Carriers, Refreshing, PresentedElsewhere
    <3>3. Children(k) = {}
      BY <1>0, <2>1, <3>1, <3>2 DEF Unexcused, UnexcusedOK
    <3>4. Carriers(k)' = {r}
      BY <2>1, <2>3, <3>2 DEF Carriers
    <3>5. \A b \in Browsers : stored[b] = k => b = BrowserOf[t]
      BY <3>1 DEF OnePlace
    <3>6. k \in replayed => token[k] # "live"
      BY <2>1 DEF Unexcused, UnexcusedOK
    <3> QED
      BY <2>1, <3>3, <3>4, <3>5, <3>6 DEF UnexcusedOK, Listening
  <2> QED
    BY <2>2, <2>3
<1>2. CASE Serves
  <2> SUFFICES ASSUME NEW k \in Tokens \ excused'  PROVE UnexcusedOK(k)'
    BY DEF Unexcused
  <2>1. /\ UNCHANGED <<stored, parent>> /\ k \notin excused
        /\ Children(k)' = Children(k) /\ Carriers(k)' = Carriers(k)
        /\ token'[k] = "live" => token[k] = "live"
    BY <1>2 DEF Serves, Children, Carriers
  <2>2. \A q \in Carriers(k) : /\ req'[q].tab = req[q].tab /\ (Listening(q)' <=> Listening(q))
                               /\ req[q].phase = "granted" => req'[q].phase = "granted"
                               /\ req'[q].phase = "found" => token[k] = "live" \/ req[q].phase = "found"
    BY <1>2 DEF Serves, Carriers, Listening
  <2>3. k \in replayed' \ replayed =>
          /\ token[k] # "live" /\ Children(k) = {}
          /\ \A q \in Carriers(k) : req'[q].phase # "found"
    <3> SUFFICES ASSUME k \in replayed' \ replayed
                 PROVE  /\ token[k] # "live" /\ Children(k) = {}
                        /\ \A q \in Carriers(k) : req'[q].phase # "found"
      OBVIOUS
    <3>1. PICK r \in Carriers(k) : token[k] # "live" /\ req[r].phase = "sent"
      BY <1>2 DEF Serves
    <3>2. Carriers(k) = {r} /\ Children(k) = {}
      BY <2>1, <3>1 DEF Unexcused, UnexcusedOK
    <3> QED
      BY <2>2, <3>1, <3>2
  <2> QED
    BY <2>1, <2>2, <2>3 DEF Unexcused, UnexcusedOK

<1>3. ASSUME NEW r \in Requests, NEW n \in Tokens, Grants(r, n)  PROVE Unexcused'
  <2> SUFFICES ASSUME NEW k \in Tokens \ excused'  PROVE UnexcusedOK(k)'
    BY DEF Unexcused
  <2>1. /\ UNCHANGED <<stored, replayed>> /\ k \notin excused
        /\ Carriers(k)' = Carriers(k) /\ Carriers(k) \subseteq Requests
        /\ req'[r].phase = "granted" /\ \A q \in Requests \ {r} : req'[q] = req[q]
        /\ \A q \in Requests : req'[q].tab = req[q].tab /\ (Listening(q)' <=> Listening(q))
    BY <1>3 DEF Grants, Carriers, Listening
  <2>2. k # n => (token'[k] = "live" => token[k] = "live")
    BY <1>3 DEF Grants
  <2>3. k = n => ~ Presented(k) /\ k \notin replayed
    BY <1>3, FreshUnpresented DEF Grants, KindsOK
  <2>4. CASE Children(k)' = Children(k)
    BY <2>1, <2>2, <2>3, <2>4 DEF Unexcused, UnexcusedOK, Presented
  <2>5. CASE k = req[r].token /\ req[r].phase = "found"
    <3>1. Carriers(k) = {r} /\ k \notin replayed /\ k # n
      BY <2>1, <2>3, <2>5 DEF KindsOK, Carriers, Presented, Unexcused, UnexcusedOK
    <3> QED
      BY <2>1, <3>1 DEF Unexcused, UnexcusedOK
  <2>6. Children(k)' = Children(k) \/ (k = req[r].token /\ req[r].phase = "found")
    BY <1>3 DEF Grants, Children, Base, TypeOK, LineOK
  <2> QED
    BY <2>4, <2>5, <2>6
<1>4. ASSUME NEW r \in Requests, Hears(r)  PROVE Unexcused'
  <2> SUFFICES ASSUME NEW k \in Tokens \ excused'  PROVE UnexcusedOK(k)'
    BY DEF Unexcused
  <2>1. /\ UNCHANGED <<token, replayed>> /\ k \notin excused /\ Children(k)' = Children(k)
        /\ Carriers(k)' = Carriers(k) \ {r} /\ Carriers(k) \subseteq Requests
        /\ \A q \in Requests \ {r} : req'[q] = req[q] /\ (Listening(q)' <=> Listening(q))
    BY <1>4 DEF Hears, Carriers, Children, Idle, Listening
  <2>2. PICK c \in Browsers : c = BrowserOf[req[r].tab]
    BY <1>0, <1>4 DEF Hears, Listening
  <2>3. PICK m \in Tokens \cup {NoToken} :
          /\ stored' = [stored EXCEPT ![c] = m]
          /\ m \in Tokens => req[r].phase = "granted" /\ m = req[r].new
    BY <1>0, <1>4, <2>2 DEF Hears
  <2>4. k = m => ~ Presented(k)
    BY <2>3 DEF OnePlace
  <2>5. CASE k = m
    BY <1>0, <2>1, <2>3, <2>4, <2>5 DEF Unexcused, UnexcusedOK, Presented
  <2>6. CASE k # m
    <3>1. \A b \in Browsers : stored'[b] = k => stored[b] = k /\ b # c
      BY <1>0, <2>3, <2>6
    <3>2. \A b \in Browsers : stored'[b] = k /\ Children(k) # {} => Carriers(k) # {} /\ r \notin Carriers(k)
      BY <2>1, <2>2, <3>1 DEF Unexcused, UnexcusedOK
    <3> QED
      BY <2>1, <3>1, <3>2 DEF Unexcused, UnexcusedOK
  <2> QED
    BY <2>5, <2>6
<1>5. ASSUME NEW rs \in SUBSET Requests, Drops(rs)  PROVE Unexcused'
  <2> SUFFICES ASSUME NEW k \in Tokens \ excused'  PROVE UnexcusedOK(k)'
    BY DEF Unexcused
  <2>1. /\ UNCHANGED <<token, replayed>> /\ k \notin excused /\ Children(k)' = Children(k)
        /\ Carriers(k)' = Carriers(k)
        /\ \A b \in Browsers : stored'[b] = k => stored[b] = k
    BY <1>5 DEF Drops, Carriers, Children
  <2>2. \A q \in Carriers(k) : q \notin rs
    BY <1>5 DEF Drops, Carriers, RefreshedBy
  <2>3. \A q \in Carriers(k) : /\ req'[q].phase = req[q].phase /\ req'[q].tab = req[q].tab
                               /\ Listening(q)' <=> Listening(q)
    BY <1>5, <2>2 DEF Drops, Carriers, Listening
  <2> QED
    BY <2>1, <2>3 DEF Unexcused, UnexcusedOK
<1>6. ASSUME NEW r \in Requests, Ends(r)  PROVE Unexcused'
  <2> SUFFICES ASSUME NEW k \in Tokens \ excused'  PROVE UnexcusedOK(k)'
    BY DEF Unexcused
  <2>1. /\ UNCHANGED <<token, stored, replayed>> /\ k \notin excused /\ Children(k)' = Children(k)
        /\ r \notin Carriers(k)
    BY <1>6 DEF Ends, Children, Unexcused, UnexcusedOK
  <2>2. /\ Carriers(k)' = Carriers(k)
        /\ \A q \in Carriers(k) : req'[q] = req[q] /\ (Listening(q)' <=> Listening(q))
    BY <1>6, <2>1 DEF Ends, Carriers, Idle, Listening
  <2> QED
    BY <2>1, <2>2 DEF Unexcused, UnexcusedOK
<1> QED
  BY <1>1, <1>2, <1>3, <1>4, <1>5, <1>6, StepShapes

(* A client sets off the replay defence with a token it had exchanged only *)
(* if it never heard the answer, or another tab was exchanging the token.  *)
THEOREM ReplaysExcused == Spec => []ReplayMeansRaceOrLoss
<1>1. Init => KindsOK /\ OnePlace /\ OnePerTab /\ Unexcused
  <2> SUFFICES ASSUME Init PROVE KindsOK /\ OnePlace /\ OnePerTab /\ Unexcused
    OBVIOUS
  <2>1. \A r \in Requests : req[r] = Idle
    BY DEF Init
  <2>2. \A k \in Tokens : Carriers(k) = {} /\ Children(k) = {}
    BY <2>1, SessionAssumption DEF Init, Carriers, Children, Idle
  <2>3. KindsOK /\ OnePerTab
    BY <2>1 DEF Init, KindsOK, OnePerTab, Idle, Listening
  <2>4. OnePlace
    BY <2>1 DEF Init, OnePlace, Idle
  <2>5. Unexcused
    BY <2>2 DEF Init, Unexcused, UnexcusedOK
  <2> QED
    BY <2>3, <2>4, <2>5
<1>2. Base /\ Unexcused => ReplayMeansRaceOrLoss
  BY DEF Base, TypeOK, Unexcused, UnexcusedOK, ReplayMeansRaceOrLoss
<1> QED
  BY <1>1, <1>2, InitBase, NextBase, NextKinds, NextPlace, NextPerTab, NextUnexcused, PTL DEF Spec

-----------------------------------------------------------------------------
(* Signing out.                                                            *)

(* Whatever a browser that signed out still waits for is the answer to a   *)
(* logout, which brings no token.                                          *)
LeftOK ==
    \A b \in left :
        /\ stored[b] = NoToken
        /\ \A r \in Requests : Listening(r) /\ BrowserOf[req[r].tab] = b => req[r].kind = "logout"

LEMMA NextLeft == Base /\ KindsOK /\ LeftOK /\ [Next]_vars => LeftOK'
<1> SUFFICES ASSUME Base, KindsOK, LeftOK, [Next]_vars PROVE LeftOK'
  OBVIOUS
<1>0. /\ BrowserOf \in [Tabs -> Browsers] /\ NoTab \notin Tabs
      /\ stored \in [Browsers -> Tokens \cup {NoToken}] /\ left \subseteq Browsers
      /\ req \in [Requests -> RequestType]
      /\ \A r \in Requests : req[r].tab \in Tabs \cup {NoTab}
  BY SessionAssumption DEF Base, TypeOK, RequestType
<1> USE DEF LeftOK, Listening, clientVars, clientHistory
(* What leaves the stored tokens alone, takes no browser in, and does not  *)
(* move a request to a tab or change its kind.                             *)
<1>a. ASSUME left' \subseteq left, stored' = stored,
             \A q \in Requests : req'[q].tab # NoTab =>
                                   req'[q].tab = req[q].tab /\ req'[q].kind = req[q].kind
      PROVE  LeftOK'
  BY <1>a
<1>1. ASSUME NEW t \in Tabs, NEW r \in Requests, OpenTab(t, r) \/ Refresh(t, r)  PROVE LeftOK'
  <2>1. stored' = stored /\ left' = left
    BY <1>1 DEF OpenTab, Refresh
  <2>2. CASE stored[BrowserOf[t]] = NoToken
    <3>1. req' = req
      BY <1>1, <2>2 DEF OpenTab, Refresh
    <3> QED
      BY <1>a, <2>1, <3>1
  <2>3. CASE stored[BrowserOf[t]] # NoToken
    <3>1. BrowserOf[t] \notin left
      BY <2>3
    <3>2. req'[r].tab = t /\ \A q \in Requests \ {r} : req'[q] = req[q]
      BY <1>0, <1>1, <2>3 DEF OpenTab, Refresh, SendRefresh, Send
    <3> QED
      BY <2>1, <3>1, <3>2
  <2> QED
    BY <2>2, <2>3
<1>2. ASSUME NEW t \in Tabs, NEW r \in Requests, LogIn(t, r) \/ ChangeEmail(t, r)  PROVE LeftOK'
  <2>1. /\ stored' = stored /\ left' = left \ {BrowserOf[t]}
        /\ req'[r].tab = t /\ \A q \in Requests \ {r} : req'[q] = req[q]
    BY <1>0, <1>2 DEF LogIn, ChangeEmail, Send
  <2> QED
    BY <2>1
<1>3. ASSUME NEW t \in Tabs, NEW r \in Requests, LogOut(t, r)  PROVE LeftOK'
  <2>1. /\ stored' = stored /\ left' = left
        /\ req'[r].kind = "logout" /\ \A q \in Requests \ {r} : req'[q] = req[q]
    BY <1>0, <1>3 DEF LogOut, Send
  <2> QED
    BY <2>1
<1>4. ASSUME NEW r \in Requests, Adopt(r)  PROVE LeftOK'
  <2>1. /\ left' = left /\ req'[r].tab = NoTab /\ \A q \in Requests \ {r} : req'[q] = req[q]
        /\ stored' = [stored EXCEPT ![BrowserOf[req[r].tab]] = req[r].new]
    BY <1>0, <1>4 DEF Adopt, SetSession, Finished, Idle
  <2>2. BrowserOf[req[r].tab] \notin left
    BY <1>4 DEF Adopt, KindsOK
  <2> QED
    BY <1>0, <2>1, <2>2
(* Signing out takes in a browser that waits for nothing else.             *)
<1>b. ASSUME NEW r \in Requests, Listening(r), left' = Leaving(r),
             stored' = [stored EXCEPT ![BrowserOf[req[r].tab]] = NoToken],
             req'[r].tab = NoTab,
             \A q \in Requests \ {r} : req'[q] = req[q]
      PROVE  LeftOK'
  <2>1. BrowserOf[req[r].tab] \in Browsers
    BY <1>0, <1>b
  <2>2. \A b \in left' \ left :
          /\ b = BrowserOf[req[r].tab]
          /\ \A q \in Requests \ {r} : ~ (Listening(q) /\ BrowserOf[req[q].tab] = b)
    BY <1>b DEF Leaving
  <2>3. \A b \in left' : stored'[b] = NoToken
    BY <1>0, <1>b, <2>1, <2>2
  <2>4. \A b \in left' : \A q \in Requests \ {r} :
            Listening(q) /\ BrowserOf[req[q].tab] = b => req[q].kind = "logout"
    BY <2>2
  <2> QED
    BY <1>b, <2>3, <2>4
<1>5. ASSUME NEW r \in Requests, Discard(r)  PROVE LeftOK'
  <2>1. /\ left' = Leaving(r) /\ stored' = [stored EXCEPT ![BrowserOf[req[r].tab]] = NoToken]
        /\ req'[r].tab = NoTab /\ \A q \in Requests \ {r} : req'[q] = req[q]
    BY <1>0, <1>5 DEF Discard, SetSession, Finished, Idle
  <2> QED
    BY <1>5, <1>b, <2>1 DEF Discard
<1>6. ASSUME NEW r \in Requests, Fail(r)  PROVE LeftOK'
  <2>1. /\ req'[r].tab = NoTab /\ left' = Leaving(r)
        /\ \A q \in Requests \ {r} : req'[q] = req[q]
    BY <1>6 DEF Fail, Unheard, Moved
  <2>2. CASE req[r].kind \in {"refresh", "logout"}
    <3>1. stored' = [stored EXCEPT ![BrowserOf[req[r].tab]] = NoToken]
      BY <1>6, <2>2 DEF Fail, SetSession
    <3> QED
      BY <1>6, <1>b, <2>1, <3>1 DEF Fail
  <2>3. CASE req[r].kind \notin {"refresh", "logout"}
    <3>1. stored' = stored /\ left' = left
      BY <1>6, <2>1, <2>3 DEF Fail, Leaving
    <3> QED
      BY <1>a, <2>1, <3>1
  <2> QED
    BY <2>2, <2>3
<1>7. ASSUME NEW r \in Requests, Abandon(r)  PROVE LeftOK'
  BY <1>0, <1>7, <1>a DEF Abandon, Finished, Idle
<1>8. ASSUME NEW t \in Tabs, CloseTab(t)  PROVE LeftOK'
  <2>1. stored' = stored /\ left' = left
    BY <1>8 DEF CloseTab
  <2>2. \A q \in Requests : req'[q].kind = req[q].kind /\ req'[q].tab \in {req[q].tab, NoTab}
    BY <1>8 DEF CloseTab, Unheard, Moved
  <2> QED
    BY <1>a, <2>1, <2>2
<1>9. ASSUME NEW r \in Requests, Lookup(r) \/ Sweep(r) \/ Revoke(r)  PROVE LeftOK'
  <2>1. stored' = stored /\ left' = left /\ \E p \in Phases : req' = At(r, p)
    BY <1>9 DEF Lookup, Sweep, Revoke, Phases
  <2>2. \A q \in Requests : req'[q].kind = req[q].kind /\ req'[q].tab = req[q].tab
    BY <2>1 DEF At, Moved
  <2> QED
    BY <1>a, <2>1, <2>2
<1>10. ASSUME NEW r \in Requests, NEW n \in Tokens, Rotate(r, n) \/ Issue(r, n)  PROVE LeftOK'
  <2>1. stored' = stored /\ left' = left /\ req' = Granted(r, n)
    BY <1>10 DEF Rotate, Issue
  <2>2. \A q \in Requests : req'[q].kind = req[q].kind /\ req'[q].tab = req[q].tab
    BY <2>1 DEF Granted, Moved
  <2> QED
    BY <1>a, <2>1, <2>2
<1>11. CASE Purge \/ (\E k \in Tokens : Expire(k)) \/ UNCHANGED vars
  BY <1>11, <1>a DEF Purge, Expire, vars
<1> QED
  BY <1>1, <1>2, <1>3, <1>4, <1>5, <1>6, <1>7, <1>8, <1>9, <1>10, <1>11 DEF Next

(* A browser that signed out with nothing else under way holds no refresh  *)
(* token until someone signs in, or changes the email, from one of its     *)
(* tabs: whatever arrives in between cannot bring one back.                *)
THEOREM SignsOut == Spec => []SignedOutHoldsNothing
<1>1. Init => KindsOK /\ LeftOK
  BY DEF Init, KindsOK, LeftOK, Idle
<1>2. LeftOK => SignedOutHoldsNothing
  BY DEF LeftOK, SignedOutHoldsNothing
<1> QED
  BY <1>1, <1>2, InitBase, NextBase, NextKinds, NextLeft, PTL DEF Spec

=============================================================================
