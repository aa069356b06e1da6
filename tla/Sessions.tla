------------------------------ MODULE Sessions ------------------------------
(***************************************************************************)
(* The refresh tokens of one user, from both ends.                         *)
(*                                                                         *)
(* The server (internal/auth/service.go) rotates a refresh token each time *)
(* it is presented and treats a revoked one as a replay, which revokes     *)
(* every token of the user.  Each handler is several queries, and handlers *)
(* interleave between queries (internal/database/db.go allows one          *)
(* connection, so a query or a transaction is one step).                   *)
(*                                                                         *)
(* The client (web/src/lib/api.ts) keeps one refresh token per browser in  *)
(* localStorage, shared by the tabs, and allows one refresh at a time per  *)
(* tab.  Any refresh that fails, for whatever reason, drops the stored     *)
(* token.                                                                  *)
(*                                                                         *)
(* Signing up, a password login, Google and the two-factor answers all end *)
(* in issueSession and are one kind of request here, "login".              *)
(***************************************************************************)
EXTENDS Naturals, FiniteSets

CONSTANTS
    Browsers,    \* browsers the user is signed in from
    Tabs,        \* tabs that may be open in them
    BrowserOf,   \* the browser of a tab
    Tokens,      \* refresh tokens that can be minted
    Requests,    \* requests being handled at once
    NoToken, NoTab,
    MaxTroubles, \* bound: answers lost, tabs closed, tokens that expire
    MaxChanges   \* bound: changes of the email address

ASSUME SessionAssumption ==
    /\ BrowserOf \in [Tabs -> Browsers]
    /\ NoToken \notin Tokens /\ NoTab \notin Tabs
    /\ MaxTroubles \in Nat /\ MaxChanges \in Nat

VARIABLES
    token,     \* refresh_tokens: the state of each row
    expired,   \* rows whose expires_at has passed
    stored,    \* localStorage: roundly.refresh_token
    open,      \* tabs that are open
    access,    \* tabs that hold an access token in memory
    req,       \* requests from the moment they are sent
    faults, changes,  \* counters for the bounds
    parent,    \* history: the token each token replaced
    login,     \* history: the first token of the login each token descends from
    overlapped,\* history: tokens two refreshes had both read as live
    swept,     \* history: logins whose tokens were all revoked at once
    out,       \* history: those of them with no rotation under way
    replayed,  \* history: tokens whose replay the server detected
    excused,   \* history: tokens a client could not but present twice
    changed,   \* history: tokens that answer a change of email
    left       \* history: browsers that signed out with nothing under way, and idle since

serverVars == <<token, expired>>
clientVars == <<stored, open, access>>
boundVars == <<faults, changes>>
lineVars == <<parent, login, overlapped>>
sweepVars == <<swept, out>>
clientHistory == <<replayed, excused, changed, left>>
vars == <<token, expired, stored, open, access, req, faults, changes, parent, login,
          overlapped, swept, out, replayed, excused, changed, left>>

Kinds == {"none", "refresh", "login", "logout", "change"}
Phases == {"idle", "sent", "found", "replay", "swept", "granted", "refused"}

Idle == [kind |-> "none", phase |-> "idle", tab |-> NoTab, token |-> NoToken, new |-> NoToken]

RequestType == [kind : Kinds, phase : Phases, tab : Tabs \cup {NoTab},
                token : Tokens \cup {NoToken}, new : Tokens \cup {NoToken}]

Minted == {k \in Tokens : token[k] # "unminted"}

(* What the bound MaxTroubles counts.                                      *)
Troubles == faults + Cardinality(expired)

TypeOK ==
    /\ token \in [Tokens -> {"unminted", "live", "revoked", "purged"}]
    /\ expired \subseteq Minted
    /\ stored \in [Browsers -> Tokens \cup {NoToken}]
    /\ open \subseteq Tabs
    /\ access \in [Tabs -> BOOLEAN]
    /\ req \in [Requests -> RequestType]
    /\ faults \in Nat /\ changes \in Nat
    /\ parent \in [Tokens -> Tokens \cup {NoToken}]
    /\ login \in [Tokens -> Tokens \cup {NoToken}]
    /\ overlapped \subseteq Tokens /\ swept \subseteq Tokens /\ out \subseteq Tokens
    /\ replayed \subseteq Tokens /\ excused \subseteq Tokens /\ changed \subseteq Tokens
    /\ left \subseteq Browsers
    /\ \A b \in Browsers : stored[b] \in Minted \cup {NoToken}
    /\ \A r \in Requests : /\ req[r].token \in Minted \cup {NoToken}
                           /\ req[r].phase \in {"found", "replay"} => req[r].token \in Minted
                           /\ req[r].phase = "granted" => req[r].new \in Minted

Init ==
    /\ token = [k \in Tokens |-> "unminted"] /\ expired = {}
    /\ stored = [b \in Browsers |-> NoToken]
    /\ open = {} /\ access = [t \in Tabs |-> FALSE]
    /\ req = [r \in Requests |-> Idle]
    /\ faults = 0 /\ changes = 0
    /\ parent = [k \in Tokens |-> NoToken] /\ login = [k \in Tokens |-> NoToken]
    /\ overlapped = {} /\ swept = {} /\ out = {}
    /\ replayed = {} /\ excused = {} /\ changed = {} /\ left = {}

-----------------------------------------------------------------------------
(* The client.                                                             *)

Refreshing(t) == \E r \in Requests : req[r].tab = t /\ req[r].kind = "refresh"
Acting(t) == \E r \in Requests : req[r].tab = t /\ req[r].kind \notin {"none", "refresh"}

(* Mutant of MayRefresh: refreshInFlight is not consulted.                 *)
RefreshesFreely(t) == TRUE

(* refreshInFlight: the callers of a tab share the refresh under way.      *)
MayRefresh(t) == ~ Refreshing(t)

Send(r, kind, t, k) ==
    /\ req[r].phase = "idle"
    /\ req' = [req EXCEPT ![r] =
                 [kind |-> kind, phase |-> "sent", tab |-> t, token |-> k, new |-> NoToken]]

(* Nothing a tab can see tells it that another one is presenting the token.*)
PresentedElsewhere(t, k) ==
    \E r \in Requests : req[r].kind = "refresh" /\ req[r].token = k /\ req[r].tab # t

SendRefresh(t, r) ==
    LET k == stored[BrowserOf[t]] IN
    /\ Send(r, "refresh", t, k)
    /\ excused' = IF PresentedElsewhere(t, k) THEN excused \cup {k} ELSE excused

(* A tab starts by trading the stored token, if there is one.              *)
OpenTab(t, r) ==
    /\ t \notin open
    /\ open' = open \cup {t}
    /\ IF stored[BrowserOf[t]] = NoToken
       THEN UNCHANGED <<req, excused>>
       ELSE SendRefresh(t, r)
    /\ UNCHANGED <<serverVars, stored, access, boundVars, lineVars, sweepVars,
                   replayed, changed, left>>

(* Some request of the tab was answered 401.                               *)
Refresh(t, r) ==
    /\ t \in open /\ MayRefresh(t) /\ stored[BrowserOf[t]] # NoToken
    /\ SendRefresh(t, r)
    /\ UNCHANGED <<serverVars, clientVars, boundVars, lineVars, sweepVars,
                   replayed, changed, left>>

LogIn(t, r) ==
    /\ t \in open /\ ~ access[t] /\ ~ Refreshing(t) /\ ~ Acting(t)
    /\ Send(r, "login", t, NoToken)
    /\ left' = left \ {BrowserOf[t]}
    /\ UNCHANGED <<serverVars, clientVars, boundVars, lineVars, sweepVars,
                   replayed, excused, changed>>

LogOut(t, r) ==
    /\ t \in open /\ access[t] /\ ~ Acting(t)
    /\ Send(r, "logout", t, stored[BrowserOf[t]])
    /\ UNCHANGED <<serverVars, clientVars, boundVars, lineVars, sweepVars, clientHistory>>

ChangeEmail(t, r) ==
    /\ t \in open /\ access[t] /\ ~ Acting(t) /\ changes < MaxChanges
    /\ Send(r, "change", t, NoToken)
    /\ changes' = changes + 1
    /\ left' = left \ {BrowserOf[t]}
    /\ UNCHANGED <<serverVars, clientVars, faults, lineVars, sweepVars, replayed, excused, changed>>

(* Mutant of SetSession: a session that ended stays in localStorage.       *)
SetSessionKeeps(t, k) ==
    /\ stored' = IF k = NoToken THEN stored ELSE [stored EXCEPT ![BrowserOf[t]] = k]
    /\ access' = [access EXCEPT ![t] = (k # NoToken)]

SetSession(t, k) ==
    /\ stored' = [stored EXCEPT ![BrowserOf[t]] = k]
    /\ access' = [access EXCEPT ![t] = (k # NoToken)]

Finished(r) == req' = [req EXCEPT ![r] = Idle]
Listening(r) == req[r].tab # NoTab

(* A session arrives, from a refresh, a login or a change of email.        *)
Adopt(r) ==
    /\ req[r].phase = "granted" /\ Listening(r)
    /\ SetSession(req[r].tab, req[r].new)
    /\ Finished(r)
    /\ UNCHANGED <<serverVars, open, boundVars, lineVars, sweepVars, clientHistory>>

(* The browsers signed out of once r, a logout, is over.                   *)
Leaving(r) ==
    LET b == BrowserOf[req[r].tab] IN
    IF req[r].kind = "logout"
       /\ ~ \E q \in Requests \ {r} : Listening(q) /\ BrowserOf[req[q].tab] = b
    THEN left \cup {b} ELSE left

(* A refused refresh and an answered logout both discard the local tokens. *)
Discard(r) ==
    /\ req[r].phase = "refused" /\ Listening(r)
    /\ SetSession(req[r].tab, NoToken)
    /\ left' = Leaving(r)
    /\ Finished(r)
    /\ UNCHANGED <<serverVars, open, boundVars, lineVars, sweepVars, replayed, excused, changed>>

Moved(q, phase, tab, new) ==
    [kind |-> q.kind, phase |-> phase, tab |-> tab, token |-> q.token, new |-> new]

Unheard(rs) ==
    [r \in Requests |-> IF r \in rs THEN Moved(req[r], req[r].phase, NoTab, req[r].new) ELSE req[r]]

RefreshedBy(rs) == {req[r].token : r \in {q \in rs : req[q].kind = "refresh"}}

(* The network fails a request.  The server may still be handling it; the  *)
(* client treats a refresh or a logout that failed as if it had been       *)
(* answered, and a login or a change as not having happened.               *)
Fail(r) ==
    /\ Listening(r) /\ Troubles < MaxTroubles
    /\ faults' = faults + 1
    /\ req' = Unheard({r})
    /\ excused' = excused \cup RefreshedBy({r})
    /\ IF req[r].kind \in {"refresh", "logout"}
       THEN SetSession(req[r].tab, NoToken)
       ELSE UNCHANGED <<stored, access>>
    /\ left' = Leaving(r)
    /\ UNCHANGED <<serverVars, open, changes, lineVars, sweepVars, replayed, changed>>

(* The tab is closed or reloaded; what it had sent goes on unheard.        *)
CloseTab(t) ==
    /\ t \in open /\ Troubles < MaxTroubles
    /\ faults' = faults + 1
    /\ open' = open \ {t} /\ access' = [access EXCEPT ![t] = FALSE]
    /\ LET rs == {r \in Requests : req[r].tab = t} IN
         /\ req' = Unheard(rs)
         /\ excused' = excused \cup RefreshedBy(rs)
    /\ UNCHANGED <<serverVars, stored, changes, lineVars, sweepVars, replayed, changed, left>>

(* A request nobody waits for ends, or is cancelled with its connection    *)
(* between two queries.                                                    *)
Abandon(r) ==
    /\ req[r].phase # "idle" /\ ~ Listening(r)
    /\ Finished(r)
    /\ UNCHANGED <<serverVars, clientVars, boundVars, lineVars, sweepVars, clientHistory>>

-----------------------------------------------------------------------------
(* The server.                                                             *)

(* Mutant of FoundLive: revoked_at is not looked at.                       *)
FoundUnexpired(k) == token[k] \in {"live", "revoked"} /\ k \notin expired

FoundLive(k) == token[k] = "live" /\ k \notin expired

At(r, phase) == [req EXCEPT ![r] = Moved(req[r], phase, req[r].tab, req[r].new)]

Reading(k) == {r \in Requests : req[r].phase = "found" /\ req[r].token = k}

(* Refresh, up to the decision taken on the row it read.                   *)
Lookup(r) ==
    /\ req[r].kind = "refresh" /\ req[r].phase = "sent"
    /\ LET k == req[r].token IN
       \/ /\ FoundLive(k)
          /\ req' = At(r, "found")
          /\ overlapped' = IF Reading(k) = {} THEN overlapped ELSE overlapped \cup {k}
          /\ UNCHANGED replayed
       \/ /\ ~ FoundLive(k) /\ token[k] = "revoked"
          /\ req' = At(r, "replay")
          /\ replayed' = replayed \cup {k}
          /\ UNCHANGED overlapped
       \/ /\ ~ FoundLive(k) /\ token[k] # "revoked"
          /\ req' = At(r, "refused")
          /\ UNCHANGED <<overlapped, replayed>>
    /\ UNCHANGED <<serverVars, clientVars, boundVars, parent, login, sweepVars,
                   excused, changed, left>>

Revoked(k) == IF token[k] = "live" THEN "revoked" ELSE token[k]

(* Mutant of Rotated: the presented token is left alone.                   *)
RotatedKeeps(k, n) == [token EXCEPT ![n] = "live"]

Rotated(k, n) == [token EXCEPT ![k] = Revoked(k), ![n] = "live"]

Issued(n) == [token EXCEPT ![n] = "live"]

Granted(r, n) == [req EXCEPT ![r] = Moved(req[r], "granted", req[r].tab, n)]

(* The transaction of Refresh: revoke what was presented, create the       *)
(* replacement.  What was read is not read again.                          *)
Rotate(r, n) ==
    /\ req[r].phase = "found" /\ n \notin Minted
    /\ LET k == req[r].token IN
         /\ token' = Rotated(k, n)
         /\ parent' = [parent EXCEPT ![n] = k]
         /\ login' = [login EXCEPT ![n] = login[k]]
    /\ req' = Granted(r, n)
    /\ UNCHANGED <<expired, clientVars, boundVars, overlapped, sweepVars, clientHistory>>

(* issueSession, for a login or at the end of ChangeEmail.                 *)
Issue(r, n) ==
    /\ n \notin Minted
    /\ \/ req[r].kind = "login" /\ req[r].phase = "sent"
       \/ req[r].kind = "change" /\ req[r].phase = "swept"
    /\ token' = Issued(n)
    /\ login' = [login EXCEPT ![n] = n]
    /\ req' = Granted(r, n)
    /\ changed' = IF req[r].kind = "change" THEN changed \cup {n} ELSE changed
    /\ UNCHANGED <<expired, clientVars, boundVars, parent, overlapped, sweepVars,
                   replayed, excused, left>>

Logins == {login[k] : k \in Minted}
Rotating == {login[req[r].token] : r \in {q \in Requests : req[q].phase = "found"}}

(* revokeAllForUser, as a replay's answer and in ChangeEmail.              *)
Sweep(r) ==
    /\ \/ req[r].kind = "change" /\ req[r].phase = "sent" /\ req' = At(r, "swept")
       \/ req[r].phase = "replay" /\ req' = At(r, "refused")
    /\ token' = [k \in Tokens |-> Revoked(k)]
    /\ swept' = swept \cup Logins
    /\ out' = out \cup (Logins \ Rotating)
    /\ UNCHANGED <<expired, clientVars, boundVars, lineVars, clientHistory>>

Revoke(r) ==
    /\ req[r].kind = "logout" /\ req[r].phase = "sent"
    /\ token' = [k \in Tokens |-> IF k = req[r].token THEN Revoked(k) ELSE token[k]]
    /\ req' = At(r, "refused")
    /\ UNCHANGED <<expired, clientVars, boundVars, lineVars, sweepVars, clientHistory>>

Expire(k) ==
    /\ k \in Minted \ expired /\ Troubles < MaxTroubles
    /\ expired' = expired \cup {k}
    /\ UNCHANGED <<token, clientVars, req, boundVars, lineVars, sweepVars, clientHistory>>

(* The hourly sweep of StartJanitor.                                       *)
Purge ==
    /\ \E k \in expired : token[k] # "purged"
    /\ token' = [k \in Tokens |-> IF k \in expired THEN "purged" ELSE token[k]]
    /\ UNCHANGED <<expired, clientVars, req, boundVars, lineVars, sweepVars, clientHistory>>

-----------------------------------------------------------------------------
Next ==
    \/ \E t \in Tabs, r \in Requests :
          OpenTab(t, r) \/ Refresh(t, r) \/ LogIn(t, r) \/ LogOut(t, r) \/ ChangeEmail(t, r)
    \/ \E r \in Requests : Adopt(r) \/ Discard(r) \/ Fail(r) \/ Abandon(r)
    \/ \E t \in Tabs : CloseTab(t)
    \/ \E r \in Requests : Lookup(r) \/ Sweep(r) \/ Revoke(r)
    \/ \E r \in Requests, n \in Tokens : Rotate(r, n) \/ Issue(r, n)
    \/ \E k \in Tokens : Expire(k)
    \/ Purge

Spec == Init /\ [][Next]_vars

-----------------------------------------------------------------------------
(* Properties.                                                             *)

Children(k) == {n \in Tokens : parent[n] = k}

(* A refresh token is exchanged once, unless two refreshes had both read   *)
(* it as live before either of them rotated it.                            *)
SingleUseUnlessOverlapped ==
    \A k \in Tokens \ overlapped :
        /\ \A m, n \in Children(k) : m = n
        /\ Children(k) # {} => token[k] # "live" /\ Reading(k) = {}

(* A login has at most one refresh token that still works, unless one of   *)
(* its tokens was exchanged twice.                                         *)
OneLiveTokenPerLogin ==
    \A k, n \in Tokens :
        /\ token[k] = "live" /\ token[n] = "live" /\ k # n /\ login[k] = login[n]
        => \E o \in overlapped : login[o] = login[k]

(* Once every session has been revoked, by a replay or by a change of      *)
(* email, a login that was not in the middle of a rotation stays out: none *)
(* of its tokens, whoever still holds or presents one, works again.        *)
SweptLoginsStayOut ==
    /\ \A k \in Tokens : login[k] \in out => token[k] # "live"
    /\ \A r \in Requests : req[r].phase = "found" => login[req[r].token] \notin out

(* A client sets off the replay defence with a token it has already        *)
(* exchanged only if it never heard the answer or another tab was          *)
(* exchanging the same token: the refreshes of one tab never do.           *)
ReplayMeansRaceOrLoss ==
    \A k \in replayed : Children(k) # {} => k \in excused

(* web/src/lib/auth.tsx: signing out discards the local tokens, whatever   *)
(* the server answers.  A browser signed out of while no other request of  *)
(* its tabs was under way holds no token until someone signs in or changes *)
(* the email from a tab that was left open.                                *)
SignedOutHoldsNothing == \A b \in left : stored[b] = NoToken

(* docs/profile-test-checklist.md: after a change of email, you stay       *)
(* signed in here.  The replacement works until it is used, expires, or    *)
(* the email is changed again.                                             *)
StaysSignedInHere ==
    \A b \in Browsers :
        /\ stored[b] \in changed \ expired /\ changes = 1
        /\ \A r \in Requests : req[r].token # stored[b]
        => token[stored[b]] = "live"

=============================================================================
