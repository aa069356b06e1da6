# TLA+ models of Roundly

Roundly is a self-hosted golf scorecard: a Go server over one SQLite file
(`cmd/server`, `internal/`, `db/`) and a React single-page application
(`web/src`) that keeps working without a network while a round is played. This
directory holds TLA+ specifications of the parts whose behaviour depends on
interleaving, loss, retries and crashes, the TLC configurations that check them
on small instances, and TLAPS proofs that hold for every instance.

## 1. The system

### Components

| Component | State it keeps | Operations | What makes it correct |
|---|---|---|---|
| Live round sync (`web/src/lib/roundQueue.ts`, `web/src/pages/LiveRoundPage.tsx`, `internal/round`) | queue and cache in `localStorage`, rows on the screen, `rounds`/`round_holes` on the server | mount, tap, timer, "online", `flushQueue`, Finish, leave; `SaveHoles`, `SetStatus` | what the player entered last ends on the server; nothing is lost by a kill, a lost request, or Finish |
| Refresh-token sessions (`internal/auth/service.go`, `web/src/lib/api.ts`, `auth.tsx`) | `refresh_tokens`, one stored token per browser, an access token per tab | `Refresh`, `LogIn`, `LogOut`, `ChangeEmail`, janitor; `refreshSession`, `setSession` | single use, replay detection, sign-out means out |
| Sign-in codes (`internal/auth/challenge.go`, `recovery.go`, `twofactor.go`) | `email_challenges`, `recovery_codes` | issue, guess, redeem, recover, regenerate, sweep | one live code, bounded guesses, one session per code |
| Address, second factor, remembered devices (`internal/account/service.go`, `internal/auth/verification.go`, `device.go`, `twofactor.go`) | the `users` row, `trusted_devices`, outstanding link and code | `ChangeEmail`, `SetPassword`, `SetTwoFactor`, `VerifyEmail`, `CompleteTwoFactor` | confirmed means proven; trust does not outlive the credentials it was granted under |
| Rounds on the server (`internal/round`) | `rounds`, `round_holes` | `Start`, `SaveHoles`, `UpdateMeta`, `SetStatus`, `Delete` | a replayed start is one round; a card is never half-entered; edits do not undo each other |
| Statistics and handicap (`internal/round/stats.go`, `internal/stats`) | none: computed at every read, from two statements | `Summarize`, `DifferentialFor`, `Overview` | figures agree with their definition and are of rounds that were complete |
| Club bag (`internal/club`) | `clubs` | create, update, bench/retire, delete | a played club keeps its row |
| Course directory (`internal/course`) | `courses`, `tees`, `holes`, `course_removal_requests` | edit, import, request and resolve removal | one open request per course, resolved once; stroke indexes distinct |
| API keys (`internal/apikey`) | `api_keys`, a last-used queue | create, revoke, authenticate, flush | the cap; a revoked key stops; read-only keys only read |
| Rate limits (`internal/ratelimit`, `internal/auth/throttle.go`) | in-memory windows, one map per limiter | `Allow`, `Exceeded`, janitor; `check`, `failed`, `attempt` | failures are counted, and nothing but failures; attempts stay bounded |
| Accounts and Google sign-in (`internal/auth/service.go`, `google.go`, `handoff.go`) | `users`, `oauth_accounts`, handoff codes in memory | sign-up, callback, exchange, link, delete | an identity signs in to one account; every account can be signed in to |
| Profile, export, import, avatars (`internal/account`) | profile columns, files | update, export, import, delete account | an import fills, never overwrites, and can be repeated |
| Plumbing (mail, geocode, config, database, httpx, id, timex, server, other screens) | none of their own | I/O, formatting, dispatch | - |

### How they interact

* The SPA calls the API; every handler is a sequence of SQL statements. The
  database has one connection (`internal/database/db.go`), so **one statement,
  or one `InTx` transaction, is atomic** and handlers interleave between them.
  That is the grain of every server-side action here.
* A request's context is cancelled when the caller disconnects or after 30 s,
  so a handler may stop **between two statements**, having done the first.
* Tabs of one browser share `localStorage` and nothing else: the in-flight
  guard of `refreshSession` is per tab, the stored token per browser.
* `ChangeEmail` reaches into sessions, devices and verification links; rounds
  reference clubs and copy what they need of a course when they start.
* Hourly goroutines (`StartJanitor`) delete expired rows under live requests.

### What is hard

Overlapping pushes of one hole, late and lost requests, the browser killed with
work queued; token rotation decided on a row read earlier; guarded updates whose
row count nobody reads; counts read in one statement and acted on in the next
(keys, mails, removal requests, stroke indexes); multi-statement changes of
credentials, sign-ups and restores cut short or overtaken; limiters asked before
and charged after, with a map that may be full; figures made of two reads.
`PROJECT.json` "hazards" lists each at its line with the properties aimed at it.

## 2. Modules

| Module | Models | Composes or extends |
|---|---|---|
| `RoundSync` | the live screen, the queue, every run of `flushQueue`, the requests in flight and the server's side of a hole | client + network + server |
| `Sessions` | browsers, tabs and the refresh-token handlers | client + server |
| `Challenges` | mailed sign-in codes and recovery codes | server |
| `Credentials` | the address, its confirmation, two-factor, remembered devices | server, external mailbox |
| `Rounds` | one round on the server and the clubs it names | the handlers of `internal/round` and `internal/club` |
| `OneTimeCode` | what a mailed code promises (abstract) | implemented by `Challenges` |
| `SavedRound` | what the live round promises, hole by hole (abstract) | implemented by `RoundSync` |
| `Courses` | courses, tees, holes, cells of the grid, import, removal requests | the handlers of `internal/course` |
| `Callers` | who asks, and from where | extended by `ApiKeys` and `SignIns` |
| `RateLimiter` | one fixed-window limiter, as operators over its map | instantiated by `ApiKeys` (once) and `SignIns` (three times) |
| `ApiKeys` | keys, the guard in front of them, the last-used queue | server + flusher + clock + restart |
| `SignIns` | the throttles and the four handlers that use them | server + clock + restart |
| `Accounts` | accounts, Google identities, handoff codes | server, external identity |
| `Imports` | restores of a backup beside the owner's edits | server |
| `Scorecards` | the figures of one card, as operators | extended by `Statistics` |
| `Statistics` | rounds that change while an overview is computed | `Scorecards` + the writers of `internal/round` |
| `MC*` | symmetry sets, and the constants that are functions | the module of the same name |
| `*_proofs` | theorems and their lemmas | the module of the same name, `TLAPS`; `Accounts_proofs` also `Imports`, `ApiKeys_proofs` also `SignIns`, `Rounds_proofs` also `Statistics` |

### RoundSync

`queue` and `cache` are the two `localStorage` keys; `rows` is the screen's map,
absent until seeded from the cache or the first answer. A run of `flushQueue`
is a record in `runs`: the copy of the queue it took (`todo`), the hole on the
wire, and a phase. `Commit` is the server's transaction in `SaveHoles`;
`Answer` is the separate read that makes the response; `Delivered` is the
client's continuation, which reads the queue *again* and removes the entry only
if unchanged. `GiveUp` is the client abandoning a request; the request may still
`Land`. `Finisher` is the run `handleFinish` awaits; `finish` is the rest of that
function. `Quit` kills the browser, `Leave` unmounts the component. `late` and
`raced` are history: the two situations in which the code gives no guarantee
(a hole tapped during `/complete`; a hole tapped while an older payload of it is
moving). Scoring fields other than strokes and putts travel in the same payload
and are left out; two screens on one round are not modelled.

### Sessions

A token row is `unminted`, `live`, `revoked` or `purged`. `Lookup` is the read
outside the transaction, `Rotate` the transaction, `Sweep` is
`revokeAllForUser`. A request record lives from `Send` to the client's `Adopt`,
`Discard` or `Fail`. `parent`, `login` record descent; `overlapped` marks tokens
two refreshes had both read as live.

### Challenges

Rows are sets of ids (`made`, `consumed`, `expired`); `recent` are the messages of
the last hour (`challengeSendWindow`), which outlive the ten minutes of a code and,
when `Purge` deletes the row of an expired code, the row: `CountRecentEmailChallenges`
sees `recent` only where it meets `made`. Of time the model keeps the order that
the code fixes: a code expires before its message leaves the window, and what one
sweep deleted has left the window when the next comes. A row swept is at least ten
minutes old, so the second holds for sweeps fifty minutes apart, and `StartJanitor`
ticks once an hour, from the start of the process. A request goes
through the phases of `redeemChallenge` (`Load`, `Charge`, `Consume`, `Grant`)
or of `RedeemRecoveryCode` (`Load`, `Charge`, `Match`, `SpendCode`,
`SpendChallenge`, `Grant`), one statement each; `HangUp` stops it anywhere.
Whether a guess is right is chosen when it is made; hashing is not modelled.

### Credentials

One account. `StartChange`, `UpdateEmail`, `ForgetAllDevices`,
`SendAfterChange`, `SendLink` are `ChangeEmail`, which shares its
`ForgetAllDevices` with `SetPassword` and `SetTwoFactor`. `OpenLink`,
`CheckAddress`, `Confirm` are `VerifyEmail`; `LogIn`, `SendCode`, `RedeemCode`,
`Admit`, `Remember` are the two-factor sign-in. `proven` records the addresses
at which a link was opened (or that Google vouched for), `slipped` those given
between a link's last check and its effect. `armedFor` is the address of the row
when `SetUserTwoFactorEmail` sets the flag (by user id), and `overtaken` says that
an address change came between the reading of the confirmation and that.
`mailedTo` is where the code went that a remembered browser gave, `late` are the
browsers whose sign-in was past its last check when the address changed,
`outdated` those remembered before the latest change of address, and `cut` says
that a change of address ended between `UpdateUserEmail` and `ForgetAllDevices`.
Changes of password and of two-factor forget the devices too, but nothing in
`CompleteTwoFactor` looks at either again, so trust is followed against the
address only. Links and codes are read and
consumed in one step here: their own races are the matter of `Challenges`.
Sessions are left to `Sessions`.

### Rounds

One round, named by an id its player's browser chose, and the player's clubs.
`round` is the row's status or `"none"`, `meta` its date and notes as one value,
`card` the club each hole names; scores are the matter of `RoundSync`. Every
handler is a first read (`LookUp`, `LoadForSave`, `LoadForMeta`,
`LoadForStatus`, `LoadForDelete`, `LoadClub`) and a later write; `CheckClubs` is
the read of the bag inside `SaveHoles` (skipped when no hole names a club),
`CheckPlayed` the count inside the club's `Delete`. `Save` is the transaction:
all the holes and the round's row with the date and notes *read at the start*,
or nothing, when a hole is not one of the round's or a row it refers to has gone.
`noted`, `settled` and `hit` record what was last asked for; `overtaken` that the
date and notes were given while a save had read others; `struck` the clubs saved
while a deletion had already found them unplayed. A club's id is not given out
again. `Beyond` are hole numbers of the course outside the round's nine,
`Others` clubs of another player.

### OneTimeCode

Four variables: the codes issued, those still valid, which code each redemption
is for, and the sessions opened. `Issue` closes every other code; `Claim` begins
on a valid one; `Redeem` opens a session and closes the code. In `Challenges`,
`issued` is `used`, `valid` the rows that are outstanding and below the attempt
cap, `claim` the challenge a request loaded, `opened` is `grants`. Two claims on
one code may both redeem it: the code promises no more, and
`RedeemedOnceUnlessRaced` says when it happens.

### SavedRound

Five variables: for each hole what was entered last, what waits to be saved and
what the server has; the holes excused from the promise; whether the round was
declared done. `Enter` may excuse its hole; `Save` gives the server the last
entry; `Settle` ends the wait, of a hole that is not excused only with its entry
saved; `Slip` is an older entry reaching the server, for an excused hole;
`Complete` and `Forget` need every other hole settled. In `RoundSync`, `entered` is
`latest`, `waiting` the queue, `saved` the server's `card`, `excused` the holes that
are `raced` or `late`, `complete` the round's status on the server. Everything else
there (the cache, the screen, the copies of the queue, the requests and answers on
the wire, the second tab, the kills) only ever stutters here or takes one of these
steps.

### Courses

Rows of `courses`, `tees`, `holes`, `hole_tee_details` and
`course_removal_requests`; the cascades of the schema are part of each deletion.
Handlers whose read only answers "not found" are one step. `CheckNewHole` /
`AddHole` and `CheckHole` / `UpdateHole` are the stroke-index check and the write
after it; `Ask` / `RequestRemoval` and `OpenRemoval` / `ResolveRemoval` the
removal requests. `Import` is the transaction that matches tees by name and
holes by number and deletes the rest. A file is the names of its tees and the
stroke index of each hole. `crossed`, `doubled`, `contested` are history: the
three overlaps in which the code gives no guarantee. Addresses, ratings, display
order and the figures in a cell are left out: no handler decides on them.

### RateLimiter, ApiKeys, SignIns

A bucket is absent, running or elapsed; `Recorded` is `Allow`'s effect, `Allows`
its answer, `Exceeded` asks without recording, `Overflows` is the full map that
lets an unknown key through uncounted. `Ceiling` stands for every count from
there on.

In `ApiKeys`, `CountKeys` / `CreateKey` are the two statements of `Create`;
`Arrive` is the guard's question to the limiter, `Accept` / `Reject` what follows
`Authenticate`, `Enqueue` the non-blocking send of `noteUsed`, `Drain` and `Flush`
the flusher, `Forget` the end of a key's granularity. The guard's path and method
rules read no state; the requests here are those past them.

In `SignIns`, each call of a limiter is a step: `LogIn` (account axis),
`CheckAddress`, `Answer` (with the charge by account), `ChargeAddress`; `SignUp`
charges as it asks. `EnterCode` is `twoFactorVerify` and `twoFactorRecovery`, which
name no account. What the service answers is any of its outcomes. `wrong`,
`wrongFrom`, `created` count what happened, beside the limiters; an address a full
map has no room for is in neither.

### Accounts

`email`, `password`, `oauth` are the columns, with the `UNIQUE` and `FOREIGN KEY`
constraints as guards. `BySubject`, `ByEmail`, `CreateFromGoogle` / `LinkProvider`,
`IssueSession` are the statements of `CompleteGoogleLogin`; `SignUp` /
`InsertUser` those of a sign-up; `Link` / `LinkProvider` those of `LinkGoogle`.
Google is external: a subject is fixed, the address it shares and whether it
vouches for it may be any. `DeleteAccount` is one statement under `ON DELETE
CASCADE`.

### Imports

A file holds one profile, one club, one course (the profile's home course) and
one round, played there; what is in the account under the same key is a *copy*.
A restore goes through `Begin`, `FindHome`, `SaveProfile`, `SaveGender`, and then
`Look`, `LookForCourse`, `Put` or `PutFails` for clubs, courses and rounds in that
order; `GiveUp` stops it anywhere and keeps what is done. The owner edits,
creates and removes between any two of them. `raced` is history: what somebody
else wrote while a restore was about to.

### Scorecards, Statistics

`Summarize` names, for each figure, the subset of the card's holes it is taken
over. `Statistics` knows a round by its place from the newest, so that what is
counted, windowed or complete is a set of places and a figure is a sum over one;
sorting is the rank of a place (`Before`, `Lowest`, `Highest`). `Statistics` lets
rounds be started (with the ratings for what is played and who plays it), saved,
finished, reopened, abandoned and deleted between `ReadRounds` and `ReadHoles`; what
the second would answer is `Overview`. Ratings and differentials are counted in
tenths. `Older` are finished rounds behind the
ones that change, so that the record of twenty can be full. First-putt lengths,
clubs, yardages, stroke indexes and the side of a miss are reduced to what the
figures tell apart: the breakdowns of putts by length and of misses by side are
sums of the same form and are left out.

## 3. Runs

| Run | Instance | Asks |
|---|---|---|
| `RoundSyncOverlap` | 1 hole, 1 flusher + Finish, 2 taps, 1 fault, 2 mounts; fair | a settled hole is saved; every step is one of `SavedRound`'s or none; the queue drains unless it holds a refused entry; a round completes only saved |
| `Sessions` | 2 browsers, 3 tabs, 3 tokens, 2 requests, 1 trouble (a lost answer or an expiry), 1 change of email | single use unless overlapped; who sets off the replay defence; sign-out holds nothing; one live token per login; swept logins stay out |
| `SessionsHere` (violation) | 2 browsers, 4 tokens, 1 request, 1 change | "you stay signed in here": the other browser's next refresh signs this one out |
| `Challenges` | 2 challenges, 2 recovery codes, 2 requests, attempt cap 2, send cap 1 | one outstanding code; one session per code unless raced; bounded guesses; the messages of an hour accounted for; the refinement of `OneTimeCode` |
| `Credentials` | 2 addresses, 1 device, 2 requests | confirmed means proven; armed means proven when the flag was set; a remembered browser proved the current address |
| `Rounds` | 1 round, 2 holes and 1 outside it, 1 club and 1 of another player, 2 dates/notes, 2 requests | notes settle unless overtaken; a replayed start keeps the round; a played club stays; only own clubs |
| `Courses` | 1 course id, 2 tees with 1 name, 2 holes, 2 numbers, 1 stroke index, 2 removal requests, 2 requests | indexes distinct unless crossed; one pending unless doubled; removals on record unless contested |
| `ApiKeys` | 2 keys, cap 1, 2 addresses, failure limit 1, room to track 1, queue of 1, 2 requests; fair | keys and guesses bounded; blocked means guessed; a noted use does not wait for another request |
| `SignIns` | 2 accounts, 2 addresses, limits 2 (6 by address), room to track 1, 2 requests | attempts bounded on every axis; closed only by failures |
| `Accounts` | 2 accounts, 2 addresses, 2 Google identities, 1 handoff code, 2 requests | everyone can sign in; a session is its identity's |
| `Imports` | 2 restores, 2 copies, 1 edit | one copy of each; rounds find their course; a whole restore is whole; what was typed stays |
| `Statistics` | a nine and a full round of 1 and 2 holes, 3 payloads, 2 saves, 2 or 22 older rounds, windows 0 and 2, both genders | figures add up; the handicap is of the record; what is counted was complete |

Every invariant and property of a passing run has a mutant of the code model
that breaks it under the same configuration (`PROJECT.json` "mutants").

Eight further configurations are kept beside the modules and answer one question
each; they are not among the runs above. Each ends in a counterexample, described
in section 5: `RoundSyncLastEntry` and `RoundSyncFinish` (with `MCRoundSync`),
`ChallengesTwice` and `ChallengesHour` (`MCChallenges`), `CredentialsRetry` and
`CredentialsArming` (`MCCredentials`),
`CoursesExport` (`MCCourses`), `ImportsTwice` (`MCImports`).

### Why the bounds are enough

*RoundSync*: a bad order needs one older and one newer payload of a hole (two
taps), one lost request and one reopened screen; a second hole matters only for
the copy a run works on (two holes and three taps were checked once, and hold).
Three payload shapes are covered: set, cleared, and refused by `validateHole`
(putts above strokes).
*Sessions*: two requests at once is the smallest overlap; three tokens allow a
rotation of a rotation or a second login beside one. The code compares tokens
for identity only, so symmetry over them is sound. *Challenges*: an attempt
cap of two lets a challenge be live, guessed at and dead within a few steps; two
requests pass the send cap of one together, their two messages can be swept within
the hour and both can pass it again; the numbers 5 matter to no comparison but the
caps themselves. A resend reaches a challenge in use through the second request,
which may have counted before. That the messages a sweep forgot can exceed their
bound takes more challenges than that run has: one request and three challenges
(`ChallengesHour`, without the refuted statement) check it, and it is proved.
*Credentials*: two addresses distinguish old from new, and a
change back to the first; two requests overtake each other. *Rounds*: two holes
let a save be whole or half, two requests let any handler cross any other (with
three requests on one hole, and with two clubs, the same properties were checked
once and hold). *Courses*: two holes and one index are the least that can
collide, two requests the least that can cross. *ApiKeys*, *SignIns*: room to
track one key of two makes the map full and not full; limits of one or two are
reached and passed by two requests. *Accounts*: two of everything let identities,
addresses and accounts be swapped. *Imports*: two restores cross each other and
the owner; a second club or course would be handled by the same loop in the same
way. *Statistics*: 22 older rounds, two of them without a differential, make the
record of twenty reach past the unrated ones and stop before the last; two make
it short. The cards have one hole a nine, enough to tell the nines apart and to
leave some holes blank. The theorems of section 4 do not depend on any of these
numbers.

`CHECK_DEADLOCK FALSE` is stated where the bounds on taps, mounts, tokens, ids,
saves and troubles let everything finish: a finished round or a used-up supply is
a legitimate end.

### Fairness

`RoundSync` assumes the timer's `Tick` (a `setInterval` of 20 s while the screen
is mounted), and that a request sent is handled and answered and its answer acted
on. The browser's `fetch` settles and the server bounds each handler by a
timeout, so a request does not stay in flight for ever; when it is lost, `GiveUp`
is the outcome. The player is never assumed to do anything. Losses are bounded by
`MaxFaults`, which stands for "the network eventually stays up": without it
nothing could drain.

`ApiKeys` assumes that the flusher's ticker fires for ever (`Drain`, `Flush`), and
that `noteUsed`, which never blocks, comes to its end (`Enqueue`). A stop of the
process gives up what was due: nothing is assumed about restarts.

The other modules have safety properties only and no fairness.

## 4. Proofs

All hold for every value of the constants that satisfies the module's named
assumption (`SyncAssumption` with `NoEntryAssumption` and `NoCardAssumption`,
`SessionAssumption`, `ChallengeAssumption`, `CredentialAssumption`,
`RoundAssumption`, `CourseAssumption`, `CallerAssumption`, `KeyAssumption`,
`SignInAssumption`, `AccountAssumption`, `ImportAssumption`,
`StatisticsAssumption`: sentinels are outside the sets they extend, bounds are
naturals, what is counted is finite). The type invariant of every module with
variables is proved, so no run checks it.

* **RoundSync_proofs.** `SyncInv` is inductive: types; the queue holds the
  newest entry; after Finish found the queue empty only `late` holes are in it;
  and, for a hole that is neither raced nor late, *every copy on its way to the
  server is the last entry* (`MovingIsLatest`). The last conjunct is the
  strengthening: `SettledHoleIsSaved` alone says nothing of the copies that can
  still overwrite it. `TypeOK` is proved first and split into the runs and the
  rest (`TypeSplit`), and each hole is treated separately (`SyncInvSplit`).
  `SettledHoles`, `NewestQueued` follow; `CompletedWhenSaved` is the action
  property, from the same invariant. `Keeps` is the refinement of `SavedRound`: the
  initial states agree, and under `SyncInv` every step is one abstract step or
  none (`StepKeeps`): a commit or a late landing is a `Save` because the copy it
  carries is the last entry, or a `Slip`; the end of a request is a `Settle`
  because the server already has what it removes; Finish is `Complete` and
  `Forget`, the second because an answer to `/complete` follows its commit
  (`AnsweredIsComplete`). `SavedHolesStay` is read off the same steps.
* **Sessions_proofs.** `Base` adds to the types what a request carries and that
  descent is recorded exactly for the tokens that exist. `SweptStayOut` is
  inductive over it. `RotatesOnce` and `OneLivePerLogin` need `ChainInv`: of two
  refreshes that read one token as live the second recorded it (`ReadOnce`), a
  token is exchanged once unless so recorded, and a login is then a chain with
  one childless token, its newest (`OneTip`). `ReplaysExcused` needs `UnexcusedOK`:
  a token whose answers were heard, and that no two tabs presented, is presented by
  one refresh at a time, from a tab of the browser that keeps it, and is out of that
  browser's hands once its successor was heard of. That rests on where tokens are
  (`OnePlace`: granted by one answer, kept by one browser) and on the guard of one
  refresh a tab (`OnePerTab`). `SignsOut` needs `LeftOK`: all that a browser signed
  out of still waits for is the answer to a logout.
* **Challenges_proofs.** `Outstands` follows from the retiring transaction.
  `RedeemsOnce` needs `HeldOnce` (a challenge no two requests held together has
  one holder at most, and once it has opened a session it is closed and held by
  none) and `RedeemedClosed` (a request that has redeemed left it closed).
  `CodesOpenOnce` needs `CodeInv`: a code not shared is in the hands of one
  request at most, and once spent it is on no sheet again. `Keeps` is the
  refinement of `OneTimeCode`: the initial states agree and every statement is one
  abstract step or none (`StepRefines`), given that a request that has redeemed left
  its row closed (`RedeemedClosed`) and that an id is in nobody's hands before it is
  given to a row. `DeadStays` is read off the abstract steps (`DeadByPromise`): a code
  that is closed and claimed by nobody stays so and opens no session.
  `SendsStayBounded` counts the mails of the window that still have rows with the
  senders past their count, and sees that a sweep forgets no more than were counted;
  `HourStaysBounded` adds the two: all mails of an hour are at most twice the cap and
  the other senders. `GuessesStayBounded` counts, with the guesses made, those of the requests
  that read the row below its cap and have not charged it yet (`CountsOK`).
* **Credentials_proofs.** `ProofInv` follows the address through each phase: a
  link being redeemed carries a proven address, which is the account's from the
  check on unless the account moved after it; a request to switch two-factor on
  found the account's address confirmed, unless the account moved since.
  `VerifiedProven` and `ArmedProven` follow. `TrustCurrent` needs `AdmittedOK`: a
  sign-in past its last check carries the account's address, or a change of address
  has overtaken it. A change then makes every remembered browser one of before the
  change, and its sweep, if it comes, leaves none.
* **Rounds_proofs.** `ClubInv` adds that a save past its check names clubs of the
  player only; with the foreign key that gives `OwnClubs`. `PlayedInv` adds that a
  club whose deletion found it unplayed is in no hole, or was saved into one since:
  `PlayedClubs`. `NotesInv` adds that, while nothing was overtaken, every save
  under way read the date and notes given last: `NotesSettle`, and with it
  `StartsOnce`. For `Statistics`, `StatisticsInv` adds to the types that what an
  overview could have seen of a round it counts is what it will read, unless the
  round was deleted or was saved while not complete: `CountedRoundsWereComplete`.
  `FiguresHangTogether` needs of it only that cards are cards; the rest is what sums
  come to. `SubsetInduction` is induction over the subsets of a finite set with the
  set of the good ones in place of a predicate (the least subset that is not good
  exists because strict inclusion is well founded); with it `SumStep` shows that the
  fold is defined, `SumWith` that its order does not matter, `SumApart`, `SumAtMost`,
  `SumOfBoth` and `SumOfCounts` how sums compare; then `CardTallies`, `NinesAddUp`,
  `PuttsOnGreensFew`, `ScoresPartition` are about one card, `SoundFigures` about any
  finite set of points. `HandicapOfTheRecord` has the model's sums, over the first
  few by rank, agree with those of the property, which are counted value by value
  and know of no order (`HowManyLead`, `LeadersAlike`, `SumByValue`), for any finite
  line and so for both of its directions; that the index never passes the anti-cap
  is that the mean of the first few is at most the mean of all (`LeadersAreLess`),
  that rounding keeps the order (`RoundedInOrder`) and that the table adds nothing
  (`TableFits`).
* **Courses_proofs.** `DirectoryInv` is types (which say that every reference is
  to a row that is there and hole numbers are unique in a course) with one conjunct
  for each race: an index a request has checked is crossed or held by no other hole
  (`ClaimsOK`), and two that checked one index have crossed (`ClaimsCross`); a course
  about to be asked about is doubled or has none pending (`AsksOK`); a removal request
  about to be resolved is still pending or contested (`SettlesOK`). `Import` takes a
  lemma of its own for tees, for holes and for cells.
* **ApiKeys_proofs.** `KeyInv` says that the guesses from an address are what its
  running bucket counts (`CountsAgree`), that they leave room for the requests past
  the check (`RoomForChecked`, the strengthening of `GuessesBounded`), and bounds the
  keys together with the requests creating one; the steps that move a request between
  those sets are cardinality lemmas. For `SignIns`, `SignInInv` does the same three
  times: wrong passwords of an account, failures from an address, accounts made from
  one, each together with the requests that were let through and may still be charged
  (`AccountHolds`, `AddressHolds`, `SignupHolds`); `AttemptsStayBounded` follows, and
  `OnlyFailuresClose` from the buckets' agreement with what happened.
* **Accounts_proofs.** `AccountInv` adds that a session about to be issued, one
  issued, and an account a Google sign-in made are *bound* to their identity: the
  account is the one the identity is linked to, or has been deleted and its id is
  never given again (`SessionsBound`, `MadeBound`). For `Imports`, `RestoreInv`
  says that what a restore has found missing is still missing, and what it read of
  the profile still so, unless another writer of that kind came between
  (`FreshKinds`, `FreshProfile`, `FreshGender`), which gives `RestoresMakeOneCopy`
  and `TypingSurvivesRestores`; that rounds come after courses (`CoursesFirst`:
  `RestoredRoundsLinked`); and that what a restore without a failure is done with is
  there (`DoneIsThere`: `WholeRestoresAreWhole`).

Only model-checked: `DrainsUnlessRefused` and `UsesGetStamped` (liveness under
fairness, out of the provers' reach, as is `ENABLED`), and the violation. No module
here declares a RECURSIVE operator.

## 5. What was found

After a change of email the other browser's next refresh presents a revoked token,
is taken for a replay, and revokes the session the change returned (`SessionsHere`,
against `docs/profile-test-checklist.md:73-74`). It is the run with a finding.

Statements that further configurations refute:

* an older payload of a hole can commit after a newer one when two flushes overlap,
  so the last entry does not win (`RoundSyncLastEntry`, `LastEntryWins`), against
  `web/src/lib/roundQueue.ts:12-18`;
* a hole tapped while Finish awaits `/complete` is forgotten with the round
  (`RoundSyncFinish`, `NothingLeftBehind`), against
  `web/src/pages/LiveRoundPage.tsx:158-159`;
* two requests can redeem one mailed code, since nobody reads how many rows the
  guarded update changed (`ChallengesTwice`, `RedeemedOnce`), against
  `internal/auth/challenge.go:204-205`;
* more messages than the cap go out within an hour: the cap counts rows, and the
  hourly sweep deletes those of codes that expired after ten minutes
  (`ChallengesHour`, `SendsCapped`), against `internal/auth/challenge.go:55-59`, and
  against `internal/auth/twofactor.go:232-233` ("none of it is required for
  correctness"); at most twice the cap and the concurrent senders (`HourBounded`);
* two-factor is armed for an address nobody has proven to read when a change of
  address falls between the reading of the confirmation and the setting of the flag
  (`CredentialsArming`, `ArmedForReadable`), against
  `internal/auth/twofactor.go:181-183`;
* a change of email cut short after its first statement and retried is answered as
  done with the old devices still trusted (`CredentialsRetry`,
  `AnsweredMeansForgotten`), against `internal/account/service.go:141-142`;
* a course whose tees were given one name, or with two holes of one stroke index,
  exports a file its own import refuses (`CoursesExport`, `ExportsImport`), against
  `internal/course/export.go:54-56`;
* a repeated restore is not a no-op: the home course is looked up before the
  courses are restored, so the second restore sets it (`ImportsTwice`,
  `TwiceIsNoOp`), against `internal/account/importer.go:73-74`.

Met on the way:

* two overlapping refreshes each mint a token, though the comment at
  `internal/auth/service.go:467` calls rotation single-use (the property checked
  is the one with the overlap excepted);
* a refresh that read its token before a sweep leaves a working token after it,
  against `docs/BUILD_SPEC.md:261`;
* a hole whose putts exceed its strokes can be entered and never drains, against
  `docs/phase-3-test-checklist.md:37-38`;
* concurrent guesses can exceed the five of `docs/profile-test-checklist.md:183`;
* one recovery code can open two sessions, against
  `db/queries/recovery_codes.sql:16-17`;
* a sign-out overtaken by a refresh answer stores a session again, against
  `web/src/lib/auth.tsx:110-111`;
* two-factor stays armed across a change to an unconfirmed address, against the
  reasoning of `docs/BUILD_SPEC.md:551-552`;
* a sign-in under way across a change of password or two-factor, or past its last
  check when the address changes, remembers its browser afterwards, against `internal/auth/device.go:175-177`;
* a hole entered offline is queued but not cached, so the reopened screen, seeded
  from the cached server copy, does not show it until a flush brings it back,
  against `docs/phase-3-test-checklist.md:39-40`;
* a save of holes writes back the date and notes it read at its start, so it can
  undo an edit of them made meanwhile, against `db/queries/rounds.sql:32-33` ("a
  stale form cannot change something the user was not looking at"): the property
  checked is the one with the overtaking excepted;
* a club deletion that found the club unplayed goes through although a hole was
  saved with it in between, against `internal/club/service.go:245-248`; the hole
  then names no club;
* recovery codes can be generated with two-factor off;
* scoring averages take every complete round, nine holes or eighteen, together,
  against the comment at `internal/stats/stats.go:180-182` (`OneLengthAveraged` in
  `Statistics` says so);
* a hole with a score and no par adds its strokes to `ToPar` and nothing to the par,
  against "compares like with like" at `internal/round/stats.go:58`;
* two administrators who had one removal request open can keep it and then remove
  the course, leaving a removed course with a declined request, against
  `internal/course/removal.go:121-122` ("never removed without the record saying so",
  `RemovedOnRecord`);
* concurrent requests pass the caps on keys and mails by one each;
* `Start` falls back to the men's ratings when reading the player fails.

## 6. Plan, and what is not modelled

Next, in this order:

1. The composition of `Accounts` with `Sessions`: what the deletion of an account
   leaves of its sessions.
2. The status of a club and the order of a bag, once something depends on them.

Not modelled, and why:

* a course's address and search, ratings and display order of a tee: written and
  read back, decided on by nothing (ratings enter at `Start`, in `Statistics`);
* writing the export, CSV and images: pure conversions of what is there;
* mail and geocoding: outbound I/O without state; a failed send is a request that
  ends;
* the redirects, cookies and state parameter before the Google callback, and the
  exchange with Google: one value checked against itself;
* the path and method rules of API keys, and the limiter of good keys, which
  decides about one request and is the same `RateLimiter`;
* configuration, generated queries, ids and times, dispatch, frontend serving, and
  the other screens: no state whose order matters.
