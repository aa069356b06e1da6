------------------------------ MODULE Courses ------------------------------
(***************************************************************************)
(* The shared course directory of internal/course: courses, their tees and *)
(* holes, the par and yardage of a hole from a tee, and the queue of       *)
(* requests to remove a course.                                            *)
(*                                                                         *)
(* Anybody edits anything.  A handler reads, decides, and writes in a      *)
(* later statement.  Where the read only answers "not found" and the write *)
(* does nothing, or fails, on a row that has gone meanwhile, the handler   *)
(* is one step here; the handlers that decide on rows that can change      *)
(* under them (a stroke index, a pending request) are two.                 *)
(*                                                                         *)
(* A course's address, a tee's ratings and order, and the figures of a     *)
(* cell are left out: nothing decides on them.                             *)
(***************************************************************************)
EXTENDS Naturals, FiniteSets, Functions

CONSTANTS
    Courses, Tees, Holes, Removals,   \* ids that can be given to rows
    Names,                            \* tee names
    Numbers,                          \* hole numbers, 1..MaxHoleNumber
    Indexes,                          \* stroke indexes
    HoleCounts,                       \* the sizes a new course may have
    MaxTees,                          \* MaxTeesPerCourse
    Requests,                         \* requests being handled at once
    NoCourse, NoHole, NoName, NoIndex, NoRemoval

ASSUME CourseAssumption ==
    /\ NoCourse \notin Courses /\ NoHole \notin Holes /\ NoName \notin Names
    /\ NoIndex \notin Indexes /\ NoRemoval \notin Removals
    /\ Numbers \subseteq Nat \ {0} /\ HoleCounts \subseteq Nat
    /\ \A n \in HoleCounts : 1..n \subseteq Numbers
    /\ MaxTees \in Nat

VARIABLES
    courses,    \* rows of courses
    given,      \* course ids that were ever given to a row
    tee,        \* rows of tees
    hole,       \* rows of holes
    details,    \* rows of hole_tee_details, as <<hole, tee>>
    removal,    \* rows of course_removal_requests
    req,        \* requests between their read and their write
    crossed,    \* history: <<course, index>> checked by one request while another could write it
    doubled,    \* history: courses two requests asked to remove at once
    contested,  \* history: removal requests two administrators had open at once
    onRequest   \* history: courses deleted by the settling of a request

directoryVars == <<courses, given, tee, hole, details>>
historyVars == <<crossed, doubled, contested, onRequest>>
vars == <<courses, given, tee, hole, details, removal, req, crossed, doubled, contested, onRequest>>

-----------------------------------------------------------------------------
NoTee == [course |-> NoCourse, name |-> NoName]
HoleRow == [course : Courses, number : Numbers, index : Indexes \cup {NoIndex}]
NoHoleRow == [course |-> NoCourse, number |-> 0, index |-> NoIndex]

Answers == {"removed", "declined"}
Unfiled == [state |-> "none", course |-> NoCourse, about |-> NoCourse]

Idle == [kind |-> "idle", course |-> NoCourse, hole |-> NoHole, number |-> 0,
         index |-> NoIndex, removal |-> NoRemoval, answer |-> "none"]

TeesOf(c) == {t \in Tees : tee[t].course = c}
HolesOf(c) == {h \in Holes : hole[h].course = c}
TeesNamed(c, n) == {t \in TeesOf(c) : tee[t].name = n}

CourseFound(c) == c \in courses
TeeFound(t) == tee[t].course # NoCourse
HoleFound(h) == hole[h].course # NoCourse
NumberFree(c, k) == \A h \in HolesOf(c) : hole[h].number # k

Pending(c) == {q \in Removals : removal[q].state = "pending" /\ removal[q].course = c}

(* ids are random and never given twice: a new row's id is in nobody's     *)
(* hands.                                                                  *)
FreshTees == TeesOf(NoCourse)
FreshHoles == {h \in HolesOf(NoCourse) : \A r \in Requests : req[r].hole # h}
FreshCourse(c) == c \notin given

TypeOK ==
    /\ given \subseteq Courses /\ courses \subseteq given
    /\ tee \in [Tees -> [course : Courses, name : Names] \cup {NoTee}]
    /\ hole \in [Holes -> HoleRow \cup {NoHoleRow}]
    /\ \A t \in Tees : tee[t].course \in courses \cup {NoCourse}
    /\ \A h \in Holes : hole[h].course \in courses \cup {NoCourse}
    /\ \A g, h \in Holes : (hole[g].course = hole[h].course /\ hole[g].number = hole[h].number)
                             => (g = h \/ hole[g].course = NoCourse)
    /\ details \subseteq Holes \X Tees
    /\ \A d \in details : d[1] \notin HolesOf(NoCourse) /\ d[2] \notin TeesOf(NoCourse)
    /\ removal \in [Removals -> [state : Answers \cup {"none", "pending"},
                                 course : Courses \cup {NoCourse},
                                 about : Courses \cup {NoCourse}]]
    /\ \A q \in Removals : removal[q].course \in courses \cup {NoCourse}
    /\ req \in [Requests -> [kind : {"idle", "addHole", "editHole", "ask", "resolve"},
                             course : Courses \cup {NoCourse}, hole : Holes \cup {NoHole},
                             number : Numbers \cup {0}, index : Indexes \cup {NoIndex},
                             removal : Removals \cup {NoRemoval}, answer : Answers \cup {"none"}]]
    /\ crossed \subseteq Courses \X Indexes
    /\ doubled \subseteq Courses /\ contested \subseteq Removals /\ onRequest \subseteq Courses

Init ==
    /\ courses = {} /\ given = {} /\ details = {}
    /\ tee = [t \in Tees |-> NoTee]
    /\ hole = [h \in Holes |-> NoHoleRow]
    /\ removal = [q \in Removals |-> Unfiled]
    /\ req = [r \in Requests |-> Idle]
    /\ crossed = {} /\ doubled = {} /\ contested = {} /\ onRequest = {}

-----------------------------------------------------------------------------
(* The rows a statement leaves.                                            *)

TeeCreated(t, c, n) == [tee EXCEPT ![t] = [course |-> c, name |-> n]]
TeeRenamed(t, n) == [tee EXCEPT ![t].name = n]
TeeDeleted(t) == [tee EXCEPT ![t] = NoTee]

(* UNIQUE (course_id, hole_number), and the course must exist.             *)
MayInsertHole(c, k) == CourseFound(c) /\ NumberFree(c, k)

HoleCreated(h, c, k, i) == [hole EXCEPT ![h] = [course |-> c, number |-> k, index |-> i]]

(* A row that has gone is not updated.                                     *)
HoleIndexed(h, i) ==
    IF HoleFound(h) THEN [hole EXCEPT ![h].index = i] ELSE hole

HoleDeleted(h) == [hole EXCEPT ![h] = NoHoleRow]

DetailUpserted(h, t) == details \cup {<<h, t>>}
DetailDeleted(h, t) == details \ {<<h, t>>}

(* ON DELETE CASCADE, from a hole or from a tee.                           *)
Cascade(hs, ts) == {d \in details : d[1] \notin hs /\ d[2] \notin ts}

(* DeleteCourse.                                                           *)
Drop(c) ==
    /\ courses' = courses \ {c}
    /\ tee' = [t \in Tees |-> IF t \in TeesOf(c) THEN NoTee ELSE tee[t]]
    /\ hole' = [h \in Holes |-> IF h \in HolesOf(c) THEN NoHoleRow ELSE hole[h]]
    /\ details' = Cascade(HolesOf(c), TeesOf(c))

(* ON DELETE SET NULL: a removal request keeps what it was about and loses *)
(* the reference.                                                          *)
Detached(rows, c) ==
    [q \in Removals |->
       [rows[q] EXCEPT !.course = IF rows[q].course = c THEN NoCourse ELSE rows[q].course]]

Filed(q, c) == [removal EXCEPT ![q] = [state |-> "pending", course |-> c, about |-> c]]

(* Guarded on the request still being open.                                *)
Answered(q, answer) ==
    IF removal[q].state = "pending" THEN [removal EXCEPT ![q].state = answer] ELSE removal

-----------------------------------------------------------------------------
(* Courses.                                                                *)

(* Create: the course, holes 1..n and the tees in one transaction.  Only   *)
(* the number of tees is checked, not their names.                         *)
Create(c, n, named) ==
    /\ FreshCourse(c)
    /\ \E place \in Injection(1..n, FreshHoles) :
          hole' = [h \in Holes |->
                     IF h \in Range(place)
                     THEN [course |-> c, number |-> Inverse(place, 1..n, Holes)[h],
                           index |-> NoIndex]
                     ELSE hole[h]]
    /\ tee' = [t \in Tees |->
                 IF t \in DOMAIN named THEN [course |-> c, name |-> named[t]] ELSE tee[t]]
    /\ courses' = courses \cup {c} /\ given' = given \cup {c}
    /\ UNCHANGED <<details, removal, req, historyVars>>

(* The tees a new course comes with: any names, up to the cap.             *)
NewTees == {named \in UNION {[new -> Names] : new \in SUBSET FreshTees} :
               Cardinality(DOMAIN named) <= MaxTees}

(* An administrator deletes a course outright.                             *)
Delete(c) ==
    /\ CourseFound(c)
    /\ Drop(c)
    /\ removal' = Detached(removal, c)
    /\ UNCHANGED <<given, req, historyVars>>

-----------------------------------------------------------------------------
(* Tees, and the cells of the par and yardage grid.                        *)

(* AddTee: neither the cap nor the name is checked.                        *)
AddTee(c, t, n) ==
    /\ CourseFound(c) /\ t \in FreshTees
    /\ tee' = TeeCreated(t, c, n)
    /\ UNCHANGED <<courses, given, hole, details, removal, req, historyVars>>

UpdateTee(t, n) ==
    /\ TeeFound(t)
    /\ tee' = TeeRenamed(t, n)
    /\ UNCHANGED <<courses, given, hole, details, removal, req, historyVars>>

DeleteTee(t) ==
    /\ TeeFound(t)
    /\ tee' = TeeDeleted(t)
    /\ details' = Cascade({}, {t})
    /\ UNCHANGED <<courses, given, hole, removal, req, historyVars>>

(* Both rows are loaded and must be of one course, which never changes.    *)
MayJoin(h, t) == HoleFound(h) /\ tee[t].course = hole[h].course

SetTeeDetail(h, t) ==
    /\ MayJoin(h, t)
    /\ details' = DetailUpserted(h, t)
    /\ UNCHANGED <<courses, given, tee, hole, removal, req, historyVars>>

ClearTeeDetail(h, t) ==
    /\ <<h, t>> \in details
    /\ details' = DetailDeleted(h, t)
    /\ UNCHANGED <<courses, given, tee, hole, removal, req, historyVars>>

-----------------------------------------------------------------------------
(* Holes.  The stroke index is checked against the other holes in one      *)
(* statement and written in another; the number is also a UNIQUE key.      *)

(* checkHandicapIndexUnique.                                               *)
IndexFree(c, self, i) == \A h \in HolesOf(c) \ {self} : hole[h].index # i

Checking(c, i) == {r \in Requests : req[r].kind \in {"addHole", "editHole"}
                                    /\ req[r].course = c /\ req[r].index = i}

Check(r, kind, c, h, k, i) ==
    /\ req[r].kind = "idle"
    /\ IndexFree(c, h, i)
    /\ req' = [req EXCEPT ![r] = [Idle EXCEPT !.kind = kind, !.course = c, !.hole = h,
                                              !.number = k, !.index = i]]
    /\ crossed' = IF Checking(c, i) = {} THEN crossed ELSE crossed \cup {<<c, i>>}
    /\ UNCHANGED <<directoryVars, removal, doubled, contested, onRequest>>

CheckNewHole(r, c, k, i) ==
    /\ MayInsertHole(c, k)
    /\ Check(r, "addHole", c, NoHole, k, i)

CheckHole(r, h, i) ==
    /\ HoleFound(h)
    /\ Check(r, "editHole", hole[h].course, h, hole[h].number, i)

Insert(h, c, k, i) ==
    /\ MayInsertHole(c, k) /\ h \in FreshHoles
    /\ hole' = HoleCreated(h, c, k, i)

Done(r) == req' = [req EXCEPT ![r] = Idle]

(* CreateHole, after the check.                                            *)
AddHole(r, h) ==
    /\ req[r].kind = "addHole"
    /\ Insert(h, req[r].course, req[r].number, req[r].index)
    /\ Done(r)
    /\ UNCHANGED <<courses, given, tee, details, removal, historyVars>>

(* A hole added without a stroke index needs no check of one.              *)
AddPlainHole(c, h, k) ==
    /\ Insert(h, c, k, NoIndex)
    /\ UNCHANGED <<courses, given, tee, details, removal, req, historyVars>>

(* UpdateHole, after the check.                                            *)
UpdateHole(r) ==
    /\ req[r].kind = "editHole"
    /\ hole' = HoleIndexed(req[r].hole, req[r].index)
    /\ Done(r)
    /\ UNCHANGED <<courses, given, tee, details, removal, historyVars>>

ClearIndex(h) ==
    /\ HoleFound(h)
    /\ hole' = HoleIndexed(h, NoIndex)
    /\ UNCHANGED <<courses, given, tee, details, removal, req, historyVars>>

DeleteHole(h) ==
    /\ HoleFound(h)
    /\ hole' = HoleDeleted(h)
    /\ details' = Cascade({h}, {})
    /\ UNCHANGED <<courses, given, tee, removal, req, historyVars>>

-----------------------------------------------------------------------------
(* Export and import of a course.  A file names its tees and numbers its   *)
(* holes; ValidateImport refuses one that repeats a name, a number or a    *)
(* stroke index, or has too many tees.                                     *)

(* The file of a course: the names and the number of its tees, and the     *)
(* stroke index of each hole.                                              *)
Exported(c) ==
    [tees |-> {tee[t].name : t \in TeesOf(c)},
     count |-> Cardinality(TeesOf(c)),
     index |-> [k \in {hole[h].number : h \in HolesOf(c)} |->
                  hole[CHOOSE h \in HolesOf(c) : hole[h].number = k].index]]

Importable(file) ==
    /\ file.count = Cardinality(file.tees) /\ file.count <= MaxTees
    /\ \A j, k \in DOMAIN file.index :
          (file.index[j] = file.index[k] /\ file.index[j] # NoIndex) => j = k

(* The files that come in, those with a repeated name left out: they are   *)
(* refused.                                                                *)
Files == {[tees |-> names, count |-> Cardinality(names), index |-> index] :
             names \in SUBSET Names,
             index \in UNION {[ks -> Indexes \cup {NoIndex}] : ks \in SUBSET Numbers}}

(* Mutant of Superseded: the holes the file leaves out stay.               *)
SupersededNone(c, file) == {}

(* The holes of c that the file does not number.                           *)
Superseded(c, file) == {h \in HolesOf(c) : hole[h].number \notin DOMAIN file.index}

ExtraTees(c, file) == {t \in TeesOf(c) : tee[t].name \notin file.tees}

(* The tees the file names and the course has not, and the holes.          *)
NewNames(c, file) == {n \in file.tees : TeesNamed(c, n) = {}}
NewNumbers(c, file) == {k \in DOMAIN file.index : NumberFree(c, k)}

(* Import first looks whether the file's course is still here.             *)
ImportTarget(c) == CourseFound(c) \/ FreshCourse(c)

TeesImported(c, file, made) ==
    [t \in Tees |->
       IF t \in ExtraTees(c, file) THEN NoTee
       ELSE IF t \in Range(made)
       THEN [course |-> c, name |-> CHOOSE n \in DOMAIN made : made[n] = t]
       ELSE tee[t]]

HolesImported(c, file, dug) ==
    [h \in Holes |->
       IF h \in Superseded(c, file) THEN NoHoleRow
       ELSE IF h \in Range(dug)
       THEN LET k == CHOOSE k \in DOMAIN dug : dug[k] = h
            IN [course |-> c, number |-> k, index |-> file.index[k]]
       ELSE IF hole[h].course = c /\ hole[h].number \in DOMAIN file.index
       THEN [hole[h] EXCEPT !.index = file.index[hole[h].number]]
       ELSE hole[h]]

(* Every cell of the file is upserted.  Which of two tees with one name    *)
(* the name finds is not specified.                                        *)
DetailsImported(c, file) ==
    \E named \in [file.tees -> Tees] :
       /\ \A n \in file.tees : tee'[named[n]] = [course |-> c, name |-> n]
       /\ details' = Cascade(Superseded(c, file), ExtraTees(c, file))
            \cup {h \in Holes : hole'[h].course = c /\ hole'[h].number \in DOMAIN file.index}
                   \X Range(named)

(* Import into c in one transaction: tees are matched by name and holes by *)
(* number, and those the file leaves out are deleted.                      *)
Import(c, file) ==
    /\ ImportTarget(c) /\ Importable(file)
    /\ \E made \in Injection(NewNames(c, file), FreshTees) : tee' = TeesImported(c, file, made)
    /\ \E dug \in Injection(NewNumbers(c, file), FreshHoles) : hole' = HolesImported(c, file, dug)
    /\ DetailsImported(c, file)
    /\ courses' = courses \cup {c} /\ given' = given \cup {c}
    /\ crossed' = crossed \cup {<<c, i>> : i \in {j \in Range(file.index) \ {NoIndex} :
                                                    Checking(c, j) # {}}}
    /\ UNCHANGED <<removal, req, doubled, contested, onRequest>>

-----------------------------------------------------------------------------
(* Removal requests.                                                       *)

(* Mutant of NonePending: the queue is not looked at.                      *)
NonePendingUnread(c) == TRUE

NonePending(c) == Pending(c) = {}

Ask(r, c) ==
    /\ req[r].kind = "idle" /\ CourseFound(c)
    /\ NonePending(c)
    /\ req' = [req EXCEPT ![r] = [Idle EXCEPT !.kind = "ask", !.course = c]]
    /\ doubled' = IF \E s \in Requests : req[s].kind = "ask" /\ req[s].course = c
                  THEN doubled \cup {c} ELSE doubled
    /\ UNCHANGED <<directoryVars, removal, crossed, contested, onRequest>>

(* RequestRemoval files the request, unless the course has gone.           *)
RequestRemoval(r, q) ==
    /\ req[r].kind = "ask" /\ req[r].course \in courses
    /\ removal[q].state = "none"
    /\ removal' = Filed(q, req[r].course)
    /\ Done(r)
    /\ UNCHANGED <<directoryVars, historyVars>>

(* Mutant of Unresolved: an answered request can be answered again.        *)
UnresolvedOrDeclined(q) == removal[q].state \in {"pending", "declined"}

Unresolved(q) == removal[q].state = "pending"

(* An administrator's answer: the request is read first.                   *)
OpenRemoval(r, q, answer) ==
    /\ req[r].kind = "idle" /\ Unresolved(q)
    /\ req' = [req EXCEPT ![r] = [Idle EXCEPT !.kind = "resolve", !.removal = q,
                                     !.course = removal[q].course, !.answer = answer]]
    /\ contested' = IF \E s \in Requests : req[s].removal = q THEN contested \cup {q} ELSE contested
    /\ UNCHANGED <<directoryVars, removal, crossed, doubled, onRequest>>

(* ResolveRemoval's transaction.  Whether the guarded update changed the   *)
(* row is not looked at, and the course read before is deleted all the     *)
(* same.                                                                   *)
ResolveRemoval(r) ==
    /\ req[r].kind = "resolve"
    /\ LET c == req[r].course  answered == Answered(req[r].removal, req[r].answer)
       IN IF req[r].answer = "removed" /\ c \in courses
          THEN /\ Drop(c) /\ UNCHANGED given
               /\ removal' = Detached(answered, c)
               /\ onRequest' = onRequest \cup {c}
          ELSE /\ removal' = answered
               /\ UNCHANGED <<directoryVars, onRequest>>
    /\ Done(r)
    /\ UNCHANGED <<crossed, doubled, contested>>

(* The caller hangs up between the two statements, or the second fails.    *)
HangUp(r) ==
    /\ req[r].kind # "idle"
    /\ Done(r)
    /\ UNCHANGED <<directoryVars, removal, historyVars>>

-----------------------------------------------------------------------------
Next ==
    \/ \E c \in Courses, n \in HoleCounts : \E named \in NewTees : Create(c, n, named)
    \/ \E c \in Courses : Delete(c)
    \/ \E c \in Courses, file \in Files : Import(c, file)
    \/ \E c \in Courses, t \in Tees, n \in Names : AddTee(c, t, n)
    \/ \E t \in Tees, n \in Names : UpdateTee(t, n)
    \/ \E t \in Tees : DeleteTee(t)
    \/ \E h \in Holes, t \in Tees : SetTeeDetail(h, t) \/ ClearTeeDetail(h, t)
    \/ \E r \in Requests, c \in Courses, k \in Numbers, i \in Indexes : CheckNewHole(r, c, k, i)
    \/ \E r \in Requests, h \in Holes, i \in Indexes : CheckHole(r, h, i)
    \/ \E r \in Requests, h \in Holes : AddHole(r, h)
    \/ \E c \in Courses, h \in Holes, k \in Numbers : AddPlainHole(c, h, k)
    \/ \E r \in Requests : UpdateHole(r)
    \/ \E h \in Holes : ClearIndex(h) \/ DeleteHole(h)
    \/ \E r \in Requests, c \in Courses : Ask(r, c)
    \/ \E r \in Requests, q \in Removals : RequestRemoval(r, q)
    \/ \E r \in Requests, q \in Removals, a \in Answers : OpenRemoval(r, q, a)
    \/ \E r \in Requests : ResolveRemoval(r) \/ HangUp(r)

Spec == Init /\ [][Next]_vars

-----------------------------------------------------------------------------
(* Properties.                                                             *)

(* Two holes of a course share a stroke index only when two requests that  *)
(* wrote it, or one and an import, overlapped: no sequence of requests     *)
(* answered one at a time gets there, deletions and imports included.      *)
IndexesDistinctUnlessCrossed ==
    \A g, h \in Holes :
       (g # h /\ hole[g].course # NoCourse /\ hole[g].course = hole[h].course
          /\ hole[g].index = hole[h].index /\ hole[g].index # NoIndex)
       => <<hole[g].course, hole[g].index>> \in crossed

(* A cell of the grid joins a hole and a tee of one course, whatever was   *)
(* added, imported and deleted around it.                                  *)
DetailsStayInOneCourse == \A d \in details : hole[d[1]].course = tee[d[2]].course

(* A course has one request waiting for the administrator, unless two were *)
(* made at once.                                                           *)
OnePendingUnlessDoubled ==
    \A c \in Courses \ doubled : \A p, q \in Pending(c) : p = q

(* A course removed through a request has a request that says it was       *)
(* removed, unless two administrators had the request open at once.        *)
RemovedOnRecordUnlessContested ==
    \A c \in onRequest : \E q \in Removals :
       removal[q].about = c /\ (removal[q].state = "removed" \/ q \in contested)

(* internal/course/removal.go: the two writes are one transaction so a     *)
(* course is never removed without the record saying so.                   *)
RemovedOnRecord ==
    \A c \in onRequest : \E q \in Removals :
       removal[q].about = c /\ removal[q].state = "removed"

(* internal/course/export.go: a file downloaded from one instance can be   *)
(* uploaded to another, or the same one, unmodified.                       *)
ExportsImport == \A c \in courses : Importable(Exported(c))
=============================================================================
