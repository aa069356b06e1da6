----------------------------- MODULE Courses_proofs -----------------------------
(***************************************************************************)
(* Proofs about the course directory, for any number of courses, tees,     *)
(* holes, removal requests and simultaneous callers.                       *)
(***************************************************************************)
EXTENDS Courses, TLAPS

(* The type invariant, in the parts that a step disturbs together.         *)
HolesOK ==
    /\ hole \in [Holes -> HoleRow \cup {NoHoleRow}]
    /\ \A h \in Holes : hole[h].course \in courses \cup {NoCourse}
    /\ \A g, h \in Holes : (hole[g].course = hole[h].course /\ hole[g].number = hole[h].number)
                             => (g = h \/ hole[g].course = NoCourse)

TeesOK ==
    /\ tee \in [Tees -> [course : Courses, name : Names] \cup {NoTee}]
    /\ \A t \in Tees : tee[t].course \in courses \cup {NoCourse}

DetailsOK ==
    /\ details \subseteq Holes \X Tees
    /\ \A d \in details : d[1] \notin HolesOf(NoCourse) /\ d[2] \notin TeesOf(NoCourse)

RemovalType == [state : Answers \cup {"none", "pending"},
                course : Courses \cup {NoCourse}, about : Courses \cup {NoCourse}]

RemovalsOK ==
    /\ removal \in [Removals -> RemovalType]
    /\ \A q \in Removals : removal[q].course \in courses \cup {NoCourse}

RequestType == [kind : {"idle", "addHole", "editHole", "ask", "resolve"},
                course : Courses \cup {NoCourse}, hole : Holes \cup {NoHole},
                number : Numbers \cup {0}, index : Indexes \cup {NoIndex},
                removal : Removals \cup {NoRemoval}, answer : Answers \cup {"none"}]

HistoryOK ==
    /\ crossed \subseteq Courses \X Indexes
    /\ doubled \subseteq Courses /\ contested \subseteq Removals /\ onRequest \subseteq Courses

CoursesOK == given \subseteq Courses /\ courses \subseteq given

TypeParts ==
    /\ CoursesOK /\ HolesOK /\ TeesOK /\ DetailsOK /\ RemovalsOK
    /\ req \in [Requests -> RequestType] /\ HistoryOK

LEMMA TypeOKParts == TypeOK <=> TypeParts
  BY DEF TypeOK, TypeParts, CoursesOK, HolesOK, TeesOK, DetailsOK, RemovalsOK, RemovalType, RequestType,
         HistoryOK

LEMMA IdleOK == Idle \in RequestType /\ Idle.kind = "idle"
  BY DEF Idle, RequestType

LEMMA InitTypeOK == Init => TypeParts
<1> SUFFICES ASSUME Init PROVE TypeParts
  OBVIOUS
<1>1. CoursesOK /\ TeesOK /\ DetailsOK /\ RemovalsOK /\ HistoryOK
  BY DEF Init, CoursesOK, TeesOK, DetailsOK, RemovalsOK, HistoryOK, NoTee, Unfiled, RemovalType
<1>2. HolesOK
  BY DEF Init, HolesOK, NoHoleRow
<1>3. req \in [Requests -> RequestType]
  BY IdleOK DEF Init
<1> QED
  BY <1>1, <1>2, <1>3 DEF TypeParts

-----------------------------------------------------------------------------
(* What the steps that touch many rows do to each of them.                 *)

LEMMA DropKeeps ==
  ASSUME TypeParts, NEW c \in Courses, Drop(c), UNCHANGED given
  PROVE  CoursesOK' /\ HolesOK' /\ TeesOK' /\ DetailsOK'
<1> USE CourseAssumption DEF TypeParts
<1>1. \A h \in Holes : hole'[h] = IF hole[h].course = c THEN NoHoleRow ELSE hole[h]
  BY DEF Drop, HolesOf
<1>2. \A t \in Tees : tee'[t] = IF tee[t].course = c THEN NoTee ELSE tee[t]
  BY DEF Drop, TeesOf
<1>3. CoursesOK' /\ courses' = courses \ {c}
  BY DEF Drop, CoursesOK
<1>4. HolesOK'
  BY <1>1, <1>3 DEF HolesOK, NoHoleRow, Drop
<1>5. TeesOK'
  BY <1>2, <1>3 DEF TeesOK, NoTee, Drop
<1>6. DetailsOK'
  <2>1. details' \subseteq details
    BY DEF Drop, Cascade
  <2>2. \A d \in details' : d[1] \in Holes \ HolesOf(c) /\ d[2] \in Tees \ TeesOf(c)
    BY <2>1 DEF Drop, Cascade, DetailsOK
  <2> QED
    BY <1>1, <1>2, <2>1, <2>2 DEF DetailsOK, HolesOf, TeesOf
<1> QED
  BY <1>3, <1>4, <1>5, <1>6

LEMMA CreateRows ==
  ASSUME TypeParts, NEW c \in Courses, NEW n \in HoleCounts, NEW named \in NewTees, Create(c, n, named)
  PROVE  /\ \A h \in Holes : \/ hole'[h] = hole[h]
                              \/ /\ h \in FreshHoles /\ hole'[h].course = c
                                 /\ hole'[h].number \in Numbers /\ hole'[h].index = NoIndex
         /\ CoursesOK' /\ HolesOK' /\ TeesOK' /\ DetailsOK'
<1> USE CourseAssumption DEF TypeParts
<1>1. PICK place \in Injection(1..n, FreshHoles) :
          hole' = [h \in Holes |->
                     IF h \in Range(place)
                     THEN [course |-> c, number |-> Inverse(place, 1..n, Holes)[h], index |-> NoIndex]
                     ELSE hole[h]]
  BY DEF Create
<1>2. place \in [1..n -> FreshHoles] /\ FreshHoles \subseteq Holes
  BY <1>1 DEF Injection, FreshHoles, HolesOf
<1> DEFINE at == Inverse(place, 1..n, Holes)
<1>3. \A h \in Holes : h \in Range(place) => at[h] \in 1..n /\ place[at[h]] = h
  BY <1>2 DEF Inverse, Range
<1> HIDE DEF at
<1>4. 1..n \subseteq Numbers /\ \A h \in Range(place) : h \in FreshHoles
  BY <1>2 DEF Range
<1>5. \A h \in Holes : hole'[h] = IF h \in Range(place)
                                  THEN [course |-> c, number |-> at[h], index |-> NoIndex]
                                  ELSE hole[h]
  BY <1>1 DEF at
<1>6. \A h \in Holes : h \in Range(place) => hole'[h] \in HoleRow /\ hole'[h].course = c
                                             /\ hole'[h].number = at[h] /\ hole'[h].index = NoIndex
  <2>1. \A h \in Holes : h \in Range(place) => at[h] \in Numbers
    BY <1>3, <1>4
  <2> SUFFICES ASSUME NEW h \in Holes, h \in Range(place)
               PROVE  hole'[h] \in HoleRow /\ hole'[h].course = c
                        /\ hole'[h].number = at[h] /\ hole'[h].index = NoIndex
    OBVIOUS
  <2>2. hole'[h] = [course |-> c, number |-> at[h], index |-> NoIndex]
    BY <1>5
  <2> QED
    BY <2>1, <2>2 DEF HoleRow
<1>7. c \notin courses /\ courses' = courses \cup {c} /\ given' = given \cup {c} /\ details' = details
  BY DEF Create, FreshCourse, CoursesOK
<1>8. HolesOK'
  <2>1. hole' \in [Holes -> HoleRow \cup {NoHoleRow}]
    BY <1>1, <1>5, <1>6 DEF HolesOK
  <2>2. \A h \in Holes : hole'[h].course \in courses' \cup {NoCourse}
    BY <1>5, <1>6, <1>7 DEF HolesOK
  <2>3. \A h \in Holes : hole'[h].course = c => h \in Range(place)
    BY <1>5, <1>7 DEF HolesOK
  <2> QED
    BY <1>3, <1>5, <1>6, <1>7, <2>1, <2>2, <2>3 DEF HolesOK
<1>9. \A t \in Tees : tee'[t] = IF t \in DOMAIN named THEN [course |-> c, name |-> named[t]] ELSE tee[t]
  BY DEF Create
<1>10. \A t \in DOMAIN named : t \in FreshTees /\ named[t] \in Names
  BY DEF NewTees
<1>11. TeesOK'
  BY <1>7, <1>9, <1>10 DEF TeesOK, Create
<1>12. DetailsOK'
  <2>1. \A h \in Holes : h \notin HolesOf(NoCourse) => h \notin HolesOf(NoCourse)'
    BY <1>5, <1>6 DEF HolesOf
  <2>2. \A t \in Tees : t \notin TeesOf(NoCourse) => t \notin TeesOf(NoCourse)'
    <3>1. ASSUME NEW t \in Tees PROVE tee'[t].course = c \/ tee'[t] = tee[t]
      <4>1. CASE t \in DOMAIN named
        <5>1. tee'[t] = [course |-> c, name |-> named[t]]
          BY <1>9, <4>1
        <5> QED
          BY <5>1
      <4>2. CASE t \notin DOMAIN named
        BY <1>9, <4>2
      <4> QED
        BY <4>1, <4>2
    <3>2. c # NoCourse
      OBVIOUS
    <3> QED
      BY <3>1, <3>2 DEF TeesOf
  <2> QED
    BY <1>7, <2>1, <2>2 DEF DetailsOK
<1> QED
  BY <1>4, <1>5, <1>6, <1>7, <1>3, <1>8, <1>11, <1>12 DEF CoursesOK

LEMMA ImportRows ==
  ASSUME TypeParts, NEW c \in Courses, NEW file \in Files, Import(c, file)
  PROVE  /\ \A h \in Holes :
              \/ hole'[h] = hole[h] /\ hole[h].course # c
              \/ hole'[h] = NoHoleRow
              \/ /\ hole[h].course = c \/ h \in FreshHoles
                 /\ hole'[h].course = c /\ hole'[h].number \in DOMAIN file.index
                 /\ hole'[h].index = file.index[hole'[h].number]
         /\ CoursesOK' /\ HolesOK' /\ TeesOK' /\ DetailsOK'
<1> USE CourseAssumption DEF TypeParts
<1>1. /\ file.tees \subseteq Names /\ DOMAIN file.index \subseteq Numbers
      /\ \A k \in DOMAIN file.index : file.index[k] \in Indexes \cup {NoIndex}
  <2>1. PICK names \in SUBSET Names,
             index \in UNION {[ks -> Indexes \cup {NoIndex}] : ks \in SUBSET Numbers} :
               file = [tees |-> names, count |-> Cardinality(names), index |-> index]
    BY DEF Files
  <2>2. PICK ks \in SUBSET Numbers : index \in [ks -> Indexes \cup {NoIndex}]
    OBVIOUS
  <2>3. file.tees = names /\ file.index = index
    BY <2>1
  <2> QED
    BY <2>2, <2>3
<1>2. courses' = courses \cup {c} /\ given' = given \cup {c}
  BY DEF Import
<1>3. CoursesOK'
  BY <1>2 DEF CoursesOK
<1>4. PICK dug \in Injection(NewNumbers(c, file), FreshHoles) : hole' = HolesImported(c, file, dug)
  BY DEF Import
<1>5. /\ \A k \in DOMAIN dug : k \in DOMAIN file.index /\ NumberFree(c, k) /\ dug[k] \in FreshHoles
      /\ FreshHoles \subseteq Holes /\ \A h \in FreshHoles : hole[h].course = NoCourse
  BY <1>4 DEF Injection, NewNumbers, FreshHoles, HolesOf
<1> DEFINE at(h) == CHOOSE k \in DOMAIN dug : dug[k] = h
<1>6. \A h \in Range(dug) : at(h) \in DOMAIN dug /\ dug[at(h)] = h
  BY DEF Range
<1> HIDE DEF at
<1>7. ASSUME NEW h \in Holes, hole[h].course = c, hole[h].number \notin DOMAIN file.index
      PROVE  hole'[h] = NoHoleRow
  BY <1>4, <1>7 DEF HolesImported, Superseded, HolesOf
<1>8. ASSUME NEW h \in Holes, hole[h].course = c, hole[h].number \in DOMAIN file.index
      PROVE  hole'[h] = [hole[h] EXCEPT !.index = file.index[hole[h].number]]
  <2>1. h \notin Superseded(c, file) /\ h \notin Range(dug)
    BY <1>5, <1>6, <1>8 DEF Superseded
  <2> QED
    BY <1>4, <1>8, <2>1 DEF HolesImported
<1>9. ASSUME NEW h \in Holes, h \in Range(dug)
      PROVE  hole'[h] = [course |-> c, number |-> at(h), index |-> file.index[at(h)]]
  <2>1. h \notin Superseded(c, file)
    BY <1>5, <1>6, <1>9 DEF Superseded, HolesOf
  <2> QED
    BY <1>4, <1>9, <2>1 DEF HolesImported, at
<1>10. ASSUME NEW h \in Holes, hole[h].course # c, h \notin Range(dug)
       PROVE  hole'[h] = hole[h]
  BY <1>4, <1>10 DEF HolesImported, Superseded, HolesOf
<1>11. ASSUME NEW h \in Holes, hole[h].course = c
       PROVE  \/ hole[h].number \notin DOMAIN file.index /\ hole'[h] = NoHoleRow
              \/ /\ hole[h].number \in DOMAIN file.index
                 /\ hole'[h] \in HoleRow /\ hole'[h].course = c /\ hole'[h].number = hole[h].number
                 /\ hole'[h].index = file.index[hole[h].number]
  <2>1. hole[h] \in HoleRow
    BY <1>11 DEF HolesOK, NoHoleRow
  <2>2. CASE hole[h].number \in DOMAIN file.index
    <3>1. hole'[h] = [hole[h] EXCEPT !.index = file.index[hole[h].number]]
      BY <1>8, <1>11, <2>2
    <3>2. file.index[hole[h].number] \in Indexes \cup {NoIndex}
      BY <1>1, <2>2
    <3> QED
      BY <1>11, <2>1, <2>2, <3>1, <3>2 DEF HoleRow
  <2>3. CASE hole[h].number \notin DOMAIN file.index
    BY <1>7, <1>11, <2>3
  <2> QED
    BY <2>2, <2>3
<1>12. ASSUME NEW h \in Holes, h \in Range(dug)
       PROVE  /\ h \in FreshHoles /\ at(h) \in DOMAIN file.index /\ NumberFree(c, at(h)) /\ dug[at(h)] = h
              /\ hole'[h] \in HoleRow /\ hole'[h].course = c /\ hole'[h].number = at(h)
              /\ hole'[h].index = file.index[at(h)]
  <2>1. at(h) \in DOMAIN dug /\ dug[at(h)] = h
    BY <1>6, <1>12
  <2>2. h \in FreshHoles /\ at(h) \in DOMAIN file.index /\ NumberFree(c, at(h))
    BY <1>5, <2>1
  <2>3. hole'[h] = [course |-> c, number |-> at(h), index |-> file.index[at(h)]]
    BY <1>9, <1>12
  <2> QED
    BY <1>1, <2>1, <2>2, <2>3 DEF HoleRow
<1>13. \A h \in Holes :
              \/ hole'[h] = hole[h] /\ hole[h].course # c
              \/ hole'[h] = NoHoleRow
              \/ /\ hole[h].course = c \/ h \in FreshHoles
                 /\ hole'[h].course = c /\ hole'[h].number \in DOMAIN file.index
                 /\ hole'[h].index = file.index[hole'[h].number]
  BY <1>10, <1>11, <1>12
<1>14. HolesOK'
  <2>1. hole' \in [Holes -> HoleRow \cup {NoHoleRow}]
    <3>1. hole' = [h \in Holes |-> hole'[h]]
      BY <1>4 DEF HolesImported
    <3>2. \A h \in Holes : hole'[h] \in HoleRow \cup {NoHoleRow}
      BY <1>10, <1>11, <1>12 DEF HolesOK
    <3> QED
      BY <3>1, <3>2
  <2>2. \A h \in Holes : hole'[h].course \in courses' \cup {NoCourse}
    BY <1>2, <1>10, <1>11, <1>12 DEF HolesOK, NoHoleRow
  <2>3. ASSUME NEW g \in Holes, NEW h \in Holes, g # h, hole'[g].course = hole'[h].course,
               hole'[g].number = hole'[h].number
        PROVE  hole'[g].course = NoCourse
    <3>1. CASE hole'[g].course # c
      <4>1. \A x \in {g, h} : hole'[x] = hole[x] \/ hole'[x] = NoHoleRow
        BY <1>10, <1>11, <1>12, <2>3, <3>1
      <4> QED
        BY <2>3, <4>1 DEF HolesOK, NoHoleRow
    <3>2. CASE hole'[g].course = c
      <4>0. ASSUME NEW x \in Holes, hole'[x].course = c, x \notin Range(dug)
            PROVE  hole[x].course = c /\ hole'[x].number = hole[x].number
        BY <1>10, <1>11, <4>0 DEF NoHoleRow
      <4>1. \A x \in {g, h} : \/ hole[x].course = c /\ hole'[x].number = hole[x].number
                              \/ x \in Range(dug)
        BY <2>3, <3>2, <4>0
      <4>2. CASE hole[g].course = c /\ hole[h].course = c
        <5>1. g \notin Range(dug) /\ h \notin Range(dug)
          BY <1>5, <1>12, <4>2
        <5> QED
          BY <2>3, <4>1, <4>2, <5>1 DEF HolesOK
      <4>3. CASE g \in Range(dug) /\ h \in Range(dug)
        BY <1>12, <2>3, <4>3
      <4>4. CASE g \in Range(dug) /\ hole[h].course = c /\ hole'[h].number = hole[h].number
        BY <1>12, <2>3, <4>4 DEF NumberFree, HolesOf
      <4>5. CASE h \in Range(dug) /\ hole[g].course = c /\ hole'[g].number = hole[g].number
        <5>1. hole[g].number = at(h) /\ NumberFree(c, at(h))
          BY <1>12, <2>3, <4>5
        <5> QED
          BY <4>5, <5>1 DEF NumberFree, HolesOf
      <4> QED
        BY <4>1, <4>2, <4>3, <4>4, <4>5
    <3> QED
      BY <3>1, <3>2
  <2> QED
    BY <2>1, <2>2, <2>3 DEF HolesOK
<1>15. PICK made \in Injection(NewNames(c, file), FreshTees) : tee' = TeesImported(c, file, made)
  BY DEF Import
<1>16. ASSUME NEW t \in Tees
       PROVE  \/ t \in ExtraTees(c, file) /\ tee'[t] = NoTee
              \/ t \notin ExtraTees(c, file) /\ tee'[t].course = c
                   /\ tee'[t] \in [course : Courses, name : Names]
              \/ t \notin ExtraTees(c, file) /\ tee'[t] = tee[t]
  <2>1. CASE t \in ExtraTees(c, file)
    BY <1>15, <2>1 DEF TeesImported
  <2>2. CASE t \notin ExtraTees(c, file) /\ t \in Range(made)
    <3> DEFINE n == CHOOSE n \in DOMAIN made : made[n] = t
    <3>1. tee'[t] = [course |-> c, name |-> n]
      BY <1>15, <2>2 DEF TeesImported
    <3>2. n \in DOMAIN made
      BY <2>2 DEF Range
    <3>3. DOMAIN made \subseteq Names
      BY <1>1, <1>15 DEF Injection, NewNames
    <3> HIDE DEF n
    <3> QED
      BY <2>2, <3>1, <3>2, <3>3
  <2>3. CASE t \notin ExtraTees(c, file) /\ t \notin Range(made)
    BY <1>15, <2>3 DEF TeesImported
  <2> QED
    BY <2>1, <2>2, <2>3
<1>17. TeesOK'
  <2>1. tee' = [t \in Tees |-> tee'[t]]
    BY <1>15 DEF TeesImported
  <2> QED
    BY <1>2, <1>16, <2>1 DEF TeesOK, NoTee
<1>18. DetailsOK'
  <2>1. PICK named \in [file.tees -> Tees] :
          /\ \A n \in file.tees : tee'[named[n]] = [course |-> c, name |-> n]
          /\ details' = Cascade(Superseded(c, file), ExtraTees(c, file))
               \cup {h \in Holes : hole'[h].course = c /\ hole'[h].number \in DOMAIN file.index}
                      \X Range(named)
    BY DEF Import, DetailsImported
  <2>2. \A t \in Range(named) : t \in Tees /\ tee'[t].course = c
    <3>1. \A n \in file.tees : named[n] \in Tees /\ tee'[named[n]].course = c
      <4> SUFFICES ASSUME NEW n \in file.tees PROVE named[n] \in Tees /\ tee'[named[n]].course = c
        OBVIOUS
      <4>1. tee'[named[n]] = [course |-> c, name |-> n]
        BY <2>1
      <4> QED
        BY <4>1
    <3> QED
      BY <3>1 DEF Range
  <2>3. ASSUME NEW d \in Cascade(Superseded(c, file), ExtraTees(c, file))
        PROVE  /\ d \in Holes \X Tees
               /\ hole'[d[1]].course # NoCourse /\ tee'[d[2]].course # NoCourse
    <3>1. /\ d \in Holes \X Tees /\ d[1] \notin Superseded(c, file) /\ d[2] \notin ExtraTees(c, file)
          /\ hole[d[1]].course # NoCourse /\ tee[d[2]].course # NoCourse
      BY <2>3 DEF Cascade, DetailsOK, HolesOf, TeesOf
    <3>2. hole'[d[1]].course # NoCourse
      <4>1. CASE hole[d[1]].course = c
        BY <1>11, <3>1, <4>1 DEF Superseded, HolesOf
      <4>2. CASE hole[d[1]].course # c
        BY <1>10, <1>12, <3>1, <4>2
      <4> QED
        BY <4>1, <4>2
    <3> QED
      BY <1>16, <3>1, <3>2
  <2>4. \A d \in details' : /\ d \in Holes \X Tees
                            /\ hole'[d[1]].course # NoCourse /\ tee'[d[2]].course # NoCourse
    BY <2>1, <2>2, <2>3
  <2> QED
    BY <2>4 DEF DetailsOK, HolesOf, TeesOf
<1> QED
  BY <1>3, <1>13, <1>14, <1>17, <1>18

-----------------------------------------------------------------------------
(* Every step keeps the types.                                             *)

(* One hole changes, or none: it is given to a course, has its index set,  *)
(* or goes.                                                                *)
LEMMA HoleInserted ==
  ASSUME TypeParts, NEW h \in Holes, NEW c \in Courses, NEW k \in Numbers,
         NEW i \in Indexes \cup {NoIndex}, Insert(h, c, k, i), UNCHANGED <<courses, given, tee, details>>
  PROVE  HolesOK' /\ DetailsOK' /\ hole' = [hole EXCEPT ![h] = [course |-> c, number |-> k, index |-> i]]
<1> USE CourseAssumption DEF TypeParts
<1> DEFINE x == [course |-> c, number |-> k, index |-> i]
<1>1. x \in HoleRow /\ x.course = c /\ x.number = k
  BY DEF HoleRow
<1>2. hole' = [hole EXCEPT ![h] = x] /\ c \in courses /\ NumberFree(c, k) /\ hole[h].course = NoCourse
  BY DEF Insert, HoleCreated, MayInsertHole, CourseFound, FreshHoles, HolesOf
<1> HIDE DEF x
<1>3. HolesOK'
  BY <1>1, <1>2 DEF HolesOK, NumberFree, HolesOf
<1>4. DetailsOK'
  BY <1>1, <1>2 DEF HolesOK, DetailsOK, HolesOf, TeesOf
<1> QED
  BY <1>2, <1>3, <1>4 DEF x

LEMMA HoleIndexSet ==
  ASSUME TypeParts, NEW h \in Holes, NEW i \in Indexes \cup {NoIndex}, hole' = HoleIndexed(h, i),
         UNCHANGED <<courses, given, tee, details>>
  PROVE  /\ HolesOK' /\ DetailsOK'
         /\ \A g \in Holes : hole'[g].course = hole[g].course
         /\ \A g \in Holes : hole'[g].index = IF g = h /\ HoleFound(h) THEN i ELSE hole[g].index
<1> USE CourseAssumption DEF TypeParts
<1>1. CASE ~HoleFound(h)
  BY <1>1 DEF HoleIndexed, HolesOK, DetailsOK, HolesOf, TeesOf
<1>2. CASE HoleFound(h)
  <2> DEFINE x == [hole[h] EXCEPT !.index = i]
  <2>1. hole[h] \in HoleRow
    BY <1>2 DEF HoleFound, HolesOK, NoHoleRow
  <2>2. x \in HoleRow /\ x.course = hole[h].course /\ x.number = hole[h].number /\ x.index = i
    BY <2>1 DEF HoleRow
  <2>3. hole' = [hole EXCEPT ![h] = x]
    BY <1>2 DEF HoleIndexed
  <2> HIDE DEF x
  <2>4. \A g \in Holes : /\ hole'[g].course = hole[g].course /\ hole'[g].number = hole[g].number
                         /\ hole'[g].index = IF g = h THEN i ELSE hole[g].index
    BY <2>2, <2>3 DEF HolesOK
  <2>5. HolesOK'
    BY <2>2, <2>3, <2>4 DEF HolesOK
  <2>6. DetailsOK'
    BY <2>4 DEF DetailsOK, HolesOf, TeesOf
  <2> QED
    BY <1>2, <2>4, <2>5, <2>6
<1> QED
  BY <1>1, <1>2

LEMMA DoneOK ==
  ASSUME TypeParts, NEW r \in Requests, Done(r)
  PROVE  /\ req' \in [Requests -> RequestType]
         /\ \A q \in Requests : req'[q] = req[q] \/ req'[q].kind = "idle"
  BY IdleOK DEF TypeParts, Done

LEMMA DirectoryAlone ==
  ASSUME TypeParts, UNCHANGED directoryVars
  PROVE  CoursesOK' /\ HolesOK' /\ TeesOK' /\ DetailsOK'
  BY DEF TypeParts, directoryVars, CoursesOK, HolesOK, TeesOK, DetailsOK, HolesOf, TeesOf

LEMMA DetachedOK ==
  ASSUME TypeParts, NEW rows \in [Removals -> RemovalType], NEW c \in Courses,
         \A q \in Removals : rows[q].course = removal[q].course,
         removal' = Detached(rows, c), courses' = courses \ {c}
  PROVE  /\ RemovalsOK'
         /\ \A q \in Removals : /\ removal'[q].state = rows[q].state /\ removal'[q].about = rows[q].about
                               /\ removal'[q].course = IF rows[q].course = c THEN NoCourse
                                                       ELSE rows[q].course
<1> USE CourseAssumption
<1>1. ASSUME NEW q \in Removals
      PROVE  /\ removal'[q] \in RemovalType
             /\ removal'[q].state = rows[q].state /\ removal'[q].about = rows[q].about
             /\ removal'[q].course = IF rows[q].course = c THEN NoCourse ELSE rows[q].course
  <2> DEFINE x == IF rows[q].course = c THEN NoCourse ELSE rows[q].course
  <2>1. removal'[q] = [rows[q] EXCEPT !.course = x]
    BY DEF Detached
  <2>2. rows[q] \in RemovalType /\ x \in Courses \cup {NoCourse}
    BY DEF RemovalType
  <2> HIDE DEF x
  <2>3. removal'[q] \in RemovalType /\ removal'[q].state = rows[q].state
        /\ removal'[q].about = rows[q].about /\ removal'[q].course = x
    BY <2>1, <2>2 DEF RemovalType
  <2> QED
    BY <2>3 DEF x
<1>2. removal' = [q \in Removals |-> removal'[q]]
  BY DEF Detached
<1>3. removal' \in [Removals -> RemovalType]
  BY <1>1, <1>2
<1> QED
  BY <1>1, <1>3 DEF TypeParts, RemovalsOK

(* An answer changes a pending request's state and nothing else.           *)
LEMMA AnsweredOK ==
  ASSUME TypeParts, NEW q \in Removals, NEW answer \in Answers
  PROVE  /\ Answered(q, answer) \in [Removals -> RemovalType]
         /\ \A p \in Removals :
               /\ Answered(q, answer)[p].course = removal[p].course
               /\ Answered(q, answer)[p].about = removal[p].about
               /\ Answered(q, answer)[p].state =
                    IF p = q /\ removal[q].state = "pending" THEN answer ELSE removal[p].state
<1>1. CASE removal[q].state # "pending"
  BY <1>1 DEF Answered, TypeParts, RemovalsOK
<1>2. CASE removal[q].state = "pending"
  <2> DEFINE x == [removal[q] EXCEPT !.state = answer]
  <2>1. Answered(q, answer) = [removal EXCEPT ![q] = x]
    BY <1>2 DEF Answered
  <2>2. x \in RemovalType /\ x.course = removal[q].course /\ x.about = removal[q].about /\ x.state = answer
    BY DEF TypeParts, RemovalsOK, RemovalType
  <2> HIDE DEF x
  <2> QED
    BY <1>2, <2>1, <2>2 DEF TypeParts, RemovalsOK
<1> QED
  BY <1>1, <1>2

-----------------------------------------------------------------------------
(* Stroke indexes.  A request that has checked an index either has it to   *)
(* itself on its course, the hole it is about aside, or its crossing with  *)
(* another writer is on record.                                            *)
Claiming(r) == req[r].kind \in {"addHole", "editHole"}
Claim(r) == <<req[r].course, req[r].index>>

ClaimsOK ==
    \A r \in Requests : Claiming(r) =>
        /\ req[r].course \in Courses /\ req[r].index \in Indexes /\ req[r].number \in Numbers
        /\ req[r].kind = "addHole" => req[r].hole = NoHole
        /\ req[r].kind = "editHole" =>
              req[r].hole \in Holes /\ hole[req[r].hole].course \in {req[r].course, NoCourse}
        /\ \/ Claim(r) \in crossed
           \/ \A g \in Holes : (hole[g].course = req[r].course /\ hole[g].index = req[r].index)
                                => g = req[r].hole

ClaimsCross ==
    \A q, r \in Requests : (q # r /\ Claiming(q) /\ Claiming(r) /\ Claim(q) = Claim(r)) => Claim(r) \in crossed

IndexInv == IndexesDistinctUnlessCrossed /\ ClaimsOK /\ ClaimsCross

(* Holes that go, lose their index, or are new and have none.              *)
QuietHoles ==
    \A h \in Holes :
       \/ hole'[h].course = NoCourse
       \/ hole'[h].course = hole[h].course /\ hole'[h].index \in {hole[h].index, NoIndex}
       \/ h \in FreshHoles /\ hole'[h].index = NoIndex

QuietClaims == \A r \in Requests : req'[r] = req[r] \/ req'[r].kind \notin {"addHole", "editHole"}

LEMMA QuietIndexes ==
  ASSUME TypeParts, IndexInv, QuietHoles, QuietClaims, UNCHANGED crossed
  PROVE  IndexInv'
<1> USE CourseAssumption
<1>1. \A h \in Holes : hole'[h].course \in Courses /\ hole'[h].index \in Indexes
                         => hole'[h].course = hole[h].course /\ hole'[h].index = hole[h].index
  BY DEF QuietHoles
<1>4. IndexesDistinctUnlessCrossed'
  <2> SUFFICES ASSUME NEW g \in Holes, NEW h \in Holes, g # h, hole'[g].course # NoCourse,
                      hole'[g].course = hole'[h].course, hole'[g].index = hole'[h].index,
                      hole'[g].index # NoIndex
               PROVE  <<hole'[g].course, hole'[g].index>> \in crossed
    BY DEF IndexesDistinctUnlessCrossed
  <2>1. /\ hole'[g].course = hole[g].course /\ hole'[g].index = hole[g].index
        /\ hole'[h].course = hole[h].course /\ hole'[h].index = hole[h].index
    BY DEF QuietHoles
  <2> QED
    BY <2>1 DEF IndexInv, IndexesDistinctUnlessCrossed
<1>5. ClaimsOK'
  <2> SUFFICES ASSUME NEW r \in Requests, Claiming(r)'
               PROVE  /\ req'[r].course \in Courses /\ req'[r].index \in Indexes /\ req'[r].number \in Numbers
                      /\ req'[r].kind = "addHole" => req'[r].hole = NoHole
                      /\ req'[r].kind = "editHole" =>
                            req'[r].hole \in Holes /\ hole'[req'[r].hole].course \in {req'[r].course, NoCourse}
                      /\ \/ Claim(r)' \in crossed
                         \/ \A g \in Holes : (hole'[g].course = req'[r].course /\ hole'[g].index = req'[r].index)
                                              => g = req'[r].hole
    BY DEF ClaimsOK
  <2>1. req'[r] = req[r] /\ Claiming(r) /\ (Claim(r)' = Claim(r))
    BY DEF QuietClaims, Claiming, Claim
  <2>2. /\ req[r].course \in Courses /\ req[r].index \in Indexes
        /\ req[r].kind = "editHole" => req[r].hole \in Holes
    BY <2>1 DEF IndexInv, ClaimsOK
  <2>3. req[r].kind = "editHole" => hole'[req[r].hole].course \in {req[r].course, NoCourse}
    <3> SUFFICES ASSUME req[r].kind = "editHole" PROVE hole'[req[r].hole].course \in {req[r].course, NoCourse}
      OBVIOUS
    <3>1. req[r].hole \in Holes /\ req[r].hole \notin FreshHoles
      BY <2>2 DEF FreshHoles
    <3> QED
      BY <2>1, <3>1 DEF QuietHoles, IndexInv, ClaimsOK
  <2>4. \A g \in Holes : (hole'[g].course = req[r].course /\ hole'[g].index = req[r].index)
                         => hole[g].course = req[r].course /\ hole[g].index = req[r].index
    BY <1>1, <2>2
  <2> QED
    BY <2>1, <2>3, <2>4 DEF IndexInv, ClaimsOK
<1>6. ClaimsCross'
  BY DEF QuietClaims, IndexInv, ClaimsCross, Claiming, Claim
<1> QED
  BY <1>4, <1>5, <1>6 DEF IndexInv

(* The steps that write an index, or check one.                            *)
LEMMA CheckIndexes ==
  ASSUME TypeParts, IndexInv, NEW r \in Requests, NEW kind \in {"addHole", "editHole"}, NEW c \in Courses,
         NEW h \in Holes \cup {NoHole}, NEW k \in Numbers, NEW i \in Indexes, Check(r, kind, c, h, k, i),
         kind = "addHole" => h = NoHole,
         kind = "editHole" => h \in Holes /\ hole[h].course = c
  PROVE  IndexInv' /\ req' \in [Requests -> RequestType] /\ HistoryOK'
<1> USE CourseAssumption
<1> DEFINE x == [Idle EXCEPT !.kind = kind, !.course = c, !.hole = h, !.number = k, !.index = i]
<1>1. /\ x \in RequestType /\ x.kind = kind /\ x.course = c /\ x.hole = h /\ x.number = k /\ x.index = i
  BY DEF Idle, RequestType
<1>2. req' = [req EXCEPT ![r] = x] /\ UNCHANGED <<hole, doubled, contested, onRequest>>
  BY DEF Check, directoryVars
<1>3. crossed' = IF Checking(c, i) = {} THEN crossed ELSE crossed \cup {<<c, i>>}
  BY DEF Check
<1>4. IndexFree(c, h, i)
  BY DEF Check
<1> HIDE DEF x
<1>5. /\ \A q \in Requests : req'[q] = IF q = r THEN x ELSE req[q]
      /\ req' \in [Requests -> RequestType]
  BY <1>1, <1>2 DEF TypeParts
<1>6. HistoryOK'
  BY <1>2, <1>3 DEF TypeParts, HistoryOK
<1>7. IndexesDistinctUnlessCrossed'
  BY <1>2, <1>3 DEF IndexInv, IndexesDistinctUnlessCrossed
<1>8. ClaimsOK'
  BY <1>1, <1>2, <1>3, <1>4, <1>5 DEF IndexInv, ClaimsOK, Claiming, Claim, IndexFree, HolesOf
<1>9. ClaimsCross'
  <2> SUFFICES ASSUME NEW p \in Requests, NEW q \in Requests, p # q, Claiming(p)', Claiming(q)',
                      Claim(p)' = Claim(q)'
               PROVE  Claim(q)' \in crossed'
    BY DEF ClaimsCross
  <2>1. CASE p # r /\ q # r
    <3>1. Claiming(p) /\ Claiming(q) /\ Claim(p) = Claim(q) /\ Claim(q)' = Claim(q)
      BY <1>5, <2>1 DEF Claiming, Claim
    <3> QED
      BY <1>3, <3>1 DEF IndexInv, ClaimsCross
  <2>2. CASE p = r \/ q = r
    <3> DEFINE o == IF p = r THEN q ELSE p
    <3>1. o \in Requests /\ o # r /\ Claiming(o)' /\ Claim(o)' = Claim(q)' /\ Claim(r)' = Claim(q)'
      BY <2>2
    <3>2. Claiming(o) /\ Claim(o)' = Claim(o) /\ Claim(r)' = <<c, i>>
      BY <1>1, <1>5, <3>1 DEF Claiming, Claim
    <3> HIDE DEF o
    <3>3. o \in Checking(c, i)
      BY <3>1, <3>2 DEF Checking, Claiming, Claim
    <3> QED
      BY <1>3, <3>1, <3>2, <3>3
  <2> QED
    BY <2>1, <2>2
<1> QED
  BY <1>5, <1>6, <1>7, <1>8, <1>9 DEF IndexInv

(* A request writes the index it checked, to the hole it is about or to a  *)
(* new one; either way to no hole another request is about but one of the  *)
(* same course.                                                            *)
LEMMA WriteIndexes ==
  ASSUME TypeParts, IndexInv, NEW r \in Requests, Claiming(r), Done(r), UNCHANGED crossed, NEW w \in Holes,
         \A g \in Holes \ {w} : hole'[g].course = hole[g].course /\ hole'[g].index = hole[g].index,
         \/ hole'[w].course = hole[w].course /\ hole'[w].index = hole[w].index
         \/ /\ hole'[w].course = req[r].course /\ hole'[w].index = req[r].index
            /\ \/ w \in FreshHoles /\ req[r].kind = "addHole"
               \/ w = req[r].hole /\ hole[w].course = req[r].course
  PROVE  IndexInv'
<1> USE CourseAssumption
<1>1. \A q \in Requests : Claiming(q)' => q # r /\ req'[q] = req[q] /\ Claiming(q) /\ Claim(q)' = Claim(q)
  BY IdleOK DEF TypeParts, Done, Claiming, Claim
<1>2. /\ req[r].course \in Courses /\ req[r].index \in Indexes
      /\ \/ Claim(r) \in crossed
         \/ \A g \in Holes : (hole[g].course = req[r].course /\ hole[g].index = req[r].index)
                              => g = req[r].hole
  BY DEF IndexInv, ClaimsOK
<1>3. IndexesDistinctUnlessCrossed'
  <2> SUFFICES ASSUME NEW g \in Holes, NEW h \in Holes, g # h, hole'[g].course # NoCourse,
                      hole'[g].course = hole'[h].course, hole'[g].index = hole'[h].index,
                      hole'[g].index # NoIndex
               PROVE  <<hole'[g].course, hole'[g].index>> \in crossed
    BY DEF IndexesDistinctUnlessCrossed
  <2>1. CASE hole'[w].course = hole[w].course /\ hole'[w].index = hole[w].index
    <3>1. \A x \in Holes : hole'[x].course = hole[x].course /\ hole'[x].index = hole[x].index
      BY <2>1
    <3>2. /\ hole[g].course # NoCourse /\ hole[g].course = hole[h].course
          /\ hole[g].index = hole[h].index /\ hole[g].index # NoIndex
      BY <3>1
    <3> QED
      BY <3>1, <3>2 DEF IndexInv, IndexesDistinctUnlessCrossed
  <2>2. CASE /\ hole'[w].course = req[r].course /\ hole'[w].index = req[r].index
             /\ \/ w \in FreshHoles /\ req[r].kind = "addHole"
                \/ w = req[r].hole /\ hole[w].course = req[r].course
    <3>1. CASE g # w /\ h # w
      BY <3>1 DEF IndexInv, IndexesDistinctUnlessCrossed
    <3>2. ASSUME NEW x \in Holes, x # w, hole'[x].course = req[r].course, hole'[x].index = req[r].index
          PROVE  Claim(r) \in crossed
      <4>1. hole[x].course = req[r].course /\ hole[x].index = req[r].index
        BY <3>2
      <4>2. x # req[r].hole
        <5>1. req[r].kind = "addHole" => req[r].hole = NoHole
          BY DEF IndexInv, ClaimsOK
        <5> QED
          BY <2>2, <3>2, <5>1
      <4> QED
        BY <1>2, <4>1, <4>2
    <3>3. CASE g = w \/ h = w
      <4>1. /\ hole'[g].course = req[r].course /\ hole'[g].index = req[r].index
            /\ hole'[h].course = req[r].course /\ hole'[h].index = req[r].index
        BY <2>2, <3>3
      <4>2. Claim(r) \in crossed
        BY <3>2, <3>3, <4>1
      <4> QED
        BY <4>1, <4>2 DEF Claim
    <3> QED
      BY <3>1, <3>3
  <2> QED
    BY <2>1, <2>2
<1>4. ClaimsOK'
  <2> SUFFICES ASSUME NEW q \in Requests, Claiming(q)'
               PROVE  /\ req'[q].course \in Courses /\ req'[q].index \in Indexes /\ req'[q].number \in Numbers
                      /\ req'[q].kind = "addHole" => req'[q].hole = NoHole
                      /\ req'[q].kind = "editHole" =>
                            req'[q].hole \in Holes /\ hole'[req'[q].hole].course \in {req'[q].course, NoCourse}
                      /\ \/ Claim(q)' \in crossed
                         \/ \A g \in Holes : (hole'[g].course = req'[q].course /\ hole'[g].index = req'[q].index)
                                              => g = req'[q].hole
    BY DEF ClaimsOK
  <2>1. q # r /\ req'[q] = req[q] /\ Claiming(q) /\ Claim(q)' = Claim(q)
    BY <1>1
  <2>2. req[q].kind = "editHole" =>
           req[q].hole \in Holes /\ hole[req[q].hole].course \in {req[q].course, NoCourse}
    BY <2>1 DEF IndexInv, ClaimsOK
  <2>3. req[q].kind = "editHole" => hole'[req[q].hole].course \in {req[q].course, NoCourse}
    BY <2>2 DEF FreshHoles
  <2>4. CASE Claim(q) = Claim(r)
    <3>1. Claim(q)' \in crossed
      BY <2>1, <2>4 DEF IndexInv, ClaimsCross
    <3> QED
      BY <2>1, <2>2, <2>3, <3>1 DEF IndexInv, ClaimsOK
  <2>5. CASE Claim(q) # Claim(r)
    <3>1. \A g \in Holes : (hole'[g].course = req[q].course /\ hole'[g].index = req[q].index)
                          => hole[g].course = req[q].course /\ hole[g].index = req[q].index
      BY <2>5 DEF Claim
    <3> QED
      BY <2>1, <2>2, <2>3, <3>1 DEF IndexInv, ClaimsOK
  <2> QED
    BY <2>4, <2>5
<1>5. ClaimsCross'
  BY <1>1 DEF IndexInv, ClaimsCross
<1> QED
  BY <1>3, <1>4, <1>5 DEF IndexInv

(* An import gives the indexes of its file, and is on record as crossing   *)
(* whoever has checked one of them.                                        *)
LEMMA ImportIndexes ==
  ASSUME TypeParts, IndexInv, NEW c \in Courses, NEW file \in Files, Import(c, file)
  PROVE  IndexInv' /\ HistoryOK'
<1> USE CourseAssumption
<1>1. /\ UNCHANGED <<req, doubled, contested, onRequest>> /\ Importable(file)
      /\ crossed' = crossed \cup {<<c, i>> : i \in {j \in Range(file.index) \ {NoIndex} :
                                                       Checking(c, j) # {}}}
  BY DEF Import
<1>2. \A h \in Holes :
         \/ hole'[h] = hole[h] /\ hole[h].course # c
         \/ hole'[h] = NoHoleRow
         \/ /\ hole[h].course = c \/ h \in FreshHoles
            /\ hole'[h].course = c /\ hole'[h].number \in DOMAIN file.index
            /\ hole'[h].index = file.index[hole'[h].number]
  BY ImportRows
<1>3. \A k \in DOMAIN file.index : file.index[k] \in Indexes \cup {NoIndex}
  <2>1. PICK names \in SUBSET Names,
             index \in UNION {[ks -> Indexes \cup {NoIndex}] : ks \in SUBSET Numbers} :
               file = [tees |-> names, count |-> Cardinality(names), index |-> index]
    BY DEF Files
  <2>2. PICK ks \in SUBSET Numbers : index \in [ks -> Indexes \cup {NoIndex}]
    OBVIOUS
  <2>3. file.index = index
    BY <2>1
  <2> QED
    BY <2>2, <2>3
<1>4. HistoryOK'
  BY <1>1, <1>3 DEF TypeParts, HistoryOK, Range
<1>5. IndexesDistinctUnlessCrossed'
  <2> SUFFICES ASSUME NEW g \in Holes, NEW h \in Holes, g # h, hole'[g].course # NoCourse,
                      hole'[g].course = hole'[h].course, hole'[g].index = hole'[h].index,
                      hole'[g].index # NoIndex
               PROVE  <<hole'[g].course, hole'[g].index>> \in crossed'
    BY DEF IndexesDistinctUnlessCrossed
  <2>1. CASE hole'[g].course # c
    <3>1. hole'[g] = hole[g] /\ hole'[h] = hole[h]
      BY <1>2, <2>1 DEF NoHoleRow
    <3> QED
      BY <1>1, <3>1 DEF IndexInv, IndexesDistinctUnlessCrossed
  <2>2. CASE hole'[g].course = c
    <3>1. /\ hole'[g].number \in DOMAIN file.index /\ hole'[g].index = file.index[hole'[g].number]
          /\ hole'[h].number \in DOMAIN file.index /\ hole'[h].index = file.index[hole'[h].number]
      <4>1. ASSUME NEW x \in Holes, hole'[x].course = c
            PROVE  hole'[x].number \in DOMAIN file.index /\ hole'[x].index = file.index[hole'[x].number]
        BY <1>2, <4>1 DEF NoHoleRow
      <4> QED
        BY <2>2, <4>1
    <3>2. hole'[g].number = hole'[h].number
      BY <1>1, <3>1 DEF Importable
    <3>3. HolesOK'
      BY ImportRows
    <3> QED
      BY <2>2, <3>2, <3>3 DEF HolesOK
  <2> QED
    BY <2>1, <2>2
<1>6. ClaimsOK'
  <2> SUFFICES ASSUME NEW r \in Requests, Claiming(r)
               PROVE  /\ req[r].course \in Courses /\ req[r].index \in Indexes /\ req[r].number \in Numbers
                      /\ req[r].kind = "addHole" => req[r].hole = NoHole
                      /\ req[r].kind = "editHole" =>
                            req[r].hole \in Holes /\ hole'[req[r].hole].course \in {req[r].course, NoCourse}
                      /\ \/ Claim(r) \in crossed'
                         \/ \A g \in Holes : (hole'[g].course = req[r].course /\ hole'[g].index = req[r].index)
                                              => g = req[r].hole
    BY <1>1 DEF ClaimsOK, Claiming, Claim
  <2>1. /\ req[r].course \in Courses /\ req[r].index \in Indexes /\ req[r].number \in Numbers
        /\ req[r].kind = "addHole" => req[r].hole = NoHole
        /\ req[r].kind = "editHole" =>
              req[r].hole \in Holes /\ hole[req[r].hole].course \in {req[r].course, NoCourse}
    BY DEF IndexInv, ClaimsOK
  <2>2. req[r].kind = "editHole" => hole'[req[r].hole].course \in {req[r].course, NoCourse}
    <3> SUFFICES ASSUME req[r].kind = "editHole"
                 PROVE  hole'[req[r].hole].course \in {req[r].course, NoCourse}
      OBVIOUS
    <3>1. req[r].hole \in Holes /\ req[r].hole \notin FreshHoles
      BY <2>1 DEF FreshHoles
    <3> QED
      BY <1>2, <2>1, <3>1 DEF NoHoleRow
  <2>3. ASSUME NEW g \in Holes, hole'[g].course = req[r].course, hole'[g].index = req[r].index, g # req[r].hole
        PROVE  Claim(r) \in crossed'
    <3>1. CASE req[r].course # c
      <4>1. hole'[g] = hole[g]
        BY <1>2, <2>1, <2>3, <3>1 DEF NoHoleRow
      <4> QED
        BY <1>1, <2>3, <4>1 DEF IndexInv, ClaimsOK
    <3>2. CASE req[r].course = c
      <4>1. hole'[g].number \in DOMAIN file.index /\ req[r].index = file.index[hole'[g].number]
        BY <1>2, <2>1, <2>3, <3>2 DEF NoHoleRow
      <4>2. req[r].index \in Range(file.index) \ {NoIndex}
        BY <2>1, <4>1 DEF Range
      <4>3. r \in Checking(c, req[r].index)
        BY <3>2 DEF Checking, Claiming
      <4> QED
        BY <1>1, <3>2, <4>2, <4>3 DEF Claim
    <3> QED
      BY <3>1, <3>2
  <2> QED
    BY <2>1, <2>2, <2>3
<1>7. ClaimsCross'
  BY <1>1 DEF IndexInv, ClaimsCross, Claiming, Claim
<1> QED
  BY <1>4, <1>5, <1>6, <1>7 DEF IndexInv

-----------------------------------------------------------------------------
(* Removal requests.  Somebody who has found nobody asking still has it    *)
(* so, or the two are on record; an administrator's request was filed for  *)
(* the course it was read with, and is still open or on record as shared.  *)
Unasked(r) == req[r].course \in doubled \/ Pending(req[r].course) = {}

AsksOK ==
    /\ \A r \in Requests : req[r].kind = "ask" =>
           req[r].course \in Courses /\ Unasked(r)
    /\ \A q, r \in Requests : (q # r /\ req[q].kind = "ask" /\ req[r].kind = "ask"
                                 /\ req[q].course = req[r].course) => req[r].course \in doubled
    /\ OnePendingUnlessDoubled

FiledOK ==
    \A q \in Removals : removal[q].state # "none" => removal[q].course \in {removal[q].about, NoCourse}

SettlesOK ==
    /\ \A q \in contested : removal[q].state # "none"
    /\ \A r \in Requests : req[r].kind = "resolve" =>
          /\ req[r].removal \in Removals /\ req[r].answer \in Answers
          /\ removal[req[r].removal].state # "none"
          /\ req[r].course \in {removal[req[r].removal].about, NoCourse}
          /\ removal[req[r].removal].state = "pending" \/ req[r].removal \in contested
    /\ \A q, r \in Requests : (q # r /\ req[q].kind = "resolve" /\ req[r].kind = "resolve"
                                 /\ req[q].removal = req[r].removal) => req[r].removal \in contested
    /\ RemovedOnRecordUnlessContested

RemovalInv == AsksOK /\ FiledOK /\ SettlesOK

(* Steps that file and answer nothing; the course of a request may go.     *)
QuietRemovals ==
    \A q \in Removals : /\ removal'[q].state = removal[q].state /\ removal'[q].about = removal[q].about
                        /\ removal'[q].course \in {removal[q].course, NoCourse}

QuietAsks == \A r \in Requests : req'[r] = req[r] \/ req'[r].kind \notin {"ask", "resolve"}

LEMMA QuietRemovalSteps ==
  ASSUME TypeParts, RemovalInv, QuietRemovals, QuietAsks, UNCHANGED <<doubled, contested, onRequest>>
  PROVE  RemovalInv'
<1> USE CourseAssumption
<1>1. \A c \in Courses : Pending(c)' \subseteq Pending(c)
  BY DEF QuietRemovals, Pending
<1>2. AsksOK'
  <2>1. OnePendingUnlessDoubled'
    BY <1>1 DEF RemovalInv, AsksOK, OnePendingUnlessDoubled
  <2> QED
    BY <1>1, <2>1 DEF RemovalInv, AsksOK, QuietAsks, Unasked
<1>3. FiledOK'
  BY DEF QuietRemovals, RemovalInv, FiledOK
<1>4. SettlesOK'
  <2>1. \A q \in contested : q \in Removals
    BY DEF TypeParts, HistoryOK
  <2>2. RemovedOnRecordUnlessContested'
    BY DEF QuietRemovals, RemovalInv, SettlesOK, RemovedOnRecordUnlessContested
  <2> QED
    BY <2>1, <2>2 DEF QuietRemovals, QuietAsks, RemovalInv, SettlesOK
<1> QED
  BY <1>2, <1>3, <1>4 DEF RemovalInv

LEMMA AskRemovals ==
  ASSUME TypeParts, RemovalInv, NEW r \in Requests, NEW c \in Courses, Ask(r, c)
  PROVE  RemovalInv' /\ req' \in [Requests -> RequestType] /\ HistoryOK' /\ QuietClaims
<1> USE CourseAssumption
<1> DEFINE x == [Idle EXCEPT !.kind = "ask", !.course = c]
<1>1. x \in RequestType /\ x.kind = "ask" /\ x.course = c
  BY DEF Idle, RequestType
<1>2. /\ req' = [req EXCEPT ![r] = x] /\ Pending(c) = {}
      /\ UNCHANGED <<removal, crossed, contested, onRequest>>
      /\ doubled' = IF \E s \in Requests : req[s].kind = "ask" /\ req[s].course = c
                    THEN doubled \cup {c} ELSE doubled
  BY DEF Ask, NonePending
<1> HIDE DEF x
<1>3. /\ \A q \in Requests : req'[q] = IF q = r THEN x ELSE req[q]
      /\ req' \in [Requests -> RequestType]
  BY <1>1, <1>2 DEF TypeParts
<1>4. QuietClaims /\ HistoryOK'
  BY <1>1, <1>2, <1>3 DEF QuietClaims, TypeParts, HistoryOK
<1>5. AsksOK'
  <2>1. OnePendingUnlessDoubled'
    BY <1>2 DEF RemovalInv, AsksOK, OnePendingUnlessDoubled, Pending
  <2>2. \A q \in Requests : req'[q].kind = "ask" =>
           req'[q].course \in Courses /\ Unasked(q)'
    BY <1>1, <1>2, <1>3 DEF RemovalInv, AsksOK, Unasked, Pending
  <2>3. ASSUME NEW p \in Requests, NEW q \in Requests, p # q, req'[p].kind = "ask", req'[q].kind = "ask",
               req'[p].course = req'[q].course
        PROVE  req'[q].course \in doubled'
    <3>1. CASE p # r /\ q # r
      BY <1>2, <1>3, <2>3, <3>1 DEF RemovalInv, AsksOK
    <3>2. CASE p = r \/ q = r
      BY <1>1, <1>2, <1>3, <2>3, <3>2
    <3> QED
      BY <3>1, <3>2
  <2> QED
    BY <2>1, <2>2, <2>3 DEF AsksOK
<1>6. FiledOK'
  BY <1>2 DEF RemovalInv, FiledOK
<1>7. SettlesOK'
  BY <1>1, <1>2, <1>3 DEF RemovalInv, SettlesOK, RemovedOnRecordUnlessContested
<1> QED
  BY <1>3, <1>4, <1>5, <1>6, <1>7 DEF RemovalInv

LEMMA RequestRemovals ==
  ASSUME TypeParts, RemovalInv, NEW r \in Requests, NEW q \in Removals, RequestRemoval(r, q)
  PROVE  RemovalInv' /\ RemovalsOK'
<1> USE CourseAssumption
<1> DEFINE c == req[r].course
           x == [state |-> "pending", course |-> c, about |-> c]
<1>1. /\ req[r].kind = "ask" /\ c \in Courses /\ c \in courses /\ removal[q].state = "none"
      /\ removal' = [removal EXCEPT ![q] = x] /\ Done(r)
      /\ UNCHANGED <<courses, doubled, contested, onRequest>>
  BY DEF RequestRemoval, Filed, directoryVars, historyVars, TypeParts, CoursesOK
<1>2. x \in RemovalType /\ x.state = "pending" /\ x.course = c /\ x.about = c
  BY <1>1 DEF RemovalType
<1> HIDE DEF x
<1>3. \A p \in Removals : removal'[p] = IF p = q THEN x ELSE removal[p]
  BY <1>1 DEF TypeParts, RemovalsOK
<1>4. RemovalsOK'
  BY <1>1, <1>2, <1>3 DEF TypeParts, RemovalsOK
<1>5. \A p \in Requests : req'[p].kind # "idle" => p # r /\ req'[p] = req[p]
  BY <1>1, IdleOK DEF TypeParts, Done
<1>6. \A d : Pending(d)' = IF d = c THEN Pending(d) \cup {q} ELSE Pending(d)
  BY <1>1, <1>2, <1>3 DEF Pending
<1>7. c \in doubled \/ Pending(c) = {}
  BY <1>1 DEF RemovalInv, AsksOK, Unasked
<1>8. AsksOK'
  <2>1. OnePendingUnlessDoubled'
    BY <1>1, <1>6, <1>7 DEF RemovalInv, AsksOK, OnePendingUnlessDoubled
  <2>2. ASSUME NEW p \in Requests, req'[p].kind = "ask"
        PROVE  req'[p].course \in Courses /\ Unasked(p)'
    <3>1. p # r /\ req'[p] = req[p]
      BY <1>5, <2>2
    <3>2. req[p].course = c => c \in doubled
      BY <1>1, <2>2, <3>1 DEF RemovalInv, AsksOK
    <3>3. req[p].course \in Courses /\ Unasked(p)
      BY <2>2, <3>1 DEF RemovalInv, AsksOK
    <3>4. Pending(req[p].course)' = IF req[p].course = c THEN Pending(req[p].course) \cup {q}
                                    ELSE Pending(req[p].course)
      BY <1>1, <1>2, <1>3, <3>1 DEF Pending
    <3> QED
      BY <1>1, <3>1, <3>2, <3>3, <3>4 DEF Unasked
  <2>3. \A p, s \in Requests : (p # s /\ req'[p].kind = "ask" /\ req'[s].kind = "ask"
                                 /\ req'[p].course = req'[s].course) => req'[s].course \in doubled'
    BY <1>1, <1>5 DEF RemovalInv, AsksOK
  <2> QED
    BY <2>1, <2>2, <2>3 DEF AsksOK
<1>9. FiledOK'
  BY <1>2, <1>3 DEF RemovalInv, FiledOK
<1>10. SettlesOK'
  <2>1. q \notin contested
    BY <1>1 DEF RemovalInv, SettlesOK
  <2>2. contested \subseteq Removals
    BY DEF TypeParts, HistoryOK
  <2>3. \A p \in contested : removal'[p].state # "none"
    BY <1>1, <1>3, <2>1, <2>2 DEF RemovalInv, SettlesOK
  <2>4. \A p \in Requests : req'[p].kind = "resolve" => req[p].removal \in Removals \ {q}
    BY <1>1, <1>5 DEF RemovalInv, SettlesOK
  <2>5. RemovedOnRecordUnlessContested'
    BY <1>1, <1>3, <2>1 DEF RemovalInv, SettlesOK, RemovedOnRecordUnlessContested
  <2> QED
    BY <1>1, <1>3, <1>5, <2>3, <2>4, <2>5 DEF RemovalInv, SettlesOK
<1> QED
  BY <1>4, <1>8, <1>9, <1>10 DEF RemovalInv

LEMMA OpenRemovals ==
  ASSUME TypeParts, RemovalInv, NEW r \in Requests, NEW q \in Removals, NEW answer \in Answers,
         OpenRemoval(r, q, answer)
  PROVE  RemovalInv' /\ req' \in [Requests -> RequestType] /\ HistoryOK' /\ QuietClaims
<1> USE CourseAssumption
<1> DEFINE c == removal[q].course
           x == [Idle EXCEPT !.kind = "resolve", !.removal = q, !.course = c, !.answer = answer]
<1>1. c \in Courses \cup {NoCourse}
  BY DEF TypeParts, RemovalsOK, RemovalType
<1>2. /\ x \in RequestType /\ x.kind = "resolve" /\ x.removal = q /\ x.course = c /\ x.answer = answer
  BY <1>1 DEF Idle, RequestType
<1>3. /\ req' = [req EXCEPT ![r] = x] /\ removal[q].state = "pending"
      /\ UNCHANGED <<removal, crossed, doubled, onRequest>>
      /\ contested' = IF \E s \in Requests : req[s].removal = q THEN contested \cup {q} ELSE contested
  BY DEF OpenRemoval, Unresolved
<1>4. c \in {removal[q].about, NoCourse}
  BY <1>3 DEF RemovalInv, FiledOK
<1> HIDE DEF x, c
<1>5. /\ \A p \in Requests : req'[p] = IF p = r THEN x ELSE req[p]
      /\ req' \in [Requests -> RequestType]
  BY <1>2, <1>3 DEF TypeParts
<1>6. QuietClaims /\ HistoryOK'
  BY <1>2, <1>3, <1>5 DEF QuietClaims, TypeParts, HistoryOK
<1>7. AsksOK'
  BY <1>2, <1>3, <1>5 DEF RemovalInv, AsksOK, Unasked, OnePendingUnlessDoubled, Pending
<1>8. FiledOK'
  BY <1>3 DEF RemovalInv, FiledOK
<1>9. SettlesOK'
  <2>1. \A p \in contested' : removal'[p].state # "none"
    BY <1>3 DEF RemovalInv, SettlesOK
  <2>2. \A p \in Requests : req'[p].kind = "resolve" =>
          /\ req'[p].removal \in Removals /\ req'[p].answer \in Answers
          /\ removal'[req'[p].removal].state # "none"
          /\ req'[p].course \in {removal'[req'[p].removal].about, NoCourse}
          /\ removal'[req'[p].removal].state = "pending" \/ req'[p].removal \in contested'
    BY <1>2, <1>3, <1>4, <1>5 DEF RemovalInv, SettlesOK
  <2>3. ASSUME NEW p \in Requests, NEW s \in Requests, p # s, req'[p].kind = "resolve", req'[s].kind = "resolve",
               req'[p].removal = req'[s].removal
        PROVE  req'[s].removal \in contested'
    <3>1. CASE p # r /\ s # r
      BY <1>3, <1>5, <2>3, <3>1 DEF RemovalInv, SettlesOK
    <3>2. CASE p = r \/ s = r
      BY <1>2, <1>3, <1>5, <2>3, <3>2
    <3> QED
      BY <3>1, <3>2
  <2>4. RemovedOnRecordUnlessContested'
    BY <1>3 DEF RemovalInv, SettlesOK, RemovedOnRecordUnlessContested
  <2> QED
    BY <2>1, <2>2, <2>3, <2>4 DEF SettlesOK
<1> QED
  BY <1>5, <1>6, <1>7, <1>8, <1>9 DEF RemovalInv

LEMMA ResolveRemovals ==
  ASSUME TypeParts, RemovalInv, NEW r \in Requests, ResolveRemoval(r)
  PROVE  RemovalInv' /\ TypeParts' /\ QuietHoles
<1> USE CourseAssumption
<1> DEFINE q == req[r].removal
           a == req[r].answer
           c == req[r].course
<1>1. /\ req[r].kind = "resolve" /\ q \in Removals /\ a \in Answers /\ removal[q].state # "none"
      /\ c \in {removal[q].about, NoCourse}
      /\ removal[q].state = "pending" \/ q \in contested
  BY DEF ResolveRemoval, RemovalInv, SettlesOK
<1>2. Done(r) /\ UNCHANGED <<crossed, doubled, contested>>
  BY DEF ResolveRemoval
<1>3. /\ req' \in [Requests -> RequestType]
      /\ \A p \in Requests : req'[p].kind # "idle" => p # r /\ req'[p] = req[p]
  BY <1>2, IdleOK DEF TypeParts, Done
<1>4. /\ Answered(q, a) \in [Removals -> RemovalType]
      /\ \A p \in Removals :
            /\ Answered(q, a)[p].course = removal[p].course
            /\ Answered(q, a)[p].about = removal[p].about
            /\ Answered(q, a)[p].state = IF p = q /\ removal[q].state = "pending" THEN a ELSE removal[p].state
  BY <1>1, AnsweredOK
<1>5. a = "removed" \/ a = "declined"
  BY <1>1 DEF Answers
<1> HIDE DEF q, a, c
(* Either way each removal request keeps what it is about, and its state   *)
(* unless it is the one answered.                                          *)
<1>6. /\ RemovalsOK' /\ CoursesOK' /\ HolesOK' /\ TeesOK' /\ DetailsOK' /\ HistoryOK' /\ QuietHoles
      /\ \A p \in Removals :
            /\ removal'[p].about = removal[p].about
            /\ removal'[p].course \in {removal[p].course, NoCourse}
            /\ removal'[p].state = IF p = q /\ removal[q].state = "pending" THEN a ELSE removal[p].state
      /\ onRequest' = onRequest \/ (onRequest' = onRequest \cup {c} /\ a = "removed" /\ c \in courses)
  <2>1. CASE a = "removed" /\ c \in courses
    <3>1. /\ c \in Courses /\ Drop(c) /\ UNCHANGED given /\ removal' = Detached(Answered(q, a), c)
          /\ onRequest' = onRequest \cup {c}
      BY <2>1 DEF ResolveRemoval, TypeParts, CoursesOK, q, a, c
    <3>2. CoursesOK' /\ HolesOK' /\ TeesOK' /\ DetailsOK' /\ courses' = courses \ {c}
      BY <3>1, DropKeeps DEF Drop
    <3>3. /\ RemovalsOK'
          /\ \A p \in Removals : /\ removal'[p].state = Answered(q, a)[p].state
                                /\ removal'[p].about = Answered(q, a)[p].about
                                /\ removal'[p].course = IF Answered(q, a)[p].course = c THEN NoCourse
                                                        ELSE Answered(q, a)[p].course
      BY <1>4, <3>1, <3>2, DetachedOK
    <3>4. QuietHoles
      <4>1. \A h \in Holes : hole'[h] = IF h \in HolesOf(c) THEN NoHoleRow ELSE hole[h]
        BY <3>1 DEF Drop
      <4> QED
        BY <4>1 DEF QuietHoles, NoHoleRow
    <3>5. HistoryOK'
      BY <1>2, <3>1 DEF TypeParts, HistoryOK
    <3> QED
      BY <1>4, <2>1, <3>1, <3>2, <3>3, <3>4, <3>5
  <2>2. CASE ~(a = "removed" /\ c \in courses)
    <3>1. removal' = Answered(q, a) /\ UNCHANGED <<directoryVars, onRequest>>
      BY <2>2 DEF ResolveRemoval, q, a, c
    <3>2. CoursesOK' /\ HolesOK' /\ TeesOK' /\ DetailsOK'
      BY <3>1, DirectoryAlone
    <3>3. RemovalsOK' /\ HistoryOK' /\ QuietHoles
      BY <1>2, <1>4, <3>1 DEF TypeParts, RemovalsOK, HistoryOK, directoryVars, QuietHoles
    <3> QED
      BY <1>4, <3>1, <3>2, <3>3
  <2> QED
    BY <2>1, <2>2
<1>7. TypeParts'
  BY <1>3, <1>6 DEF TypeParts
<1>8. \A d \in Courses : Pending(d)' \subseteq Pending(d)
  BY <1>5, <1>6 DEF Pending
<1>9. AsksOK'
  <2>1. OnePendingUnlessDoubled'
    BY <1>2, <1>8 DEF RemovalInv, AsksOK, OnePendingUnlessDoubled
  <2> QED
    BY <1>2, <1>3, <1>8, <2>1 DEF RemovalInv, AsksOK, Unasked
<1>10. FiledOK'
  BY <1>1, <1>6 DEF RemovalInv, FiledOK
<1>11. SettlesOK'
  <2>1. contested \subseteq Removals
    BY DEF TypeParts, HistoryOK
  <2>2. \A p \in contested' : removal'[p].state # "none"
    BY <1>2, <1>5, <1>6, <2>1 DEF RemovalInv, SettlesOK
  <2>3. ASSUME NEW p \in Requests, req'[p].kind = "resolve"
        PROVE  /\ req'[p].removal \in Removals /\ req'[p].answer \in Answers
               /\ removal'[req'[p].removal].state # "none"
               /\ req'[p].course \in {removal'[req'[p].removal].about, NoCourse}
               /\ removal'[req'[p].removal].state = "pending" \/ req'[p].removal \in contested'
    <3>1. p # r /\ req'[p] = req[p]
      BY <1>3, <2>3
    <3>2. req[p].removal = q => q \in contested
      BY <1>1, <2>3, <3>1 DEF RemovalInv, SettlesOK, q
    <3> QED
      BY <1>2, <1>5, <1>6, <2>3, <3>1, <3>2 DEF RemovalInv, SettlesOK
  <2>4. \A p, s \in Requests : (p # s /\ req'[p].kind = "resolve" /\ req'[s].kind = "resolve"
                                 /\ req'[p].removal = req'[s].removal) => req'[s].removal \in contested'
    BY <1>2, <1>3 DEF RemovalInv, SettlesOK
  <2>5. RemovedOnRecordUnlessContested'
    <3>1. \A d \in onRequest : \E p \in Removals :
             removal'[p].about = d /\ (removal'[p].state = "removed" \/ p \in contested')
      BY <1>2, <1>6 DEF RemovalInv, SettlesOK, RemovedOnRecordUnlessContested
    <3>2. ASSUME a = "removed", c \in courses
          PROVE  removal'[q].about = c /\ (removal'[q].state = "removed" \/ q \in contested')
      <4>1. c # NoCourse
        BY <3>2 DEF TypeParts, CoursesOK
      <4> QED
        BY <1>1, <1>2, <1>6, <3>2, <4>1
    <3> QED
      BY <1>1, <1>6, <3>1, <3>2 DEF RemovedOnRecordUnlessContested
  <2> QED
    BY <2>2, <2>3, <2>4, <2>5 DEF SettlesOK
<1> QED
  BY <1>6, <1>7, <1>9, <1>10, <1>11 DEF RemovalInv

-----------------------------------------------------------------------------
DirectoryInv == TypeParts /\ IndexInv /\ RemovalInv

LEMMA InitDirectoryInv == Init => DirectoryInv
<1> SUFFICES ASSUME Init PROVE DirectoryInv
  OBVIOUS
<1>1. /\ \A r \in Requests : req[r].kind = "idle"
      /\ \A h \in Holes : hole[h].course = NoCourse
      /\ \A q \in Removals : removal[q].state = "none"
  BY IdleOK DEF Init, NoHoleRow, Unfiled
<1>2. IndexInv
  BY <1>1 DEF IndexInv, IndexesDistinctUnlessCrossed, ClaimsOK, ClaimsCross, Claiming
<1>3. OnePendingUnlessDoubled /\ RemovedOnRecordUnlessContested
  BY <1>1 DEF Init, OnePendingUnlessDoubled, RemovedOnRecordUnlessContested, Pending
<1>4. RemovalInv
  BY <1>1, <1>3 DEF Init, RemovalInv, AsksOK, FiledOK, SettlesOK
<1> QED
  BY <1>2, <1>4, InitTypeOK DEF DirectoryInv

(* What is neither about indexes nor about removal requests.               *)
LEMMA QuietSteps ==
  ASSUME DirectoryInv, TypeParts', QuietHoles, QuietClaims, QuietRemovals, QuietAsks, UNCHANGED historyVars
  PROVE  DirectoryInv'
  BY QuietIndexes, QuietRemovalSteps DEF DirectoryInv, historyVars

LEMMA QuietAlone ==
  /\ TypeParts /\ hole' = hole => QuietHoles
  /\ TypeParts /\ removal' = removal => QuietRemovals /\ (courses \subseteq courses' => RemovalsOK')
  /\ req' = req => QuietClaims /\ QuietAsks
  BY DEF QuietHoles, QuietRemovals, QuietClaims, QuietAsks, TypeParts, RemovalsOK

LEMMA NextDirectoryInv == DirectoryInv /\ [Next]_vars => DirectoryInv'
<1> SUFFICES ASSUME DirectoryInv, [Next]_vars PROVE DirectoryInv'
  OBVIOUS
<1> USE CourseAssumption DEF DirectoryInv, historyVars
<1>1. ASSUME NEW c \in Courses, NEW n \in HoleCounts, NEW named \in NewTees, Create(c, n, named)
      PROVE  DirectoryInv'
  <2>1. /\ CoursesOK' /\ HolesOK' /\ TeesOK' /\ DetailsOK' /\ QuietHoles
    BY <1>1, CreateRows DEF QuietHoles
  <2>2. courses \subseteq courses' /\ UNCHANGED <<removal, req, historyVars>>
    BY <1>1 DEF Create
  <2> QED
    BY <2>1, <2>2, QuietAlone, QuietSteps DEF TypeParts, HistoryOK
<1>2. ASSUME NEW c \in Courses, Delete(c)  PROVE DirectoryInv'
  <2>1. /\ Drop(c) /\ removal' = Detached(removal, c) /\ courses' = courses \ {c}
        /\ UNCHANGED <<given, req, historyVars>>
    BY <1>2 DEF Delete, Drop
  <2>2. CoursesOK' /\ HolesOK' /\ TeesOK' /\ DetailsOK'
    BY <2>1, DropKeeps
  <2>3. RemovalsOK' /\ QuietRemovals
    BY <2>1, DetachedOK DEF TypeParts, RemovalsOK, QuietRemovals
  <2>4. QuietHoles
    <3>1. \A h \in Holes : hole'[h] = IF h \in HolesOf(c) THEN NoHoleRow ELSE hole[h]
      BY <2>1 DEF Drop
    <3> QED
      BY <3>1 DEF QuietHoles, NoHoleRow
  <2> QED
    BY <2>1, <2>2, <2>3, <2>4, QuietAlone, QuietSteps DEF TypeParts, HistoryOK
<1>3. ASSUME NEW c \in Courses, NEW file \in Files, Import(c, file)  PROVE DirectoryInv'
  <2>1. /\ courses \subseteq courses' /\ UNCHANGED <<removal, req, doubled, contested, onRequest>>
    BY <1>3 DEF Import
  <2>2. CoursesOK' /\ HolesOK' /\ TeesOK' /\ DetailsOK' /\ IndexInv' /\ HistoryOK'
    BY <1>3, ImportRows, ImportIndexes
  <2> QED
    BY <2>1, <2>2, QuietAlone, QuietRemovalSteps DEF TypeParts
<1>4. ASSUME NEW c \in Courses, NEW t \in Tees, NEW n \in Names, AddTee(c, t, n)  PROVE DirectoryInv'
  <2> DEFINE x == [course |-> c, name |-> n]
  <2>1. x \in [course : Courses, name : Names] /\ x.course = c
    OBVIOUS
  <2>2. /\ tee' = [tee EXCEPT ![t] = x] /\ c \in courses
        /\ UNCHANGED <<courses, given, hole, details, removal, req, historyVars>>
    BY <1>4 DEF AddTee, TeeCreated, CourseFound
  <2> HIDE DEF x
  <2>3. TeesOK'
    BY <2>1, <2>2 DEF TypeParts, TeesOK
  <2>4. CoursesOK' /\ HolesOK' /\ DetailsOK'
    BY <2>1, <2>2 DEF TypeParts, CoursesOK, HolesOK, TeesOK, DetailsOK, HolesOf, TeesOf
  <2> QED
    BY <2>2, <2>3, <2>4, QuietAlone, QuietSteps DEF TypeParts, HistoryOK
<1>5. ASSUME NEW t \in Tees, NEW n \in Names, UpdateTee(t, n)  PROVE DirectoryInv'
  <2> DEFINE x == [tee[t] EXCEPT !.name = n]
  <2>1. tee[t] \in [course : Courses, name : Names]
    BY <1>5 DEF UpdateTee, TeeFound, TypeParts, TeesOK, NoTee
  <2>2. x \in [course : Courses, name : Names] /\ x.course = tee[t].course
    BY <2>1
  <2>3. /\ tee' = [tee EXCEPT ![t] = x]
        /\ UNCHANGED <<courses, given, hole, details, removal, req, historyVars>>
    BY <1>5 DEF UpdateTee, TeeRenamed
  <2> HIDE DEF x
  <2>4. TeesOK'
    BY <2>2, <2>3 DEF TypeParts, TeesOK
  <2>5. CoursesOK' /\ HolesOK' /\ DetailsOK'
    BY <2>2, <2>3 DEF TypeParts, CoursesOK, HolesOK, TeesOK, DetailsOK, HolesOf, TeesOf
  <2> QED
    BY <2>3, <2>4, <2>5, QuietAlone, QuietSteps DEF TypeParts, HistoryOK
<1>6. ASSUME NEW t \in Tees, DeleteTee(t)  PROVE DirectoryInv'
  <2>1. /\ tee' = [tee EXCEPT ![t] = NoTee] /\ details' = {d \in details : d[2] # t}
        /\ UNCHANGED <<courses, given, hole, removal, req, historyVars>>
    BY <1>6 DEF DeleteTee, TeeDeleted, Cascade
  <2>2. TeesOK'
    BY <2>1 DEF TypeParts, TeesOK, NoTee
  <2>3. CoursesOK' /\ HolesOK'
    BY <2>1 DEF TypeParts, CoursesOK, HolesOK
  <2>4. DetailsOK'
    BY <2>1 DEF TypeParts, DetailsOK, TeesOK, HolesOf, TeesOf
  <2> QED
    BY <2>1, <2>2, <2>3, <2>4, QuietAlone, QuietSteps DEF TypeParts, HistoryOK
<1>7. ASSUME NEW h \in Holes, NEW t \in Tees, SetTeeDetail(h, t) \/ ClearTeeDetail(h, t)  PROVE DirectoryInv'
  <2>1. UNCHANGED <<courses, given, tee, hole, removal, req, historyVars>>
    BY <1>7 DEF SetTeeDetail, ClearTeeDetail
  <2>2. details' \subseteq details \cup {<<h, t>>}
        /\ (<<h, t>> \in details' => <<h, t>> \in details \/ (tee[t].course # NoCourse /\ hole[h].course # NoCourse))
    BY <1>7 DEF SetTeeDetail, ClearTeeDetail, DetailUpserted, DetailDeleted, MayJoin, HoleFound
  <2>3. DetailsOK'
    BY <2>1, <2>2 DEF TypeParts, DetailsOK, HolesOf, TeesOf
  <2>4. CoursesOK' /\ HolesOK' /\ TeesOK'
    BY <2>1 DEF TypeParts, CoursesOK, HolesOK, TeesOK
  <2> QED
    BY <2>1, <2>3, <2>4, QuietAlone, QuietSteps DEF TypeParts, HistoryOK
<1>8. ASSUME NEW r \in Requests, NEW kind \in {"addHole", "editHole"}, NEW c \in Courses,
             NEW h \in Holes \cup {NoHole}, NEW k \in Numbers, NEW i \in Indexes, Check(r, kind, c, h, k, i),
             kind = "addHole" => h = NoHole,
             kind = "editHole" => h \in Holes /\ hole[h].course = c
      PROVE  DirectoryInv'
  <2>1. IndexInv' /\ req' \in [Requests -> RequestType] /\ HistoryOK'
    BY <1>8, CheckIndexes
  <2>2. UNCHANGED <<directoryVars, removal, doubled, contested, onRequest>>
    BY <1>8 DEF Check
  <2>3. QuietAsks
    BY <1>8 DEF Check, QuietAsks, Idle, TypeParts
  <2> QED
    BY <2>1, <2>2, <2>3, DirectoryAlone, QuietAlone, QuietRemovalSteps DEF TypeParts, directoryVars
<1>9. ASSUME NEW r \in Requests, NEW h \in Holes, AddHole(r, h)  PROVE DirectoryInv'
  <2>1. /\ req[r].course \in Courses /\ req[r].number \in Numbers /\ req[r].index \in Indexes
        /\ req[r].kind = "addHole" /\ Claiming(r) /\ Done(r) /\ h \in FreshHoles
        /\ UNCHANGED <<courses, given, tee, details, removal, historyVars>>
    BY <1>9 DEF AddHole, Insert, Claiming, IndexInv, ClaimsOK
  <2> DEFINE x == [course |-> req[r].course, number |-> req[r].number, index |-> req[r].index]
  <2>2. HolesOK' /\ DetailsOK' /\ hole' = [hole EXCEPT ![h] = x]
    BY <1>9, <2>1, HoleInserted DEF AddHole
  <2>3. x.course = req[r].course /\ x.index = req[r].index
    OBVIOUS
  <2> HIDE DEF x
  <2>4. \A g \in Holes : hole'[g] = IF g = h THEN x ELSE hole[g]
    BY <2>2 DEF TypeParts, HolesOK
  <2>5. IndexInv'
    BY <2>1, <2>3, <2>4, WriteIndexes
  <2>6. CoursesOK' /\ TeesOK' /\ req' \in [Requests -> RequestType] /\ QuietAsks
    BY <2>1, DoneOK DEF TypeParts, CoursesOK, TeesOK, QuietAsks
  <2> QED
    BY <2>1, <2>2, <2>5, <2>6, QuietAlone, QuietRemovalSteps DEF TypeParts, HistoryOK
<1>10. ASSUME NEW c \in Courses, NEW h \in Holes, NEW k \in Numbers, AddPlainHole(c, h, k)  PROVE DirectoryInv'
  <2>1. h \in FreshHoles /\ UNCHANGED <<courses, given, tee, details, removal, req, historyVars>>
    BY <1>10 DEF AddPlainHole, Insert
  <2> DEFINE x == [course |-> c, number |-> k, index |-> NoIndex]
  <2>2. HolesOK' /\ DetailsOK' /\ hole' = [hole EXCEPT ![h] = x]
    BY <1>10, <2>1, HoleInserted DEF AddPlainHole
  <2>3. x.index = NoIndex
    OBVIOUS
  <2> HIDE DEF x
  <2>4. QuietHoles
    BY <2>1, <2>2, <2>3 DEF TypeParts, HolesOK, QuietHoles
  <2> QED
    BY <2>1, <2>2, <2>4, QuietAlone, QuietSteps DEF TypeParts, CoursesOK, TeesOK, HistoryOK
<1>11. ASSUME NEW r \in Requests, UpdateHole(r)  PROVE DirectoryInv'
  <2> DEFINE h == req[r].hole
  <2>1. /\ req[r].kind = "editHole" /\ Claiming(r) /\ Done(r) /\ hole' = HoleIndexed(h, req[r].index)
        /\ h \in Holes /\ hole[h].course \in {req[r].course, NoCourse} /\ req[r].index \in Indexes
        /\ UNCHANGED <<courses, given, tee, details, removal, historyVars>>
    BY <1>11 DEF UpdateHole, Claiming, IndexInv, ClaimsOK
  <2>2. /\ HolesOK' /\ DetailsOK'
        /\ \A g \in Holes : hole'[g].course = hole[g].course
        /\ \A g \in Holes : hole'[g].index = IF g = h /\ HoleFound(h) THEN req[r].index ELSE hole[g].index
    BY <2>1, HoleIndexSet
  <2>3. IndexInv'
    BY <2>1, <2>2, WriteIndexes DEF HoleFound
  <2>4. CoursesOK' /\ TeesOK' /\ req' \in [Requests -> RequestType] /\ QuietAsks
    BY <2>1, DoneOK DEF TypeParts, CoursesOK, TeesOK, QuietAsks
  <2> QED
    BY <2>1, <2>2, <2>3, <2>4, QuietAlone, QuietRemovalSteps DEF TypeParts, HistoryOK
<1>12. ASSUME NEW h \in Holes, ClearIndex(h)  PROVE DirectoryInv'
  <2>1. hole' = HoleIndexed(h, NoIndex) /\ UNCHANGED <<courses, given, tee, details, removal, req, historyVars>>
    BY <1>12 DEF ClearIndex
  <2>2. HolesOK' /\ DetailsOK' /\ QuietHoles
    BY <2>1, HoleIndexSet DEF QuietHoles
  <2> QED
    BY <2>1, <2>2, QuietAlone, QuietSteps DEF TypeParts, CoursesOK, TeesOK, HistoryOK
<1>13. ASSUME NEW h \in Holes, DeleteHole(h)  PROVE DirectoryInv'
  <2>1. /\ hole' = [hole EXCEPT ![h] = NoHoleRow] /\ details' = {d \in details : d[1] # h}
        /\ UNCHANGED <<courses, given, tee, removal, req, historyVars>>
    BY <1>13 DEF DeleteHole, HoleDeleted, Cascade
  <2>2. HolesOK' /\ QuietHoles
    BY <2>1 DEF TypeParts, HolesOK, NoHoleRow, QuietHoles
  <2>3. DetailsOK'
    BY <2>1 DEF TypeParts, DetailsOK, HolesOK, HolesOf, TeesOf
  <2> QED
    BY <2>1, <2>2, <2>3, QuietAlone, QuietSteps DEF TypeParts, CoursesOK, TeesOK, HistoryOK
<1>14. ASSUME NEW r \in Requests, NEW c \in Courses, Ask(r, c)  PROVE DirectoryInv'
  <2>1. UNCHANGED <<directoryVars, removal, crossed>>
    BY <1>14 DEF Ask
  <2>2. RemovalInv' /\ req' \in [Requests -> RequestType] /\ HistoryOK' /\ QuietClaims
    BY <1>14, AskRemovals
  <2> QED
    BY <2>1, <2>2, DirectoryAlone, QuietAlone, QuietIndexes DEF TypeParts, directoryVars
<1>15. ASSUME NEW r \in Requests, NEW q \in Removals, RequestRemoval(r, q)  PROVE DirectoryInv'
  <2>1. Done(r) /\ UNCHANGED <<directoryVars, historyVars>>
    BY <1>15 DEF RequestRemoval
  <2>2. RemovalInv' /\ RemovalsOK'
    BY <1>15, RequestRemovals
  <2>3. req' \in [Requests -> RequestType] /\ QuietClaims
    BY <2>1, DoneOK DEF QuietClaims
  <2> QED
    BY <2>1, <2>2, <2>3, DirectoryAlone, QuietAlone, QuietIndexes DEF TypeParts, directoryVars, HistoryOK
<1>16. ASSUME NEW r \in Requests, NEW q \in Removals, NEW a \in Answers, OpenRemoval(r, q, a)
       PROVE  DirectoryInv'
  <2>1. UNCHANGED <<directoryVars, removal, crossed>>
    BY <1>16 DEF OpenRemoval
  <2>2. RemovalInv' /\ req' \in [Requests -> RequestType] /\ HistoryOK' /\ QuietClaims
    BY <1>16, OpenRemovals
  <2> QED
    BY <2>1, <2>2, DirectoryAlone, QuietAlone, QuietIndexes DEF TypeParts, directoryVars
<1>17. ASSUME NEW r \in Requests, ResolveRemoval(r)  PROVE DirectoryInv'
  <2>1. Done(r) /\ UNCHANGED crossed
    BY <1>17 DEF ResolveRemoval
  <2>2. RemovalInv' /\ TypeParts' /\ QuietHoles
    BY <1>17, ResolveRemovals
  <2>3. QuietClaims
    BY <2>1, DoneOK DEF QuietClaims
  <2> QED
    BY <2>1, <2>2, <2>3, QuietIndexes
<1>18. ASSUME NEW r \in Requests, HangUp(r)  PROVE DirectoryInv'
  <2>1. Done(r) /\ UNCHANGED <<directoryVars, removal, historyVars>>
    BY <1>18 DEF HangUp
  <2>2. req' \in [Requests -> RequestType] /\ QuietClaims /\ QuietAsks
    BY <2>1, DoneOK DEF QuietClaims, QuietAsks
  <2> QED
    BY <2>1, <2>2, DirectoryAlone, QuietAlone, QuietSteps DEF TypeParts, directoryVars, HistoryOK
<1>19. CASE UNCHANGED vars
  <2>1. UNCHANGED <<directoryVars, removal, req, historyVars>>
    BY <1>19 DEF vars, directoryVars
  <2> QED
    BY <2>1, DirectoryAlone, QuietAlone, QuietSteps DEF TypeParts, directoryVars, HistoryOK
<1>20. ASSUME NEW r \in Requests, NEW c \in Courses, NEW k \in Numbers, NEW i \in Indexes,
              CheckNewHole(r, c, k, i)
       PROVE  DirectoryInv'
  BY <1>8, <1>20 DEF CheckNewHole
<1>21. ASSUME NEW r \in Requests, NEW h \in Holes, NEW i \in Indexes, CheckHole(r, h, i)  PROVE DirectoryInv'
  <2>1. hole[h] \in HoleRow
    BY <1>21 DEF CheckHole, HoleFound, TypeParts, HolesOK, NoHoleRow
  <2>2. hole[h].course \in Courses /\ hole[h].number \in Numbers
    BY <2>1 DEF HoleRow
  <2> QED
    BY <1>8, <1>21, <2>2 DEF CheckHole
<1> QED
  BY <1>1, <1>2, <1>3, <1>4, <1>5, <1>6, <1>7, <1>9, <1>10, <1>11, <1>12, <1>13, <1>14, <1>15, <1>16,
     <1>17, <1>18, <1>19, <1>20, <1>21 DEF Next

THEOREM DirectoryInvariance == Spec => []DirectoryInv
<1> QED
  BY InitDirectoryInv, NextDirectoryInv, PTL DEF Spec

-----------------------------------------------------------------------------
(* Every reachable directory is well typed: hole numbers are distinct, and *)
(* a tee, a hole, a cell or a removal request refers to rows that exist.   *)
THEOREM Typing == Spec => []TypeOK
<1>1. DirectoryInv => TypeOK
  BY TypeOKParts DEF DirectoryInv
<1> QED
  BY <1>1, DirectoryInvariance, PTL

(* checkHandicapIndexUnique: two holes of a course share a stroke index    *)
(* only where two writers of it crossed.                                   *)
THEOREM IndexesStayDistinct == Spec => []IndexesDistinctUnlessCrossed
<1>1. DirectoryInv => IndexesDistinctUnlessCrossed
  BY DEF DirectoryInv, IndexInv
<1> QED
  BY <1>1, DirectoryInvariance, PTL

(* RequestRemoval: a course has one request waiting, unless two were made  *)
(* at once.                                                                *)
THEOREM OneRequestWaiting == Spec => []OnePendingUnlessDoubled
<1>1. DirectoryInv => OnePendingUnlessDoubled
  BY DEF DirectoryInv, RemovalInv, AsksOK
<1> QED
  BY <1>1, DirectoryInvariance, PTL

(* ResolveRemoval: a course removed through a request is on record as      *)
(* removed, unless two administrators answered at once.                    *)
THEOREM RemovalsOnRecord == Spec => []RemovedOnRecordUnlessContested
<1>1. DirectoryInv => RemovedOnRecordUnlessContested
  BY DEF DirectoryInv, RemovalInv, SettlesOK
<1> QED
  BY <1>1, DirectoryInvariance, PTL
================================================================================
