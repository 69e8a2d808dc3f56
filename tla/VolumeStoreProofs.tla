-------------------------- MODULE VolumeStoreProofs --------------------------
(***************************************************************************)
(* What VolumeStore promises for any numbers of names, ids and handlers.   *)
(***************************************************************************)
EXTENDS VolumeStore, TLAPS

USE VolumeAssumption

Busy(r) == req[r].pc # "idle"
Storing(r) == req[r].pc \in {"ensure", "undo", "drop"}
Numbered(r) == req[r].pc \in {"ensure", "undo", "remove", "drop"}

(***************************************************************************)
(* Type correctness.                                                       *)
(***************************************************************************)
LEMMA IdleHandler == Idle \in Handler /\ Idle.pc = "idle" /\ Idle.name = NoName /\ Idle.id = NoId
  BY DEF Idle, Handler

\* What TypeOK says of the handlers.
Handlers ==
  /\ req \in [Reqs -> Handler]
  /\ \A r \in Reqs : Busy(r) => req[r].name \in Names
  /\ \A r \in Reqs : Numbered(r) => req[r].id \in Ids

LEMMA BecomeType ==
  ASSUME NEW r \in Reqs, TypeOK, NEW h \in Handler, Become(r, h),
         h.pc # "idle" => h.name \in Names,
         h.pc \in {"ensure", "undo", "remove", "drop"} => h.id \in Ids
  PROVE  Handlers'
<1>1. req' \in [Reqs -> Handler]
  BY DEF TypeOK, Become
<1>2. \A q \in Reqs : req'[q] = IF q = r THEN h ELSE req[q]
  BY DEF TypeOK, Become
<1>. QED
  BY <1>1, <1>2 DEF TypeOK, Handlers, Busy, Numbered

LEMMA FinishType == ASSUME NEW r \in Reqs, TypeOK, Finish(r) PROVE Handlers'
  BY IdleHandler, BecomeType DEF Finish

LEMMA GotoType ==
  ASSUME NEW r \in Reqs, TypeOK, Busy(r),
         NEW pc \in {"save", "undo", "remove", "drop"}, Goto(r, pc),
         pc # "save" => req[r].id \in Ids
  PROVE  Handlers'
<1>. DEFINE h == [req[r] EXCEPT !.pc = pc]
<1>1. req[r] \in Handler /\ req[r].name \in Names
  BY DEF TypeOK, Busy
<1>2. h \in Handler /\ h.pc = pc /\ h.name = req[r].name /\ h.id = req[r].id
  BY <1>1 DEF Handler
<1>3. Become(r, h)
  BY DEF Goto
<1>. HIDE DEF h
<1>. QED
  BY <1>1, <1>2, <1>3, BecomeType

\* A handler that has found or inserted its row.
LEMMA NumberType ==
  ASSUME NEW r \in Reqs, TypeOK, Busy(r), NEW pc \in {"ensure", "remove"}, NEW i \in Ids,
         Become(r, [req[r] EXCEPT !.pc = pc, !.id = i])
  PROVE  Handlers'
<1>. DEFINE h == [req[r] EXCEPT !.pc = pc, !.id = i]
<1>1. req[r] \in Handler /\ req[r].name \in Names
  BY DEF TypeOK, Busy
<1>2. h \in Handler /\ h.pc = pc /\ h.name = req[r].name /\ h.id = i
  BY <1>1 DEF Handler
<1>. HIDE DEF h
<1>. QED
  BY <1>1, <1>2, BecomeType DEF h

LEMMA AcceptType ==
  ASSUME NEW r \in Reqs, TypeOK, NEW pc \in {"check", "find"}, Accept(r, pc)
  PROVE  Handlers'
<1>1. PICK n \in Names : Become(r, [Idle EXCEPT !.pc = pc, !.name = n])
  BY DEF Accept
<1>. DEFINE h == [Idle EXCEPT !.pc = pc, !.name = n]
<1>2. h \in Handler /\ h.pc = pc /\ h.name = n
  BY DEF Idle, Handler
<1>. HIDE DEF h
<1>. QED
  BY <1>1, <1>2, BecomeType DEF h

\* Every step of a handler keeps the types.
LEMMA StepType == ASSUME NEW r \in Reqs, TypeOK, Step(r) PROVE TypeOK'
<1>0. req[r] \in Handler /\ (Busy(r) => req[r].name \in Names) /\ (Numbered(r) => req[r].id \in Ids)
  BY DEF TypeOK, Busy, Numbered
<1>1. Handlers'
  <2>1. CASE Create(r) \/ Delete(r)
    BY <2>1, AcceptType DEF Create, Delete
  <2>2. CASE Check(r)
    BY <2>2, FinishType, GotoType DEF Check, Busy
  <2>3. CASE Save(r)
    BY <2>3, FinishType, NumberType DEF Save, Busy
  <2>4. CASE Ensure(r)
    BY <1>0, <2>4, FinishType, GotoType DEF Ensure, Busy, Numbered
  <2>5. CASE Undo(r) \/ Drop(r)
    BY <2>5, FinishType DEF Undo, Drop
  <2>6. CASE Find(r)
    BY <2>6, FinishType, NumberType DEF Find, Busy, Named
  <2>7. CASE Remove(r)
    BY <1>0, <2>7, GotoType DEF Remove, Busy, Numbered
  <2>. QED
    BY <2>1, <2>2, <2>3, <2>4, <2>5, <2>6, <2>7 DEF Step
<1>2. table' \in [Ids -> Names \cup {NoName}]
  BY <1>0 DEF TypeOK, Step, Create, Delete, Accept, Check, Save, Ensure, Undo, Find, Remove, Drop, Busy
<1>3. storage' \in [Names -> Ids \cup {NoId}]
  BY <1>0 DEF TypeOK, Step, Create, Delete, Accept, Check, Save, Ensure, Undo, Find, Remove, Drop, Numbered
<1>4. cut' \in SUBSET Names
  BY DEF TypeOK, Step, Create, Delete, Accept, Check, Save, Ensure, Undo, Find, Remove, Drop
<1>. QED
  BY <1>1, <1>2, <1>3, <1>4 DEF TypeOK, Handlers, Busy, Numbered

LEMMA CrashType == ASSUME TypeOK, Crash PROVE TypeOK'
<1>1. cut' \in SUBSET Names
  BY DEF TypeOK, Crash, Handler
<1>. QED
  BY <1>1, IdleHandler DEF TypeOK, Crash

\* The handlers, the table and the storage keep their types, and a handler past its
\* save or its lookup always has an id, whenever the API crashes.
THEOREM VolumeTypeCorrect == Spec => []TypeOK
<1>1. Init => TypeOK
  BY IdleHandler DEF Init, TypeOK, Idle
<1>2. TypeOK /\ [Next]_vars => TypeOK'
  <2>. SUFFICES ASSUME TypeOK, [Next]_vars PROVE TypeOK'
    OBVIOUS
  <2>1. CASE Crash
    BY <2>1, CrashType
  <2>2. ASSUME NEW r \in Reqs, Step(r) PROVE TypeOK'
    BY <2>2, StepType
  <2>3. CASE UNCHANGED vars
    BY <2>3 DEF TypeOK, vars
  <2>. QED
    BY <2>1, <2>2, <2>3 DEF Next
<1>. QED
  BY <1>1, <1>2, PTL DEF Spec

(***************************************************************************)
(* Names are unique: the insert is the only step that gives a row a name,  *)
(* and it tests for the name in the same step.                             *)
(***************************************************************************)
LEMMA StepUnique ==
  ASSUME NEW r \in Reqs, TypeOK, NamesUnique, Step(r) PROVE NamesUnique'
<1>0. table \in [Ids -> Names \cup {NoName}]
  BY DEF TypeOK
<1>1. CASE Save(r)
  <2>1. CASE table' = table
    BY <2>1 DEF NamesUnique
  <2>2. CASE table' # table
    <3>1. Named(req[r].name) = {}
      BY <1>1, <2>2 DEF Save
    <3>2. PICK i \in Ids : table' = [table EXCEPT ![i] = req[r].name]
      BY <1>1, <2>2 DEF Save
    <3>3. \A j \in Ids : table[j] # req[r].name
      BY <3>1 DEF Named
    <3>. QED
      BY <1>0, <3>2, <3>3 DEF NamesUnique
  <2>. QED
    BY <2>1, <2>2
<1>2. CASE Undo(r) \/ Drop(r)
  BY <1>0, <1>2 DEF Undo, Drop, NamesUnique
<1>3. CASE table' = table
  BY <1>3 DEF NamesUnique
<1>. QED
  BY <1>1, <1>2, <1>3
  DEF Step, Create, Delete, Accept, Check, Ensure, Find, Remove

\* However many creations of one name race, the table never holds two rows of it.
THEOREM NamesStayUnique == Spec => []NamesUnique
<1>1. Init => NamesUnique
  BY DEF Init, NamesUnique
<1>2. TypeOK /\ NamesUnique /\ [Next]_vars => NamesUnique'
  <2>. SUFFICES ASSUME TypeOK, NamesUnique, [Next]_vars PROVE NamesUnique'
    OBVIOUS
  <2>1. CASE UNCHANGED table
    BY <2>1 DEF NamesUnique
  <2>2. ASSUME NEW r \in Reqs, Step(r) PROVE NamesUnique'
    BY <2>2, StepUnique
  <2>. QED
    BY <2>1, <2>2 DEF Next, Crash, vars
<1>. QED
  BY <1>1, <1>2, VolumeTypeCorrect, PTL DEF Spec

(***************************************************************************)
(* The storage follows the table.  A serialised name has one handler; the  *)
(* row a handler works on has its name (or, raced for, is gone already);   *)
(* storage names its row; a row without storage is being worked on, or was *)
(* left by a crash.                                                        *)
(***************************************************************************)
Alone   == \A q, r \in Reqs : req[q].name = req[r].name /\ req[q].name \in Serial => q = r
OwnRow  == \A r \in Reqs : Numbered(r) =>
             /\ table[req[r].id] \in {req[r].name, NoName}
             /\ req[r].name \in Serial => table[req[r].id] = req[r].name
NoStore == \A r \in Reqs : Storing(r) /\ req[r].name \in Safe => storage[req[r].name] = NoId
Covered == \A i \in Ids : table[i] \in Safe /\ storage[table[i]] # i =>
             /\ storage[table[i]] = NoId
             /\ \/ table[i] \in cut
                \/ \E r \in Reqs : Storing(r) /\ req[r].name = table[i]
IInv == TypeOK /\ NamesUnique /\ Alone /\ OwnRow /\ NoStore /\ Covered /\ NoOrphanStorage

LEMMA Others ==
  ASSUME NEW r \in Reqs, TypeOK, NEW h, Become(r, h)
  PROVE  req'[r] = h /\ \A q \in Reqs : q # r => req'[q] = req[q]
  BY DEF TypeOK, Become

LEMMA GotoIs ==
  ASSUME NEW r \in Reqs, TypeOK, NEW pc, Goto(r, pc)
  PROVE  /\ req'[r].pc = pc /\ req'[r].name = req[r].name /\ req'[r].id = req[r].id
         /\ \A q \in Reqs : q # r => req'[q] = req[q]
<1>1. req[r] \in Handler
  BY DEF TypeOK
<1>2. req'[r] = [req[r] EXCEPT !.pc = pc] /\ \A q \in Reqs : q # r => req'[q] = req[q]
  BY Others DEF Goto
<1>. QED
  BY <1>1, <1>2 DEF Handler

LEMMA FinishIs ==
  ASSUME NEW r \in Reqs, TypeOK, Finish(r)
  PROVE  /\ req'[r].pc = "idle" /\ req'[r].name = NoName
         /\ \A q \in Reqs : q # r => req'[q] = req[q]
  BY Others, IdleHandler DEF Finish

LEMMA NumberIs ==
  ASSUME NEW r \in Reqs, TypeOK, NEW pc, NEW i,
         Become(r, [req[r] EXCEPT !.pc = pc, !.id = i])
  PROVE  /\ req'[r].pc = pc /\ req'[r].name = req[r].name /\ req'[r].id = i
         /\ \A q \in Reqs : q # r => req'[q] = req[q]
<1>1. req[r] \in Handler
  BY DEF TypeOK
<1>2. /\ req'[r] = [req[r] EXCEPT !.pc = pc, !.id = i]
      /\ \A q \in Reqs : q # r => req'[q] = req[q]
  BY Others
<1>. QED
  BY <1>1, <1>2 DEF Handler

\* The rest of IInv, without the two invariants proved above.
Following == Alone /\ OwnRow /\ NoStore /\ Covered /\ NoOrphanStorage

\* A handler that only moves on, and storing nothing stores nothing then.
LEMMA MoveKeeps ==
  ASSUME NEW r \in Reqs, IInv, UNCHANGED <<table, storage, cut>>,
         \A q \in Reqs : q # r => req'[q] = req[q],
         ~Storing(r), ~Numbered(r)',
         \A q \in Reqs : q # r => req'[r].name \notin Serial \/ req'[r].name # req[q].name
  PROVE  Following'
<1>. USE DEF IInv, Following
<1>1. Alone'
  BY DEF Alone
<1>2. OwnRow'
  BY DEF OwnRow, Numbered
<1>3. NoStore'
  BY DEF NoStore, Numbered, Storing
<1>4. Covered'
  <2>. SUFFICES ASSUME NEW i \in Ids, table[i] \in Safe, storage[table[i]] # i, table[i] \notin cut
                PROVE  storage[table[i]] = NoId /\ \E q \in Reqs : Storing(q)' /\ req'[q].name = table[i]
    BY DEF Covered
  <2>1. storage[table[i]] = NoId
    BY DEF Covered
  <2>2. PICK q \in Reqs : Storing(q) /\ req[q].name = table[i]
    BY DEF Covered
  <2>. QED
    BY <2>1, <2>2 DEF Storing
<1>5. NoOrphanStorage'
  BY DEF NoOrphanStorage, Safe
<1>. QED
  BY <1>1, <1>2, <1>3, <1>4, <1>5

LEMMA AcceptKeeps ==
  ASSUME NEW r \in Reqs, IInv, NEW pc \in {"check", "find"}, Accept(r, pc) PROVE Following'
<1>1. PICK n \in Names : /\ req[r].pc = "idle"
                         /\ n \in Serial => \A q \in Reqs : req[q].name # n
                         /\ Become(r, [Idle EXCEPT !.pc = pc, !.name = n])
                         /\ UNCHANGED <<table, storage, cut>>
  BY DEF Accept
<1>2. /\ req'[r] = [Idle EXCEPT !.pc = pc, !.name = n]
      /\ \A q \in Reqs : q # r => req'[q] = req[q]
  BY <1>1, Others DEF IInv
<1>3. req'[r].pc = pc /\ req'[r].name = n
  BY <1>2 DEF Idle
<1>. QED
  BY <1>1, <1>2, <1>3, MoveKeeps DEF Storing, Numbered

LEMMA LeaveKeeps ==
  ASSUME NEW r \in Reqs, IInv, Finish(r), UNCHANGED <<table, storage, cut>>, ~Storing(r)
  PROVE  Following'
  BY FinishIs, MoveKeeps DEF IInv, Numbered

LEMMA CheckKeeps == ASSUME NEW r \in Reqs, IInv, Check(r) PROVE Following'
<1>1. CASE Finish(r)
  BY <1>1, LeaveKeeps DEF Check, Storing
<1>2. CASE Goto(r, "save")
  BY <1>2, GotoIs, MoveKeeps DEF IInv, Check, Storing, Numbered, Alone
<1>. QED
  BY <1>1, <1>2 DEF Check

LEMMA SaveKeeps == ASSUME NEW r \in Reqs, IInv, Save(r) PROVE Following'
<1>1. CASE Finish(r) /\ UNCHANGED table
  BY <1>1, LeaveKeeps DEF Save, Storing
<1>2. CASE \E i \in Ids : /\ Fresh(i) /\ Named(req[r].name) = {}
                          /\ table' = [table EXCEPT ![i] = req[r].name]
                          /\ Become(r, [req[r] EXCEPT !.pc = "ensure", !.id = i])
  <2>1. PICK i \in Ids : /\ Fresh(i) /\ Named(req[r].name) = {}
                         /\ table' = [table EXCEPT ![i] = req[r].name]
                         /\ Become(r, [req[r] EXCEPT !.pc = "ensure", !.id = i])
    BY <1>2
  <2>2. /\ req'[r].pc = "ensure" /\ req'[r].name = req[r].name /\ req'[r].id = i
        /\ \A q \in Reqs : q # r => req'[q] = req[q]
    BY <2>1, NumberIs DEF IInv
  <2>3. UNCHANGED <<storage, cut>> /\ req[r].pc = "save" /\ req[r].name \in Names
    BY DEF Save, IInv, TypeOK
  <2>4. table'[i] = req[r].name /\ \A j \in Ids : j # i => table'[j] = table[j]
    BY <2>1 DEF IInv, TypeOK
  <2>5. Alone'
    BY <2>2 DEF IInv, Alone
  <2>6. OwnRow'
    BY <2>1, <2>2, <2>4 DEF IInv, TypeOK, OwnRow, Numbered, Fresh
  <2>7. req[r].name \in Safe => storage[req[r].name] = NoId
    BY <2>1, <2>3 DEF IInv, TypeOK, NoOrphanStorage, Named
  <2>8. NoStore'
    BY <2>2, <2>3, <2>7 DEF IInv, NoStore, Storing
  <2>9. Covered'
    <3>. SUFFICES ASSUME NEW j \in Ids, table'[j] \in Safe, storage[table'[j]] # j
                  PROVE  /\ storage[table'[j]] = NoId
                         /\ \/ table'[j] \in cut
                            \/ \E q \in Reqs : Storing(q)' /\ req'[q].name = table'[j]
      BY <2>3 DEF Covered, Safe
    <3>1. CASE j = i
      BY <2>2, <2>4, <2>7, <3>1 DEF Storing
    <3>2. CASE j # i
      <4>1. \A q \in Reqs : Storing(q) => Storing(q)' /\ req'[q].name = req[q].name
        BY <2>2, <2>3 DEF Storing
      <4>. QED
        BY <2>4, <3>2, <4>1 DEF IInv, Covered
    <3>. QED
      BY <3>1, <3>2
  <2>10. NoOrphanStorage'
    BY <2>1, <2>3, <2>4 DEF IInv, TypeOK, NoOrphanStorage, Fresh, Safe
  <2>. QED
    BY <2>5, <2>6, <2>8, <2>9, <2>10 DEF Following
<1>. QED
  BY <1>1, <1>2 DEF Save

LEMMA EnsureKeeps == ASSUME NEW r \in Reqs, IInv, Ensure(r) PROVE Following'
<1>1. /\ req[r].pc = "ensure" /\ req[r].name \in Names /\ req[r].id \in Ids
      /\ UNCHANGED <<table, cut>> /\ Storing(r) /\ Numbered(r)
  BY DEF Ensure, IInv, TypeOK, Storing, Numbered
<1>2. req[r].name \in Safe => storage[req[r].name] = NoId /\ table[req[r].id] = req[r].name
  BY <1>1 DEF IInv, NoStore, OwnRow, Safe
<1>3. CASE Finish(r)
  <2>1. /\ req'[r].pc = "idle" /\ req'[r].name = NoName
        /\ \A q \in Reqs : q # r => req'[q] = req[q]
    BY <1>3, FinishIs DEF IInv
  <2>2. \/ req[r].name \notin Safe
        \/ storage' = [storage EXCEPT ![req[r].name] = req[r].id]
    <3>1. ~Goto(r, "undo")
      BY <2>1, GotoIs DEF IInv
    <3>. QED
      BY <1>2, <3>1 DEF Ensure
  <2>3. \A n \in Safe : storage'[n] = IF n = req[r].name THEN req[r].id ELSE storage[n]
    BY <1>1, <2>2 DEF Ensure, IInv, TypeOK, Safe
  <2>4. Alone'
    BY <2>1 DEF IInv, Alone
  <2>5. OwnRow'
    BY <1>1, <2>1 DEF IInv, OwnRow, Numbered
  <2>6. NoStore'
    BY <2>1, <2>3 DEF IInv, NoStore, Storing, Alone, Safe
  <2>7. Covered'
    <3>. SUFFICES ASSUME NEW j \in Ids, table[j] \in Safe, storage'[table[j]] # j
                  PROVE  /\ storage'[table[j]] = NoId
                         /\ \/ table[j] \in cut
                            \/ \E q \in Reqs : Storing(q)' /\ req'[q].name = table[j]
      BY <1>1 DEF Covered, Safe
    <3>1. table[j] # req[r].name
      BY <1>1, <1>2, <2>3 DEF IInv, NamesUnique, TypeOK
    <3>2. \A q \in Reqs : Storing(q) /\ req[q].name = table[j] => Storing(q)' /\ req'[q].name = table[j]
      BY <2>1, <3>1 DEF Storing
    <3>. QED
      BY <2>3, <3>1, <3>2 DEF IInv, Covered
  <2>8. NoOrphanStorage'
    BY <1>1, <1>2, <2>3 DEF IInv, NoOrphanStorage, Safe
  <2>. QED
    BY <2>4, <2>5, <2>6, <2>7, <2>8 DEF Following
<1>4. CASE Goto(r, "undo") /\ UNCHANGED storage
  <2>1. /\ req'[r].pc = "undo" /\ req'[r].name = req[r].name /\ req'[r].id = req[r].id
        /\ \A q \in Reqs : q # r => req'[q] = req[q]
    BY <1>4, GotoIs DEF IInv
  <2>2. Alone' /\ OwnRow' /\ NoStore' /\ NoOrphanStorage'
    BY <1>1, <1>4, <2>1 DEF IInv, Alone, OwnRow, NoStore, Numbered, Storing, NoOrphanStorage, Safe
  <2>3. \A q \in Reqs : Storing(q) => Storing(q)' /\ req'[q].name = req[q].name
    BY <2>1 DEF Storing
  <2>4. Covered'
    BY <1>1, <1>4, <2>3 DEF IInv, Covered, Safe
  <2>. QED
    BY <2>2, <2>4 DEF Following
<1>. QED
  BY <1>3, <1>4 DEF Ensure

\* Deleting the row, at the end of a deletion or of a creation that failed.
LEMMA DeleteKeeps ==
  ASSUME NEW r \in Reqs, IInv, Storing(r), Finish(r), UNCHANGED storage,
         table' = [table EXCEPT ![req[r].id] = NoName],
         cut' = cut \/ cut' = cut \ {req[r].name}
  PROVE  Following'
<1>1. /\ req[r].name \in Names /\ req[r].id \in Ids /\ Numbered(r)
      /\ table[req[r].id] \in {req[r].name, NoName}
      /\ req[r].name \in Safe => storage[req[r].name] = NoId /\ table[req[r].id] = req[r].name
  BY DEF IInv, TypeOK, OwnRow, NoStore, Storing, Numbered, Safe
<1>2. /\ req'[r].pc = "idle" /\ req'[r].name = NoName
      /\ \A q \in Reqs : q # r => req'[q] = req[q]
  BY FinishIs DEF IInv
<1>3. table'[req[r].id] = NoName /\ \A j \in Ids : j # req[r].id => table'[j] = table[j]
  BY <1>1 DEF IInv, TypeOK
<1>4. Alone'
  BY <1>2 DEF IInv, Alone
<1>5. OwnRow'
  <2>. SUFFICES ASSUME NEW q \in Reqs, q # r, Numbered(q)
                PROVE  /\ table'[req[q].id] \in {req[q].name, NoName}
                       /\ req[q].name \in Serial => table'[req[q].id] = req[q].name
    BY <1>2 DEF OwnRow, Numbered
  <2>1. req[q].id = req[r].id => req[q].name \notin Serial
    BY <1>1 DEF IInv, OwnRow, Alone
  <2>2. req[q].id \in Ids
    BY DEF IInv, TypeOK, Numbered
  <2>. QED
    BY <1>3, <2>1, <2>2 DEF IInv, OwnRow
<1>6. NoStore'
  BY <1>2 DEF IInv, NoStore, Storing, Safe
<1>7. Covered'
  <2>. SUFFICES ASSUME NEW j \in Ids, table'[j] \in Safe, storage[table'[j]] # j
                PROVE  /\ storage[table'[j]] = NoId
                       /\ \/ table'[j] \in cut'
                          \/ \E q \in Reqs : Storing(q)' /\ req'[q].name = table'[j]
    BY DEF Covered, Safe
  <2>1. table'[j] = table[j] /\ j # req[r].id
    BY <1>3 DEF Safe
  <2>2. table[j] # req[r].name
    BY <1>1, <2>1 DEF IInv, NamesUnique, TypeOK
  <2>3. \A q \in Reqs : Storing(q) /\ req[q].name = table[j] => Storing(q)' /\ req'[q].name = table[j]
    BY <1>2, <2>2 DEF Storing
  <2>. QED
    BY <2>1, <2>2, <2>3 DEF IInv, Covered
<1>8. NoOrphanStorage'
  <2>. SUFFICES ASSUME NEW n \in Safe, storage[n] # NoId PROVE table'[storage[n]] = n
    BY DEF NoOrphanStorage, Safe
  <2>1. storage[n] \in Ids /\ table[storage[n]] = n
    BY DEF IInv, TypeOK, NoOrphanStorage, Safe
  <2>2. storage[n] # req[r].id
    BY <1>1, <2>1 DEF Safe
  <2>. QED
    BY <1>3, <2>1, <2>2
<1>. QED
  BY <1>4, <1>5, <1>6, <1>7, <1>8 DEF Following

LEMMA FindKeeps == ASSUME NEW r \in Reqs, IInv, Find(r) PROVE Following'
<1>1. CASE Finish(r)
  BY <1>1, LeaveKeeps DEF Find, Storing
<1>2. CASE \E i \in Named(req[r].name) : Become(r, [req[r] EXCEPT !.pc = "remove", !.id = i])
  <2>1. PICK i \in Named(req[r].name) : Become(r, [req[r] EXCEPT !.pc = "remove", !.id = i])
    BY <1>2
  <2>2. /\ req'[r].pc = "remove" /\ req'[r].name = req[r].name /\ req'[r].id = i
        /\ \A q \in Reqs : q # r => req'[q] = req[q]
    BY <2>1, NumberIs DEF IInv
  <2>3. UNCHANGED <<table, storage, cut>> /\ req[r].pc = "find" /\ table[i] = req[r].name
    BY <2>1 DEF Find, Named
  <2>4. \A q \in Reqs : Storing(q) <=> Storing(q)'
    BY <2>2, <2>3 DEF Storing
  <2>5. \A q \in Reqs : req'[q].name = req[q].name
    BY <2>2
  <2>6. Alone' /\ NoStore' /\ NoOrphanStorage'
    BY <2>3, <2>4, <2>5 DEF IInv, Alone, NoStore, NoOrphanStorage, Safe
  <2>7. OwnRow'
    BY <2>2, <2>3 DEF IInv, OwnRow, Numbered
  <2>8. Covered'
    BY <2>3, <2>4, <2>5 DEF IInv, Covered, Safe
  <2>. QED
    BY <2>6, <2>7, <2>8 DEF Following
<1>. QED
  BY <1>1, <1>2 DEF Find

LEMMA RemoveKeeps == ASSUME NEW r \in Reqs, IInv, Remove(r) PROVE Following'
<1>1. /\ req'[r].pc = "drop" /\ req'[r].name = req[r].name /\ req'[r].id = req[r].id
      /\ \A q \in Reqs : q # r => req'[q] = req[q]
  BY GotoIs DEF IInv, Remove
<1>2. /\ UNCHANGED <<table, cut>> /\ req[r].pc = "remove" /\ req[r].name \in Names
      /\ \A n \in Safe : storage'[n] = IF n = req[r].name THEN NoId ELSE storage[n]
  BY DEF Remove, IInv, TypeOK, Safe
<1>3. \A q \in Reqs : Storing(q) => Storing(q)' /\ req'[q].name = req[q].name
  BY <1>1, <1>2 DEF Storing
<1>4. Alone' /\ OwnRow'
  BY <1>1, <1>2 DEF IInv, Alone, OwnRow, Numbered
<1>5. NoStore'
  BY <1>1, <1>2 DEF IInv, NoStore, Storing, Safe
<1>6. Covered'
  <2>. SUFFICES ASSUME NEW j \in Ids, table[j] \in Safe, storage'[table[j]] # j
                PROVE  /\ storage'[table[j]] = NoId
                       /\ \/ table[j] \in cut
                          \/ \E q \in Reqs : Storing(q)' /\ req'[q].name = table[j]
    BY <1>2 DEF Covered, Safe
  <2>1. CASE table[j] = req[r].name
    BY <1>1, <1>2, <2>1 DEF Storing
  <2>2. CASE table[j] # req[r].name
    BY <1>2, <1>3, <2>2 DEF IInv, Covered
  <2>. QED
    BY <2>1, <2>2
<1>7. NoOrphanStorage'
  BY <1>2 DEF IInv, NoOrphanStorage, Safe
<1>. QED
  BY <1>4, <1>5, <1>6, <1>7 DEF Following

LEMMA CrashKeeps == ASSUME IInv, Crash PROVE Following'
<1>1. \A r \in Reqs : req'[r].pc = "idle" /\ req'[r].name = NoName
  BY IdleHandler DEF Crash
<1>2. UNCHANGED <<table, storage>> /\ \A r \in Reqs : Storing(r) => req[r].name \in cut'
  BY DEF Crash, Storing
<1>3. Alone' /\ OwnRow' /\ NoStore'
  BY <1>1 DEF Alone, OwnRow, NoStore, Numbered, Storing
<1>4. cut \subseteq cut'
  BY DEF Crash
<1>5. Covered' /\ NoOrphanStorage'
  BY <1>2, <1>4 DEF IInv, Covered, NoOrphanStorage, Safe
<1>. QED
  BY <1>3, <1>5 DEF Following

LEMMA StepKeeps == ASSUME NEW r \in Reqs, IInv, Step(r) PROVE Following'
<1>1. CASE Create(r) \/ Delete(r)
  BY <1>1, AcceptKeeps DEF Create, Delete
<1>2. CASE Undo(r) \/ Drop(r)
  BY <1>2, DeleteKeeps DEF Undo, Drop, Storing
<1>. QED
  BY <1>1, <1>2, CheckKeeps, SaveKeeps, EnsureKeeps, FindKeeps, RemoveKeeps DEF Step

LEMMA IdleKeeps == ASSUME IInv, UNCHANGED vars PROVE Following'
<1>. USE DEF IInv, vars
<1>1. Alone' /\ OwnRow' /\ NoOrphanStorage'
  BY DEF Alone, OwnRow, Numbered, NoOrphanStorage, Safe
<1>2. NoStore' /\ Covered'
  BY DEF NoStore, Covered, Storing, Safe
<1>. QED
  BY <1>1, <1>2 DEF Following

\* The storage of a name whose requests are serialised and whose removals succeed
\* follows the table, through failing creations and through crashes.
THEOREM StorageFollowsTable == Spec => []IInv
<1>1. Init => IInv
  BY IdleHandler DEF Init, IInv, TypeOK, NamesUnique, Alone, OwnRow, NoStore, Covered, NoOrphanStorage,
                     Numbered, Storing, Safe
<1>2. TypeOK' /\ NamesUnique' /\ IInv /\ [Next]_vars => IInv'
  BY StepKeeps, CrashKeeps, IdleKeeps DEF Next, Following, IInv
<1>. QED
  BY <1>1, <1>2, VolumeTypeCorrect, NamesStayUnique, PTL DEF Spec

\* A volume nobody works on has its own storage, or after a crash none.
THEOREM VolumesOwnStorage == Spec => []OwnStorage
<1>1. IInv => OwnStorage
  BY DEF IInv, TypeOK, Covered, OwnStorage, Quiet, Storing
<1>. QED
  BY <1>1, StorageFollowsTable, PTL

\* Storage never outlives its row, whenever the API crashes.
THEOREM StorageHasVolume == Spec => []NoOrphanStorage
<1>1. IInv => NoOrphanStorage
  BY DEF IInv
<1>. QED
  BY <1>1, StorageFollowsTable, PTL
=============================================================================
