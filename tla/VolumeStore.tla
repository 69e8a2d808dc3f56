----------------------------- MODULE VolumeStore -----------------------------
(***************************************************************************)
(* Named volumes: the volumes table (RuntimeControlService.createVolume    *)
(* and deleteVolume over RuntimeRegistryService) and the storage           *)
(* microsandbox keeps under a backend name, which is a function of the     *)
(* volume's name alone.  Handlers interleave at their awaits, as in        *)
(* RuntimeControl, and a crash of the API forgets all of them.             *)
(***************************************************************************)
EXTENDS Integers

CONSTANTS
  Names,        \* normalized volume names, and so backend names
  Ids,          \* volume uuids
  Reqs,         \* handlers that may be in flight
  NoId, NoName,
  Serial,       \* the names for which clients have one request in flight at a time
  MayFail,      \* creating the storage may throw
  MayCrash,     \* the API may stop and start again
  Sticky        \* the names whose storage microsandbox may fail to remove

ASSUME VolumeAssumption ==
  NoId \notin Ids /\ NoName \notin Names /\ Serial \subseteq Names /\ Sticky \subseteq Names
  /\ MayFail \in BOOLEAN /\ MayCrash \in BOOLEAN

VARIABLES
  table,    \* the volumes table: the name of each id
  storage,  \* the storage of each name: the id of the volume it was created for
  req,      \* the handlers in flight
  cut       \* history: the names whose volume a crash left half made or half deleted

vars == <<table, storage, req, cut>>

Idle == [pc |-> "idle", name |-> NoName, id |-> NoId]
Handler == [pc : {"idle", "check", "save", "ensure", "undo", "find", "remove", "drop"},
            name : Names \cup {NoName}, id : Ids \cup {NoId}]

Init == /\ table = [i \in Ids |-> NoName]
        /\ storage = [n \in Names |-> NoId]
        /\ req = [r \in Reqs |-> Idle]
        /\ cut = {}

Become(r, h) == req' = [req EXCEPT ![r] = h]
Goto(r, pc)  == Become(r, [req[r] EXCEPT !.pc = pc])
Finish(r)    == Become(r, Idle)
Named(n)     == {i \in Ids : table[i] = n}

\* A uuid nobody has seen.
Fresh(i) == /\ table[i] = NoName
            /\ \A n \in Names : storage[n] # i
            /\ \A q \in Reqs : req[q].id # i

Accept(r, pc) ==
  \E n \in Names :
    /\ req[r].pc = "idle"
    /\ n \in Serial => \A q \in Reqs : req[q].name # n
    /\ Become(r, [Idle EXCEPT !.pc = pc, !.name = n])
    /\ UNCHANGED <<table, storage, cut>>

Create(r) == Accept(r, "check")
Delete(r) == Accept(r, "find")

\* createVolume: the name must be free,
Check(r) ==
  /\ req[r].pc = "check"
  /\ IF Named(req[r].name) # {} THEN Finish(r) ELSE Goto(r, "save")
  /\ UNCHANGED <<table, storage, cut>>

\* Mutant of Save: the check is trusted, and no UNIQUE key stands behind it.
Save_Unkeyed(r) ==
  /\ req[r].pc = "save"
  /\ \E i \in Ids :
       /\ Fresh(i)
       /\ table' = [table EXCEPT ![i] = req[r].name]
       /\ Become(r, [req[r] EXCEPT !.pc = "ensure", !.id = i])
  /\ UNCHANGED <<storage, cut>>

\* the row is inserted, unless the UNIQUE name refuses it,
Save(r) ==
  /\ req[r].pc = "save"
  /\ \/ /\ Named(req[r].name) # {}
        /\ Finish(r)
        /\ UNCHANGED table
     \/ /\ Named(req[r].name) = {}
        /\ \E i \in Ids :
             /\ Fresh(i)
             /\ table' = [table EXCEPT ![i] = req[r].name]
             /\ Become(r, [req[r] EXCEPT !.pc = "ensure", !.id = i])
  /\ UNCHANGED <<storage, cut>>

\* and ensureVolume takes the storage that has the name, or creates it.
Ensure(r) ==
  LET h == req[r] IN
  /\ h.pc = "ensure"
  /\ \/ storage[h.name] # NoId /\ Finish(r) /\ UNCHANGED storage
     \/ storage[h.name] = NoId /\ Finish(r) /\ storage' = [storage EXCEPT ![h.name] = h.id]
     \/ MayFail /\ storage[h.name] = NoId /\ Goto(r, "undo") /\ UNCHANGED storage
  /\ UNCHANGED <<table, cut>>

\* Mutant of Undo: the row of a volume that could not be created stays.
Undo_Skipped(r) ==
  /\ req[r].pc = "undo"
  /\ Finish(r)
  /\ UNCHANGED <<table, storage, cut>>

Undo(r) ==
  /\ req[r].pc = "undo"
  /\ table' = [table EXCEPT ![req[r].id] = NoName]
  /\ Finish(r)
  /\ UNCHANGED <<storage, cut>>

\* Mutant of Find: deleting a name that has no row goes on with no id.
Find_Unchecked(r) ==
  /\ req[r].pc = "find"
  /\ \/ \E i \in Named(req[r].name) : Become(r, [req[r] EXCEPT !.pc = "remove", !.id = i])
     \/ Named(req[r].name) = {} /\ Goto(r, "remove")
  /\ UNCHANGED <<table, storage, cut>>

\* deleteVolume: requireVolume,
Find(r) ==
  /\ req[r].pc = "find"
  /\ \/ Named(req[r].name) = {} /\ Finish(r)
     \/ \E i \in Named(req[r].name) : Become(r, [req[r] EXCEPT !.pc = "remove", !.id = i])
  /\ UNCHANGED <<table, storage, cut>>

\* Mutant of Remove: only the row is deleted.
Remove_RowOnly(r) ==
  /\ req[r].pc = "remove"
  /\ Goto(r, "drop")
  /\ UNCHANGED <<table, storage, cut>>

\* removeVolume, which swallows every error of Volume.remove,
Remove(r) ==
  /\ req[r].pc = "remove"
  /\ \/ storage' = [storage EXCEPT ![req[r].name] = NoId]
     \/ req[r].name \in Sticky /\ UNCHANGED storage
  /\ Goto(r, "drop")
  /\ UNCHANGED <<table, cut>>

\* and the row.
Drop(r) ==
  /\ req[r].pc = "drop"
  /\ table' = [table EXCEPT ![req[r].id] = NoName]
  /\ cut' = cut \ {req[r].name}
  /\ Finish(r)
  /\ UNCHANGED storage

\* The API stops and starts again.  Nothing reconciles the table with the storage.
Crash ==
  /\ MayCrash
  /\ \E r \in Reqs : req[r] # Idle
  /\ cut' = cut \cup {req[r].name : r \in {q \in Reqs : req[q].pc \in {"ensure", "undo", "drop"}}}
  /\ req' = [r \in Reqs |-> Idle]
  /\ UNCHANGED <<table, storage>>

Step(r) ==
  \/ Create(r) \/ Check(r) \/ Save(r) \/ Ensure(r) \/ Undo(r)
  \/ Delete(r) \/ Find(r) \/ Remove(r) \/ Drop(r)

Next == Crash \/ \E r \in Reqs : Step(r)

Spec == Init /\ [][Next]_vars
--------------------------------------------------------------------------------
(* Properties. *)

Quiet(n) == \A r \in Reqs : req[r].name # n
Safe == Serial \ Sticky

\* Every variable has its type; a handler past its save or lookup has an id.
TypeOK ==
  /\ table \in [Ids -> Names \cup {NoName}]
  /\ storage \in [Names -> Ids \cup {NoId}]
  /\ req \in [Reqs -> Handler]
  /\ cut \in SUBSET Names
  /\ \A r \in Reqs : req[r].pc # "idle" => req[r].name \in Names
  /\ \A r \in Reqs : req[r].pc \in {"ensure", "undo", "remove", "drop"} => req[r].id \in Ids

\* Two volumes never share a name, and so never share storage: createVolume's check and
\* its insert are two steps, and creations of one name may race.
NamesUnique == \A i, j \in Ids : i # j /\ table[i] # NoName => table[i] # table[j]

\* A volume nobody is working on has storage, created for it: it neither starts with
\* the data of a deleted volume of its name (ensureVolume takes what it finds) nor has
\* lost its own to the deletion of another.  A crash may leave it without storage until
\* it is deleted, and still never with another's.  This takes serialised requests and
\* removals that succeed, for this name only.
OwnStorage ==
  \A i \in Ids :
    table[i] \in Safe /\ Quiet(table[i]) =>
      \/ storage[table[i]] = i
      \/ table[i] \in cut /\ storage[table[i]] = NoId

\* Storage always has its volume in the table, whenever the API crashes: only
\* createVolume's undo and deleteVolume ever remove it, and they start from the row.
\* Under the same conditions.
NoOrphanStorage == \A n \in Safe : storage[n] # NoId => table[storage[n]] = n
=============================================================================
