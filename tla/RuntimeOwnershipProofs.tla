----------------------- MODULE RuntimeOwnershipProofs -----------------------
(***************************************************************************)
(* When clients never have two requests in flight for one sandbox, every   *)
(* handler owns the row, the leases and the VM it works on, in spite of    *)
(* failures, crashes and the handlers of other sandboxes.  From that:      *)
(* no lease and no VM is ever orphaned, and no save brings a deleted row   *)
(* back.                                                                   *)
(***************************************************************************)
EXTENDS RuntimeControlProofs

\* What a step of the handler at r may touch: its own slot, rows and VMs in its
\* footprint, free ids, and leases of the runtime it owns.
OnlyOwn(r) ==
  /\ \A q \in Reqs \ {r} : req'[q] = req[q]
  /\ req'[r].foot \subseteq req[r].foot
  /\ \A i \in Ids : rows'[i] # rows[i] =>
       /\ rows[i] = NoRow => Fresh(i)
       /\ rows[i] # NoRow => rows[i].sid \in req[r].foot
       /\ rows'[i] # NoRow => rows'[i].sid \in req[r].foot /\ Within(req[r], rows'[i].name)
  /\ \A p \in Ports : \/ leases'[p] = leases[p] \/ leases'[p] = NoId
                      \/ req[r].pc \in OwnerPcs /\ leases'[p] = req[r].ent.id
  /\ \A s \in Sids \ req[r].foot : vms'[s] = vms[s]

\* A handler that owns its row goes on with the same runtime, or ends.
Continues(h, g) ==
  \/ g = Idle
  \/ /\ g.pc \in OwnerPcs \ {"lease1", "release", "dropRow"}
     /\ g.foot = h.foot
     /\ g.ent.id = h.ent.id /\ g.ent.sid = h.ent.sid /\ Within(h, g.ent.name)
     /\ g.pc \in SpecPcs => Within(h, g.in.name)

\* A step of the handler at r stays within what it owns, and everything is accounted for
\* after it.
Keeps(r) == OnlyOwn(r) /\ ExclusiveInv'

\* Which awaits belong to which phase.
LEMMA Phases ==
  /\ OwnerPcs \subseteq EntPcs /\ EntPcs \subseteq Pcs /\ "idle" \notin EntPcs \cup SpecPcs \cup SearchPcs
  /\ "load" \notin EntPcs \cup SpecPcs /\ "find" \notin EntPcs \cup SpecPcs
  /\ EntPcs \cap SearchPcs = {} /\ "insert" \notin EntPcs \cup SearchPcs
  /\ {"dropLeases", "dropTokens"} \subseteq EntPcs /\ {"dropLeases", "dropTokens"} \cap OwnerPcs = {}
  /\ {"readToken", "issue", "expireToken"} \subseteq OwnerPcs
  /\ {"readToken", "issue", "expireToken", "dropTokens"} \cap SpecPcs = {}
  /\ {"lease1", "lease2", "probe", "syncFiles", "keep", "replace", "boot", "health", "persist", "sync",
      "syncSave", "act", "save", "deleting", "remove", "release", "dropRow"} \subseteq OwnerPcs
  /\ {"lease1", "lease2", "probe", "syncFiles", "keep", "replace", "boot", "health"} \subseteq SpecPcs
  /\ {"persist", "sync", "syncSave", "act", "save", "deleting", "remove", "release", "dropRow", "dropLeases"}
       \cap SpecPcs = {}
  BY DEF EntPcs, OwnerPcs, SpecPcs, SearchPcs, Pcs

\* An idle slot owns nothing.
LEMMA IdleOwned == Owned(Idle) /\ Idle.foot = {} /\ Idle.pc = "idle"
  BY Phases DEF Idle, Owned

\* A table row is the row of its id.
LEMMA RowById ==
  ASSUME TypeInv
  PROVE  /\ \A e \in Rows : e \in Entity /\ e.id \in Ids /\ rows[e.id] = e /\ e # NoRow
         /\ \A i \in Ids : rows[i] # NoRow => rows[i] \in Rows
  BY NullsAssumption DEF TypeInv, TypeOK, Rows, Entity

\* A VM has its row, said with ids.
LEMMA OrphanVm ==
  VmsAccounted <=> MayMiss \/ \A s \in Sids : vms[s].st # "absent" => \E i \in Ids : rows[i] # NoRow /\ rows[i].sid = s
  BY DEF VmsAccounted, NoOrphanVm, BySandboxId, Rows

\* A step that touches only what its handler owns does not disturb the others.
LEMMA Undisturbed ==
  ASSUME ExclusiveInv, NEW r \in Reqs, NEW q \in Reqs \ {r}, OnlyOwn(r)
  PROVE  Owned(req[q])'
<1> DEFINE h == req[q]
<1>0. req'[q] = h /\ h \in Handler /\ HandlerOK(h) /\ Owned(h) /\ Owned(req[r]) /\ HandlerOK(req[r])
  BY DEF OnlyOwn, ExclusiveInv, TypeInv, TypeOK
<1>1. h.foot \cap req[r].foot = {}
  BY DEF ExclusiveInv, Separate
<1>2. h.pc \in SearchPcs => \A i \in Ids :
        rows'[i] # NoRow /\ (rows'[i].sid = h.key \/ rows'[i].name = h.key)
          => rows'[i].sid \in h.foot /\ Within(h, rows'[i].name)
  <2> SUFFICES ASSUME h.pc \in SearchPcs, NEW i \in Ids, rows'[i] # NoRow,
                      rows'[i].sid = h.key \/ rows'[i].name = h.key
               PROVE  rows'[i].sid \in h.foot /\ Within(h, rows'[i].name)
    OBVIOUS
  <2>1. h.key \in h.foot /\ h.key # NoName
    BY <1>0, NamesAssumption DEF HandlerOK, Handler
  <2>2. CASE rows'[i] = rows[i]
    BY <1>0, <2>2 DEF Owned
  <2>3. CASE rows'[i] # rows[i]
    BY <1>1, <2>1, <2>3 DEF OnlyOwn, Within
  <2> QED
    BY <2>2, <2>3
<1>3. h.pc \in OwnerPcs => rows'[h.ent.id] # NoRow /\ rows'[h.ent.id].sid = h.ent.sid
  BY <1>0, <1>1, Phases DEF OnlyOwn, Owned, HandlerOK, Entity
<1>4. h.pc \in {"lease1", "release", "dropRow"} => MayMiss \/ vms'[h.ent.sid].st = "absent"
  BY <1>0, <1>1, Phases DEF OnlyOwn, Owned, HandlerOK, Entity
<1>5. h.pc \in {"dropLeases", "dropTokens"} => rows'[h.ent.id] = NoRow
  BY <1>0, <1>1, Phases, NullsAssumption DEF OnlyOwn, Owned, HandlerOK, Entity, Fresh
<1>6. h.pc \in {"dropRow", "dropLeases"} => \A p \in Ports : leases'[p] # h.ent.id
  <2> SUFFICES ASSUME h.pc \in {"dropRow", "dropLeases"}, NEW p \in Ports
               PROVE  leases'[p] # h.ent.id
    OBVIOUS
  <2>1. h.ent \in Entity /\ h.ent.id \in Ids /\ leases[p] # h.ent.id
    BY <1>0, Phases DEF HandlerOK, Entity, Owned
  <2>2. req[r].pc \in OwnerPcs => req[r].ent.id # h.ent.id
    <3>1. req[r].pc \in OwnerPcs => /\ rows[req[r].ent.id] # NoRow
                                     /\ rows[req[r].ent.id].sid \in req[r].foot
      BY <1>0, Phases DEF Owned
    <3>2. h.pc = "dropRow" => rows[h.ent.id].sid \in h.foot
      BY <1>0, Phases DEF Owned
    <3>3. h.pc = "dropLeases" => rows[h.ent.id] = NoRow
      BY <1>0 DEF Owned
    <3> QED
      BY <1>1, <3>1, <3>2, <3>3
  <2> QED
    BY <2>1, <2>2, NullsAssumption DEF OnlyOwn
<1>7. h.pc \in SpecPcs \cup {"load"} => Within(h, h.in.name)
  BY <1>0 DEF Owned
<1>8. h.pc \in EntPcs => h.ent.sid \in h.foot /\ Within(h, h.ent.name)
  BY <1>0 DEF Owned
<1> QED
  BY <1>0, <1>2, <1>3, <1>4, <1>5, <1>6, <1>7, <1>8 DEF Owned, Within
\* Ownership after a step: the handler's own part, the others', and the accounts.
LEMMA StepInv ==
  ASSUME ExclusiveInv, TypeInv', NEW r \in Reqs, OnlyOwn(r),
         Owned(req[r])', NoOrphanLease', VmsAccounted'
  PROVE  Keeps(r)
<1>1. \A q \in Reqs : Owned(req[q])'
  BY Undisturbed
<1>2. Separate'
  <2> SUFFICES ASSUME NEW p \in Reqs, NEW q \in Reqs, p # q
               PROVE  req'[p].foot \cap req'[q].foot = {}
    BY DEF Separate
  <2>1. req'[p].foot \subseteq req[p].foot /\ req'[q].foot \subseteq req[q].foot
    BY DEF OnlyOwn
  <2> QED
    BY <2>1 DEF ExclusiveInv, Separate
<1> QED
  BY <1>1, <1>2 DEF ExclusiveInv, Keeps

\* A step of a handler that leaves the tables and the VMs alone.
LEMMA ControlInv ==
  ASSUME ExclusiveInv, TypeInv', NEW r \in Reqs, NEW g, Become(r, g), Owned(g),
         g.foot \subseteq req[r].foot, UNCHANGED <<rows, leases, vms>>
  PROVE  Keeps(r)
<1>1. req'[r] = g /\ \A q \in Reqs \ {r} : req'[q] = req[q]
  BY DEF Become, ExclusiveInv, TypeInv, TypeOK
<1>2. OnlyOwn(r)
  BY <1>1 DEF OnlyOwn
<1>3. Owned(req[r])'
  BY <1>1 DEF Owned, Within
<1>4. NoOrphanLease' /\ VmsAccounted'
  BY DEF ExclusiveInv, NoOrphanLease, VmsAccounted, NoOrphanVm, BySandboxId, Rows
<1> QED
  BY <1>2, <1>3, <1>4, StepInv

\* A handler that ends without touching anything.
LEMMA FinishInv ==
  ASSUME ExclusiveInv, TypeInv', NEW r \in Reqs, Finish(r), UNCHANGED <<rows, leases, vms>>
  PROVE  Keeps(r)
  BY ControlInv, IdleOwned DEF Finish

\* A step of a handler that owns its row and changes nothing but its own VM.
LEMMA VmInv ==
  ASSUME ExclusiveInv, TypeInv', NEW r \in Reqs, NEW g, Become(r, g), req[r].pc \in OwnerPcs,
         Continues(req[r], g), UNCHANGED <<rows, leases>>,
         \A s \in Sids \ {req[r].ent.sid} : vms'[s] = vms[s]
  PROVE  Keeps(r)
<1> DEFINE h == req[r]
<1>0. h \in Handler /\ HandlerOK(h) /\ Owned(h) /\ TypeInv
  BY DEF ExclusiveInv, TypeInv, TypeOK
<1>1. req'[r] = g /\ \A q \in Reqs \ {r} : req'[q] = req[q]
  BY DEF Become, ExclusiveInv, TypeInv, TypeOK
<1>2. h.ent \in Entity /\ h.ent.sid \in h.foot /\ rows[h.ent.id] # NoRow /\ rows[h.ent.id].sid = h.ent.sid
  BY <1>0, Phases DEF Owned, HandlerOK
<1>3. OnlyOwn(r)
  BY <1>1, <1>2, IdleOwned DEF OnlyOwn, Continues
<1>4. Owned(req[r])'
  BY <1>1, <1>2, IdleOwned, Phases DEF Continues, Owned, Within
<1>5. NoOrphanLease'
  BY DEF ExclusiveInv, NoOrphanLease
<1>6. VmsAccounted'
  <2>1. MayMiss \/ \A s \in Sids : vms'[s].st # "absent" => \E i \in Ids : rows[i] # NoRow /\ rows[i].sid = s
    BY <1>2, OrphanVm DEF ExclusiveInv, Entity
  <2> QED
    BY <2>1 DEF VmsAccounted, NoOrphanVm, BySandboxId, Rows
<1> QED
  BY <1>3, <1>4, <1>5, <1>6, StepInv

\* A save of the entity of a handler that owns its row.
LEMMA SaveInv ==
  ASSUME ExclusiveInv, TypeInv', NEW r \in Reqs, NEW e \in Entity, NEW g, SaveThen(r, e, g),
         req[r].pc \in OwnerPcs, UNCHANGED <<leases, vms>>,
         e.id = req[r].ent.id, e.sid = req[r].ent.sid, Within(req[r], e.name), Continues(req[r], g)
  PROVE  Keeps(r)
<1> DEFINE h == req[r]
<1>0. h \in Handler /\ HandlerOK(h) /\ Owned(h) /\ TypeInv
  BY DEF ExclusiveInv, TypeInv, TypeOK
<1>1. CASE Finish(r) /\ UNCHANGED rows
  BY <1>1, FinishInv
<1>2. CASE rows' = [rows EXCEPT ![e.id] = e] /\ Become(r, g)
  <2>1. req'[r] = g /\ \A q \in Reqs \ {r} : req'[q] = req[q]
    BY <1>2 DEF Become, ExclusiveInv, TypeInv, TypeOK
  <2>2. e.id \in Ids /\ e.sid \in h.foot /\ rows[e.id] # NoRow /\ rows[e.id].sid = e.sid /\ e # NoRow
    BY <1>0, Phases, NullsAssumption DEF Owned, Entity
  <2>3. rows'[e.id] = e /\ \A i \in Ids \ {e.id} : rows'[i] = rows[i]
    BY <1>2, <2>2 DEF ExclusiveInv, TypeInv, TypeOK
  <2>4. OnlyOwn(r)
    BY <2>1, <2>2, <2>3, IdleOwned DEF OnlyOwn, Continues
  <2>5. Owned(req[r])'
    BY <2>1, <2>2, <2>3, IdleOwned, Phases DEF Continues, Owned, Within
  <2>6. NoOrphanLease'
    BY <2>2, <2>3 DEF ExclusiveInv, NoOrphanLease, TypeInv, TypeOK
  <2>7. VmsAccounted'
    <3>1. MayMiss \/ \A s \in Sids : vms'[s].st # "absent" => \E i \in Ids : rows'[i] # NoRow /\ rows'[i].sid = s
      BY <2>2, <2>3, OrphanVm DEF ExclusiveInv
    <3> QED
      BY <3>1 DEF VmsAccounted, NoOrphanVm, BySandboxId, Rows
  <2> QED
    BY <2>4, <2>5, <2>6, <2>7, StepInv
<1> QED
  BY <1>1, <1>2 DEF SaveThen
\* A request that arrives while no other is about its sandbox owns its footprint.
LEMMA AdmitInv ==
  ASSUME ExclusiveInv, TypeInv', Exclusive, NEW r \in Reqs, NEW op, NEW pc \in SearchPcs,
         NEW key \in Sids, NEW in, NEW name \in NameOrNone,
         pc \in SpecPcs \cup {"load"} => in.name = name,
         Admit(r, op, pc, key, in, {key, name})
  PROVE  ExclusiveInv'
<1> DEFINE F == Footprint({key, name})
           g == [Idle EXCEPT !.op = op, !.pc = pc, !.key = key, !.in = in, !.foot = F]
<1>0. TypeInv /\ req \in [Reqs -> Handler]
  BY DEF ExclusiveInv, TypeInv, TypeOK
<1>1. req'[r] = g /\ UNCHANGED <<rows, leases, vms>> /\ \A q \in Reqs \ {r} : req'[q] = req[q]
  BY <1>0 DEF Admit, Become
<1>2. \A q \in Reqs \ {r} : req[q].foot \cap F = {}
  BY <1>0 DEF Admit, TypeInv, HandlerOK
<1>3. Separate'
  <2>1. g.foot = F
    BY DEF Idle
  <2> HIDE DEF F, g
  <2> QED
    BY <1>1, <1>2, <2>1 DEF ExclusiveInv, Separate
<1>4. \A i \in Ids : rows[i] # NoRow /\ (rows[i].sid = key \/ rows[i].name = key)
        => rows[i].sid \in F /\ (rows[i].name = NoName \/ rows[i].name \in F)
  <2> SUFFICES ASSUME NEW i \in Ids, rows[i] # NoRow, rows[i].sid = key \/ rows[i].name = key
               PROVE  rows[i].sid \in F /\ (rows[i].name = NoName \/ rows[i].name \in F)
    OBVIOUS
  <2>1. rows[i] \in Rows /\ rows[i] \in Entity /\ key # NoName
    BY <1>0, RowById, NamesAssumption
  <2>2. rows[i].sid # NoName
    BY <2>1, NamesAssumption DEF Entity
  <2> QED
    BY <2>1, <2>2 DEF Footprint
<1>5. name = NoName \/ name \in F
  BY DEF Footprint
<1>6. Owned(req[r])'
  <2>1. g.pc = pc /\ g.key = key /\ g.in = in /\ g.foot = F
    BY DEF Idle
  <2>2. pc \notin EntPcs /\ pc \notin {"lease1", "release", "dropRow", "dropLeases", "dropTokens"} /\ pc \notin OwnerPcs
    BY Phases
  <2> HIDE DEF F, g
  <2> QED
    BY <1>1, <1>4, <1>5, <2>1, <2>2 DEF Owned, Within
<1>7. \A q \in Reqs \ {r} : Owned(req[q])'
  BY <1>1 DEF ExclusiveInv, Owned, Within
<1>8. NoOrphanLease' /\ VmsAccounted'
  BY <1>1 DEF ExclusiveInv, NoOrphanLease, VmsAccounted, NoOrphanVm, BySandboxId, Rows
<1> QED
  BY <1>3, <1>6, <1>7, <1>8 DEF ExclusiveInv

\* Arrivals keep ownership.
LEMMA AcceptInv ==
  ASSUME ExclusiveInv, TypeInv', Exclusive, NEW r \in Reqs, Accept(r)
  PROVE  ExclusiveInv'
<1>1. CASE AcceptCreate(r)
  <2>1. PICK i \in Inputs, s \in Sids :
           Admit(r, "create", "conflict", s, BuildSpec([i EXCEPT !.force = FALSE]), {s, i.name})
    BY <1>1 DEF AcceptCreate
  <2>2. i.name \in NameOrNone /\ BuildSpec([i EXCEPT !.force = FALSE]).name = i.name
    BY InputsAssumption DEF InputType, BuildSpec
  <2> QED
    BY <2>1, <2>2, AdmitInv DEF SearchPcs
<1>2. CASE AcceptEnsure(r)
  <2>1. PICK i \in Inputs, s \in Sids : Admit(r, "ensure", "name", s, BuildSpec(i), {s, i.name})
    BY <1>2 DEF AcceptEnsure
  <2>2. i.name \in NameOrNone /\ BuildSpec(i).name = i.name
    BY InputsAssumption DEF InputType, BuildSpec
  <2> QED
    BY <2>1, <2>2, AdmitInv DEF SearchPcs
<1>3. CASE AcceptUpdate(r)
  <2>1. PICK u \in Patches, s \in Sids : Admit(r, "update", "load", s, u, {s, u.name})
    BY <1>3 DEF AcceptUpdate
  <2>2. u.name \in NameOrNone
    BY InputsAssumption DEF PatchType
  <2> QED
    BY <2>1, <2>2, AdmitInv DEF SearchPcs
<1>4. CASE AcceptCommand(r)
  <2>1. PICK op \in AllOps, k \in Sids : Admit(r, op, "find", k, NoSpec, {k})
    BY <1>4 DEF AcceptCommand, AllOps
  <2>2. Admit(r, op, "find", k, NoSpec, {k, NoName})
    <3>1. {k} \ {NoName} = {k, NoName} \ {NoName}
      OBVIOUS
    <3> QED
      BY <2>1, <3>1 DEF Admit, Footprint
  <2> QED
    BY <2>2, AdmitInv, Phases DEF SearchPcs, NameOrNone
<1> QED
  BY <1>1, <1>2, <1>3, <1>4 DEF Accept

\* The lookups that turn a key into an entity.
LEMMA SearchInv ==
  ASSUME ExclusiveInv, TypeInv', NEW r \in Reqs,
         CheckConflict(r) \/ LoadForUpdate(r) \/ CheckName(r) \/ Lookup(r) \/ Find(r)
  PROVE  Keeps(r)
<1> DEFINE h == req[r]
<1>0. h \in Handler /\ HandlerOK(h) /\ Owned(h) /\ TypeInv
  BY DEF ExclusiveInv, TypeInv, TypeOK
<1>1. UNCHANGED <<rows, leases, vms>> /\ h.pc \in SearchPcs
  BY DEF CheckConflict, LoadForUpdate, CheckName, Lookup, Find, At, SearchPcs
<1>a. CASE Finish(r)
  BY <1>a, <1>1, FinishInv
<1>2. ASSUME NEW pc \in {"name", "lookup", "insert"}, Goto(r, pc), h.pc \in SpecPcs
      PROVE  Keeps(r)
  <2> DEFINE g == [h EXCEPT !.pc = pc]
  <2>1. g.pc = pc /\ g.key = h.key /\ g.in = h.in /\ g.foot = h.foot
    BY <1>0 DEF Handler
  <2>2. pc \notin EntPcs /\ pc \notin OwnerPcs
    BY DEF EntPcs, OwnerPcs, SearchPcs, Pcs
  <2>3. Become(r, g)
    BY <1>2 DEF Goto
  <2> HIDE DEF g
  <2>4. Owned(g)
    BY <1>0, <1>1, <1>2, <2>1, <2>2 DEF Owned, Within
  <2> QED
    BY <1>1, <2>1, <2>3, <2>4, ControlInv
<1>3. ASSUME NEW e \in Rows, e.sid = h.key \/ e.name = h.key,
             NEW pc \in OwnerPcs \ {"lease1", "release", "dropRow"},
             pc \in SpecPcs => h.pc \in SpecPcs,
             Become(r, [h EXCEPT !.ent = e, !.pc = pc])
      PROVE  Keeps(r)
  <2> DEFINE g == [h EXCEPT !.ent = e, !.pc = pc]
  <2>1. g.pc = pc /\ g.ent = e /\ g.in = h.in /\ g.foot = h.foot
    BY <1>0 DEF Handler
  <2>2. e.id \in Ids /\ rows[e.id] = e /\ e # NoRow /\ e.sid \in h.foot /\ Within(h, e.name)
    BY <1>0, <1>1, <1>3, RowById DEF Owned
  <2>3. Become(r, g)
    BY <1>3
  <2> HIDE DEF g
  <2>4. Owned(g)
    BY <1>0, <1>3, <2>1, <2>2, Phases DEF Owned, Within
  <2> QED
    BY <1>1, <2>1, <2>3, <2>4, ControlInv
<1>4. CASE CheckConflict(r)
  BY <1>4, <1>a, <1>2 DEF CheckConflict, At, SpecPcs
<1>5. CASE LoadForUpdate(r)
  <2>1. ASSUME NEW e \in BySandboxId(h.key),
               Become(r, [h EXCEPT !.pc = "name", !.in = BuildUpdateSpec(e, h.in)])
        PROVE  Keeps(r)
    <3> DEFINE g == [h EXCEPT !.pc = "name", !.in = BuildUpdateSpec(e, h.in)]
    <3>1. g.pc = "name" /\ g.key = h.key /\ g.in = BuildUpdateSpec(e, h.in) /\ g.foot = h.foot
      BY <1>0 DEF Handler
    <3>2. e \in Rows /\ e.sid = h.key
      BY DEF BySandboxId
    <3>3. Within(h, e.name)
      BY <1>0, <1>1, <3>2, RowById DEF Owned
    <3>4. Within(h, h.in.name)
      BY <1>0, <1>5 DEF Owned, LoadForUpdate, At
    <3>5. BuildUpdateSpec(e, h.in).name \in {e.name, h.in.name}
      BY DEF BuildUpdateSpec, BuildSpec
    <3> HIDE DEF g
    <3>6. Owned(g)
      BY <1>0, <1>1, <3>1, <3>3, <3>4, <3>5, Phases DEF Owned, Within, SearchPcs
    <3> QED
      BY <1>1, <2>1, <3>1, <3>6, ControlInv DEF g
  <2> QED
    BY <1>5, <1>a, <2>1 DEF LoadForUpdate
<1>6. CASE CheckName(r)
  BY <1>6, <1>a, <1>2 DEF CheckName, SpecPcs
<1>7. CASE Lookup(r)
  <2>1. CASE Goto(r, "insert")
    BY <1>7, <1>2, <2>1 DEF Lookup, SpecPcs
  <2>2. CASE ~Goto(r, "insert") /\ ~Finish(r)
    <3>1. PICK e \in BySandboxId(h.key), pc \in {"replace", "probe"} :
             Become(r, [h EXCEPT !.ent = e, !.pc = pc])
      BY <1>7, <2>2 DEF Lookup
    <3>2. e \in Rows /\ e.sid = h.key
      BY DEF BySandboxId
    <3>3. h.pc \in SpecPcs
      BY <1>7 DEF Lookup, SpecPcs
    <3> QED
      BY <1>3, <3>1, <3>2, <3>3, Phases
  <2> QED
    BY <1>a, <2>1, <2>2
<1>8. CASE Find(r)
  <2>1. CASE ~Finish(r)
    <3>1. PICK e \in BySandboxIdOrName(h.key), pc \in {"deleting", "act", "readToken", "sync"} :
             Become(r, [h EXCEPT !.ent = e, !.pc = pc])
      BY <1>8, <2>1 DEF Find
    <3>2. e \in Rows /\ (e.sid = h.key \/ e.name = h.key)
      BY DEF BySandboxIdOrName
    <3> QED
      BY <1>3, <3>1, <3>2, Phases
  <2> QED
    BY <1>a, <2>1
<1> QED
  BY <1>4, <1>5, <1>6, <1>7, <1>8

\* Choosing how many ports to lease leaves the entity, the spec and the footprint alone.
LEMMA AllocateKeeps ==
  ASSUME NEW h \in Handler
  PROVE  /\ Allocate(h).ent = h.ent /\ Allocate(h).in = h.in /\ Allocate(h).foot = h.foot
         /\ Allocate(h).pc \in {"lease2", "boot"}
<1>1. ASSUME NEW n
      PROVE  /\ Leasing(h, "lease2", n).ent = h.ent /\ Leasing(h, "lease2", n).in = h.in
             /\ Leasing(h, "lease2", n).foot = h.foot /\ Leasing(h, "lease2", n).pc = "lease2"
  BY DEF Leasing, Handler
<1>2. ASSUME NEW got
      PROVE  LET g == [h EXCEPT !.pc = "boot", !.got = got] IN
             g.ent = h.ent /\ g.in = h.in /\ g.foot = h.foot /\ g.pc = "boot"
  BY DEF Handler
<1> QED
  BY <1>1, <1>2 DEF Allocate

\* A handler that only moves on, or only changes the status of its entity.
LEMMA Moves ==
  ASSUME ExclusiveInv, NEW r \in Reqs, req[r].pc \in OwnerPcs
  PROVE  /\ req[r] \in Handler /\ HandlerOK(req[r]) /\ req[r].ent \in Entity
         /\ Within(req[r], req[r].ent.name)
         /\ Continues(req[r], Idle)
         /\ req[r].pc \in SpecPcs => Continues(req[r], Allocate(req[r]))
         /\ \A pc \in OwnerPcs \ {"lease1", "release", "dropRow"} :
              (pc \in SpecPcs => req[r].pc \in SpecPcs) => Continues(req[r], [req[r] EXCEPT !.pc = pc])
         /\ \A pc \in {"syncSave", "save", "remove"}, st \in Statuses :
              Continues(req[r], [req[r] EXCEPT !.pc = pc, !.ent = [req[r].ent EXCEPT !.status = st]])
<1> DEFINE h == req[r]
<1>0. h \in Handler /\ HandlerOK(h) /\ Owned(h) /\ h.ent \in Entity
  BY Phases DEF ExclusiveInv, TypeInv, TypeOK, HandlerOK
<1>1. Within(h, h.ent.name) /\ (h.pc \in SpecPcs => Within(h, h.in.name))
  BY <1>0, Phases DEF Owned
<1>2. Continues(h, Idle)
  BY DEF Continues
<1>3. h.pc \in SpecPcs => Continues(h, Allocate(h))
  BY <1>0, <1>1, AllocateKeeps, Phases DEF Continues
<1>4. ASSUME NEW pc \in OwnerPcs \ {"lease1", "release", "dropRow"}, pc \in SpecPcs => h.pc \in SpecPcs
      PROVE  Continues(h, [h EXCEPT !.pc = pc])
  <2> DEFINE g == [h EXCEPT !.pc = pc]
  <2>1. g.pc = pc /\ g.ent = h.ent /\ g.in = h.in /\ g.foot = h.foot
    BY <1>0 DEF Handler
  <2> HIDE DEF g
  <2>2. Continues(h, g)
    BY <1>1, <1>4, <2>1 DEF Continues
  <2> QED
    BY <2>2 DEF g
<1>5. ASSUME NEW pc \in {"syncSave", "save", "remove"}, NEW st \in Statuses
      PROVE  Continues(h, [h EXCEPT !.pc = pc, !.ent = [h.ent EXCEPT !.status = st]])
  <2> DEFINE e == [h.ent EXCEPT !.status = st]
             g == [h EXCEPT !.pc = pc, !.ent = e]
  <2>1. e.id = h.ent.id /\ e.sid = h.ent.sid /\ e.name = h.ent.name
    BY <1>0 DEF Entity
  <2> HIDE DEF e
  <2>2. g.pc = pc /\ g.ent = e /\ g.foot = h.foot
    BY <1>0 DEF Handler
  <2> HIDE DEF g
  <2>3. Continues(h, g)
    BY <1>1, <1>5, <2>1, <2>2, Phases DEF Continues
  <2> QED
    BY <2>3 DEF e, g
<1> QED
  BY <1>0, <1>1, <1>2, <1>3, <1>4, <1>5

\* The calls to microsandbox touch only the VM of the handler's own runtime.
LEMMA OwnVm ==
  ASSUME TypeInv, NEW s \in Sids,
         \/ UNCHANGED vms \/ vms' = Restarted(s) \/ (\E st : vms' = Halted(s, st))
         \/ \E v : vms' = [vms EXCEPT ![s] = v]
  PROVE  \A t \in Sids \ {s} : vms'[t] = vms[t]
  BY DEF TypeInv, TypeOK, Restarted, Halted

\* Steps of provision on the VM.
LEMMA ProvisionVmInv ==
  ASSUME ExclusiveInv, TypeInv', NEW r \in Reqs,
         Probe(r) \/ SyncFiles(r) \/ Leased(r) \/ Boot(r) \/ BootFails(r) \/ Health(r)
  PROVE  Keeps(r)
<1> DEFINE h == req[r]
           s == req[r].ent.sid
<1>0. h.pc \in OwnerPcs /\ h.pc \in SpecPcs /\ UNCHANGED <<rows, leases>>
  BY Phases DEF Probe, SyncFiles, Leased, Boot, BootFails, Health
<1>1. /\ h \in Handler /\ HandlerOK(h) /\ h.ent \in Entity /\ Within(h, h.ent.name)
      /\ Continues(h, Idle) /\ Continues(h, Allocate(h)) /\ Within(h, h.in.name)
  BY <1>0, Moves DEF Owned, ExclusiveInv
<1>2. s \in Sids /\ TypeInv
  BY <1>1 DEF Entity, ExclusiveInv
<1>3. ASSUME NEW pc \in {"syncFiles", "keep", "health"} PROVE Continues(h, [h EXCEPT !.pc = pc])
  BY <1>0, Moves, Phases
<1>4. ASSUME NEW g, Become(r, g), Continues(h, g), \A t \in Sids \ {s} : vms'[t] = vms[t]
      PROVE  Keeps(r)
  BY <1>0, <1>4, VmInv
<1>5. CASE Probe(r)
  BY <1>5, <1>1, <1>3, <1>4 DEF Probe, Goto
<1>6. CASE SyncFiles(r)
  <2>1. \A t \in Sids \ {s} : vms'[t] = vms[t]
    BY <1>2, <1>6, OwnVm DEF SyncFiles, Enter, Throws
  <2> QED
    BY <1>6, <2>1, <1>1, <1>3, <1>4 DEF SyncFiles, Goto, Finish
<1>7. CASE Leased(r)
  <2> DEFINE g == [h EXCEPT !.pc = "boot", !.got = h.ent.ports \o h.got, !.want = 0, !.scan = PortStart]
  <2>1. g.pc = "boot" /\ g.ent = h.ent /\ g.in = h.in /\ g.foot = h.foot
    BY <1>1 DEF Handler
  <2>2. Become(r, Allocate(h)) \/ Become(r, g)
    BY <1>7 DEF Leased
  <2>3. UNCHANGED vms
    BY <1>7 DEF Leased
  <2> HIDE DEF g
  <2>4. Continues(h, g)
    BY <1>1, <2>1, Phases DEF Continues
  <2> QED
    BY <1>1, <1>4, <2>2, <2>3, <2>4
<1>8. CASE Boot(r)
  <2>1. \A t \in Sids \ {s} : vms'[t] = vms[t]
    BY <1>2, <1>8, OwnVm DEF Boot
  <2> QED
    BY <1>8, <2>1, <1>3, <1>4 DEF Boot, Goto
<1>9. CASE BootFails(r)
  <2>1. \A t \in Sids \ {s} : vms'[t] = vms[t]
    BY <1>2, <1>9, OwnVm DEF BootFails
  <2> QED
    BY <1>9, <2>1, <1>1, <1>4 DEF BootFails, Finish
<1>10. CASE Health(r)
  <2>1. PICK ok \in BOOLEAN :
          Become(r, [h EXCEPT !.pc = "persist",
                       !.ent = [h.ent EXCEPT !.name = h.in.name, !.cfg = h.in.cfg, !.ctr = h.in.ctr, !.ports = h.got,
                                  !.ssh = h.in.ssh, !.status = IF ok THEN "running" ELSE "error"]])
    BY <1>10 DEF Health
  <2> DEFINE e == [h.ent EXCEPT !.name = h.in.name, !.cfg = h.in.cfg, !.ctr = h.in.ctr, !.ports = h.got,
                                  !.ssh = h.in.ssh, !.status = IF ok THEN "running" ELSE "error"]
             g == [h EXCEPT !.pc = "persist", !.ent = e]
  <2>2. e.id = h.ent.id /\ e.sid = h.ent.sid /\ e.name = h.in.name
    BY <1>1 DEF Entity
  <2> HIDE DEF e
  <2>3. g.pc = "persist" /\ g.ent = e /\ g.foot = h.foot
    BY <1>1 DEF Handler
  <2>4. Become(r, g)
    BY <2>1 DEF e
  <2>5. UNCHANGED vms
    BY <1>10 DEF Health
  <2> HIDE DEF g
  <2>6. Continues(h, g)
    BY <1>1, <2>2, <2>3, Phases DEF Continues
  <2> QED
    BY <1>4, <2>4, <2>5, <2>6
<1> QED
  BY <1>5, <1>6, <1>7, <1>8, <1>9, <1>10

\* Steps of the other routes on the VM.
LEMMA CommandVmInv ==
  ASSUME ExclusiveInv, TypeInv', NEW r \in Reqs, SyncStatus(r) \/ Start(r) \/ Stop(r) \/ Exec(r)
  PROVE  Keeps(r)
<1> DEFINE h == req[r]
           s == req[r].ent.sid
<1>0. h.pc \in OwnerPcs /\ UNCHANGED <<rows, leases>>
  BY Phases DEF SyncStatus, Start, Stop, Exec, At
<1>1. h \in Handler /\ h.ent \in Entity /\ Continues(h, Idle)
  BY <1>0, Moves
<1>2. s \in Sids /\ TypeInv
  BY <1>1 DEF Entity, ExclusiveInv
<1>3. ASSUME NEW pc \in {"act", "save"} PROVE Continues(h, [h EXCEPT !.pc = pc])
  BY <1>0, Moves, Phases
<1>4. ASSUME NEW pc \in {"syncSave", "save"}, NEW st \in Statuses
      PROVE  Continues(h, [h EXCEPT !.pc = pc, !.ent = [h.ent EXCEPT !.status = st]])
  BY <1>0, Moves
<1>5. ASSUME NEW g, Become(r, g), Continues(h, g), \A t \in Sids \ {s} : vms'[t] = vms[t]
      PROVE  Keeps(r)
  BY <1>0, <1>5, VmInv
<1>6. CASE SyncStatus(r)
  <2>2. PICK st \in {NormalizeStatus(t) : t \in Seen(s)} :
          UNCHANGED vms /\ Become(r, IF st = h.ent.status THEN AfterSync(h, st)
               ELSE [h EXCEPT !.pc = "syncSave", !.ent = [h.ent EXCEPT !.status = st]])
    BY <1>6 DEF SyncStatus
  <2>1. st \in Statuses
    BY <1>2 DEF NormalizeStatus, Seen, TypeInv, TypeOK, Vm, Statuses
  <2>3. Continues(h, AfterSync(h, st))
    BY <1>1, <1>3 DEF AfterSync
  <2>4. Continues(h, [h EXCEPT !.pc = "syncSave", !.ent = [h.ent EXCEPT !.status = st]])
    BY <1>4, <2>1
  <2> QED
    BY <1>5, <2>2, <2>3, <2>4
<1>7. CASE Start(r)
  <2>1. \A t \in Sids \ {s} : vms'[t] = vms[t]
    BY <1>2, <1>7, OwnVm DEF Start, Throws
  <2>2. Continues(h, [h EXCEPT !.pc = "save", !.ent = [h.ent EXCEPT !.status = "running"]])
    BY <1>4 DEF Statuses
  <2>3. \/ Become(r, Idle)
        \/ Become(r, [h EXCEPT !.pc = "save", !.ent = [h.ent EXCEPT !.status = "running"]])
    BY <1>7 DEF Start, Finish
  <2> QED
    BY <2>1, <2>2, <2>3, <1>1, <1>5
<1>8. CASE Stop(r)
  <2>1. \A t \in Sids \ {s} : vms'[t] = vms[t]
    BY <1>2, <1>8, OwnVm DEF Stop, Throws
  <2>2. Continues(h, [h EXCEPT !.pc = "save", !.ent = [h.ent EXCEPT !.status = "stopped"]])
    BY <1>4 DEF Statuses
  <2>3. \/ Become(r, Idle)
        \/ Become(r, [h EXCEPT !.pc = "save", !.ent = [h.ent EXCEPT !.status = "stopped"]])
    BY <1>8 DEF Stop, Finish
  <2> QED
    BY <2>1, <2>2, <2>3, <1>1, <1>5
<1>9. CASE Exec(r)
  <2>1. \A t \in Sids \ {s} : vms'[t] = vms[t]
    BY <1>2, <1>9, OwnVm DEF Exec, Enter, Throws
  <2> QED
    BY <1>9, <2>1, <1>1, <1>3, <1>5 DEF Exec, Goto, Finish
<1> QED
  BY <1>6, <1>7, <1>8, <1>9

\* The saves of entities that handlers hold.
LEMMA SavesInv ==
  ASSUME ExclusiveInv, TypeInv', NEW r \in Reqs,
         KeepExisting(r) \/ Replace(r) \/ Persist(r) \/ SyncSave(r) \/ SaveStatus(r) \/ MarkDeleting(r)
  PROVE  Keeps(r)
<1> DEFINE h == req[r]
<1>0. h.pc \in OwnerPcs /\ UNCHANGED <<leases, vms>>
  BY Phases DEF KeepExisting, Replace, Persist, SyncSave, SaveStatus, MarkDeleting
<1>1. /\ h \in Handler /\ HandlerOK(h) /\ h.ent \in Entity /\ Within(h, h.ent.name)
      /\ Continues(h, Idle) /\ (h.pc \in SpecPcs => Within(h, h.in.name))
  BY <1>0, Moves DEF Owned, ExclusiveInv
<1>2. ASSUME NEW g, SaveThen(r, h.ent, g), Continues(h, g)
      PROVE  Keeps(r)
  BY <1>0, <1>1, <1>2, SaveInv
<1>3. CASE KeepExisting(r)
  <2> DEFINE e == [h.ent EXCEPT !.name = h.in.name, !.status = "running"]
  <2>1. h.in \in SpecType /\ Within(h, h.in.name)
    BY <1>1, <1>3, Phases DEF KeepExisting, HandlerOK
  <2>2. e \in Entity /\ e.id = h.ent.id /\ e.sid = h.ent.sid /\ e.name = h.in.name
    BY <1>1, <2>1 DEF Entity, SpecType, Statuses
  <2>3. SaveThen(r, e, Idle)
    BY <1>3 DEF KeepExisting
  <2> HIDE DEF e
  <2> QED
    BY <1>0, <1>1, <2>1, <2>2, <2>3, SaveInv
<1>4. CASE Replace(r)
  <2> DEFINE e == [h.ent EXCEPT !.name = h.in.name, !.cfg = h.in.cfg, !.status = "provisioning"]
             g == [h EXCEPT !.ent = e]
  <2>1. h.in \in SpecType /\ Within(h, h.in.name)
    BY <1>1, <1>4, Phases DEF Replace, HandlerOK
  <2>2. e \in Entity /\ e.id = h.ent.id /\ e.sid = h.ent.sid /\ e.name = h.in.name
    BY <1>1, <2>1 DEF Entity, SpecType, Statuses
  <2>3. SaveThen(r, e, Allocate(g))
    BY <1>4 DEF Replace
  <2> HIDE DEF e
  <2>4. g \in Handler /\ g.ent = e /\ g.in = h.in /\ g.foot = h.foot
    BY <1>1, <2>2 DEF Handler
  <2> HIDE DEF g
  <2>5. Continues(h, Allocate(g))
    BY <2>1, <2>2, <2>4, AllocateKeeps, Phases DEF Continues
  <2> QED
    BY <1>0, <2>1, <2>2, <2>3, <2>5, SaveInv
<1>5. CASE Persist(r)
  BY <1>1, <1>2, <1>5 DEF Persist
<1>6. CASE SyncSave(r)
  <2>1. Continues(h, [h EXCEPT !.pc = "act"])
    BY <1>0, Moves, Phases
  <2>2. Continues(h, AfterSync(h, h.ent.status))
    BY <1>1, <2>1 DEF AfterSync
  <2> QED
    BY <1>2, <1>6, <2>2 DEF SyncSave
<1>7. CASE SaveStatus(r)
  BY <1>1, <1>2, <1>7 DEF SaveStatus
<1>8. CASE MarkDeleting(r)
  <2> DEFINE e == [h.ent EXCEPT !.status = "deleting"]
  <2>1. e \in Entity /\ e.id = h.ent.id /\ e.sid = h.ent.sid /\ e.name = h.ent.name
    BY <1>1 DEF Entity, Statuses
  <2>2. SaveThen(r, e, [h EXCEPT !.pc = "remove", !.ent = e])
    BY <1>8 DEF MarkDeleting
  <2>3. Continues(h, [h EXCEPT !.pc = "remove", !.ent = e])
    BY <1>0, Moves DEF Statuses
  <2> HIDE DEF e
  <2> QED
    BY <1>0, <1>1, <2>1, <2>2, <2>3, SaveInv
<1> QED
  BY <1>3, <1>4, <1>5, <1>6, <1>7, <1>8

\* The insert: a fresh id, and no VM under a sandboxId that no row has.
LEMMA InsertInv ==
  ASSUME ExclusiveInv, TypeInv', NEW r \in Reqs, Insert(r)
  PROVE  Keeps(r)
<1> DEFINE h == req[r]
           e == [id |-> NewId, sid |-> h.key, name |-> h.in.name, cfg |-> h.in.cfg,
                 ctr |-> <<>>, ports |-> <<>>, ssh |-> "none", status |-> "provisioning"]
           k == [h EXCEPT !.ent = e]
           g == Leasing(k, "lease1", Len(h.in.ctr))
<1>0. /\ h \in Handler /\ HandlerOK(h) /\ Owned(h) /\ TypeInv /\ h.pc = "insert"
      /\ UNCHANGED <<leases, vms>>
  BY DEF ExclusiveInv, TypeInv, TypeOK, Insert
<1>1. NewId \in Ids /\ Fresh(NewId)
  BY DEF Insert, NewId
<1>2. h.key \in h.foot /\ h.key \in Sids /\ Within(h, h.in.name)
  BY <1>0, NamesAssumption DEF HandlerOK, Owned, SpecPcs, Handler
<1>3. e.id = NewId /\ e.sid = h.key /\ e.name = h.in.name
  OBVIOUS
<1>4. SaveThen(r, e, g)
  BY DEF Insert
<1>5. e # NoRow
  <2>1. h.in \in SpecType
    BY <1>0 DEF HandlerOK, SpecPcs
  <2>2. e \in Entity
    BY <1>1, <1>2, <2>1 DEF Entity, SpecType, SshKinds, Statuses
  <2> QED
    BY <2>2, NullsAssumption
<1> HIDE DEF e
<1>6. k.ent = e /\ k.in = h.in /\ k.foot = h.foot /\ DOMAIN k = DOMAIN h
  BY <1>0 DEF Handler
<1>7. g.pc = "lease1" /\ g.ent = e /\ g.in = h.in /\ g.foot = h.foot
  <2>1. k = [op |-> k.op, pc |-> k.pc, key |-> k.key, in |-> k.in, ent |-> k.ent, want |-> k.want,
             got |-> k.got, scan |-> k.scan, foot |-> k.foot]
    BY <1>0 DEF Handler
  <2> HIDE DEF k
  <2> QED
    BY <1>6, <2>1 DEF Leasing
<1> HIDE DEF k, g
<1>a. CASE Finish(r) /\ UNCHANGED rows
  BY <1>a, <1>0, FinishInv
<1>b. CASE Savable(e) /\ rows' = [rows EXCEPT ![e.id] = e] /\ Become(r, g)
  <2>1. req'[r] = g /\ \A q \in Reqs \ {r} : req'[q] = req[q]
    BY <1>b DEF Become, ExclusiveInv, TypeInv, TypeOK
  <2>2. rows'[NewId] = e /\ \A i \in Ids \ {NewId} : rows'[i] = rows[i]
    BY <1>b, <1>1, <1>3 DEF ExclusiveInv, TypeInv, TypeOK
  <2>3. MayMiss \/ vms[h.key].st = "absent"
    <3>1. \A i \in Ids : rows[i] # NoRow => rows[i].sid # h.key
      BY <1>b, <1>1, <1>3 DEF Savable, Fresh
    <3> QED
      BY <3>1, <1>2, OrphanVm DEF ExclusiveInv
  <2>4. OnlyOwn(r)
    BY <1>0, <1>1, <1>2, <1>3, <1>7, <2>1, <2>2 DEF OnlyOwn, Fresh
  <2>5. Owned(req[r])'
    <3>1. "lease1" \notin SearchPcs
      BY DEF SearchPcs
    <3> QED
      BY <1>0, <1>1, <1>2, <1>3, <1>5, <1>7, <2>1, <2>2, <2>3, <3>1 DEF Owned, Within
  <2>6. NoOrphanLease'
    BY <1>0, <1>1, <2>2 DEF ExclusiveInv, NoOrphanLease, TypeInv, TypeOK, Fresh
  <2>7. VmsAccounted'
    <3>1. MayMiss \/ \A s \in Sids : vms'[s].st # "absent" => \E i \in Ids : rows'[i] # NoRow /\ rows'[i].sid = s
      BY <1>0, <1>1, <2>2, OrphanVm DEF ExclusiveInv, Fresh
    <3> QED
      BY <3>1 DEF VmsAccounted, NoOrphanVm, BySandboxId, Rows
  <2> QED
    BY <2>4, <2>5, <2>6, <2>7, StepInv
<1> QED
  BY <1>4, <1>a, <1>b DEF SaveThen

\* A handler that owns its row and changes its own leases, and nothing else.
LEMMA LeaseInv ==
  ASSUME ExclusiveInv, TypeInv', NEW r \in Reqs, NEW g, Become(r, g), Owned(req[r])', req[r].pc \in OwnerPcs,
         g.foot \subseteq req[r].foot, UNCHANGED <<rows, vms>>,
         \A p \in Ports : leases'[p] \in {leases[p], NoId, req[r].ent.id}
  PROVE  Keeps(r)
<1>0. Owned(req[r]) /\ TypeInv
  BY DEF ExclusiveInv
<1>1. req'[r] = g /\ \A q \in Reqs \ {r} : req'[q] = req[q]
  BY DEF Become, ExclusiveInv, TypeInv, TypeOK
<1>2. OnlyOwn(r)
  BY <1>1 DEF OnlyOwn
<1>3. NoOrphanLease'
  BY <1>0 DEF ExclusiveInv, NoOrphanLease, Owned
<1>4. VmsAccounted'
  BY DEF ExclusiveInv, VmsAccounted, NoOrphanVm, BySandboxId, Rows
<1> QED
  BY <1>2, <1>3, <1>4, StepInv

\* leasePorts' loop and its failure.
LEMMA LeasePortsInv ==
  ASSUME ExclusiveInv, TypeInv', NEW r \in Reqs, TryPort(r) \/ LeaseShort(r)
  PROVE  Keeps(r)
<1> DEFINE h == req[r]
<1>0. /\ h \in Handler /\ HandlerOK(h) /\ Owned(h) /\ TypeInv /\ h.pc \in {"lease1", "lease2"}
      /\ UNCHANGED <<rows, vms>>
  BY DEF ExclusiveInv, TypeInv, TypeOK, TryPort, LeaseShort
<1>1. h.pc \in OwnerPcs /\ h.ent \in Entity
  BY <1>0, Phases DEF HandlerOK
<1>2. CASE TryPort(r)
  <2>1. \A p \in Ports : leases'[p] \in {leases[p], h.ent.id}
    BY <1>0, <1>2 DEF TryPort, TypeInv, TypeOK
  <2>2. PICK got, scan : Become(r, [h EXCEPT !.got = got, !.scan = scan])
    <3>1. CASE Become(r, [h EXCEPT !.got = Append(h.got, h.scan), !.scan = h.scan + 1])
      BY <3>1
    <3>2. CASE Become(r, [h EXCEPT !.scan = h.scan + 1])
      <4>1. [h EXCEPT !.scan = h.scan + 1] = [h EXCEPT !.got = h.got, !.scan = h.scan + 1]
        BY <1>0 DEF Handler
      <4> QED
        BY <3>2, <4>1
    <3> QED
      BY <1>2, <3>1, <3>2 DEF TryPort
  <2> DEFINE g == [h EXCEPT !.got = got, !.scan = scan]
  <2>3. g.pc = h.pc /\ g.ent = h.ent /\ g.in = h.in /\ g.foot = h.foot /\ g.key = h.key
    BY <1>0 DEF Handler
  <2>4. Become(r, g) /\ req'[r] = g
    BY <1>0, <2>2 DEF Become, TypeInv, TypeOK
  <2> HIDE DEF g
  <2>5. Owned(req[r])'
    BY <1>0, <2>1, <2>3, <2>4 DEF Owned, Within
  <2> QED
    BY <1>0, <1>1, <2>1, <2>3, <2>4, <2>5, LeaseInv
<1>3. CASE LeaseShort(r)
  <2>1. \A p \in Ports : leases'[p] \in {leases[p], NoId} /\ leases'[p] # h.ent.id
    BY <1>0, <1>1, <1>3, NullsAssumption DEF LeaseShort, Unlease, Entity
  <2>2. CASE Finish(r)
    <3>1. Owned(req[r])'
      BY <1>0, <2>2, IdleOwned, Phases DEF Finish, Become, Owned, TypeInv, TypeOK
    <3> QED
      BY <1>0, <1>1, <2>1, <2>2, <3>1, IdleOwned, LeaseInv DEF Finish
  <2>3. CASE h.pc = "lease1" /\ Become(r, Leasing(h, "dropRow", 0))
    <3> DEFINE g == Leasing(h, "dropRow", 0)
    <3>1. g.pc = "dropRow" /\ g.ent = h.ent /\ g.foot = h.foot
      BY <1>0 DEF Handler, Leasing
    <3>2. Become(r, g) /\ req'[r] = g
      BY <1>0, <2>3 DEF Become, TypeInv, TypeOK
    <3> HIDE DEF g
    <3>3. "dropRow" \notin SearchPcs
      BY DEF SearchPcs
    <3>4. Owned(req[r])'
      BY <1>0, <1>1, <2>1, <2>3, <3>1, <3>2, <3>3, Phases DEF Owned, Within
    <3> QED
      BY <1>0, <1>1, <2>1, <3>1, <3>2, <3>4, LeaseInv
  <2> QED
    BY <1>3, <2>2, <2>3 DEF LeaseShort
<1> QED
  BY <1>2, <1>3

\* Taking a sandbox apart: the VM, the leases, the row, the leases again.
LEMMA DeleteInv ==
  ASSUME ExclusiveInv, TypeInv', NEW r \in Reqs,
         Remove(r) \/ ReleasePorts(r) \/ DropRow(r) \/ DropLeases(r)
  PROVE  Keeps(r)
<1> DEFINE h == req[r]
           to(pc) == [h EXCEPT !.pc = pc]
<1>0. h \in Handler /\ HandlerOK(h) /\ Owned(h) /\ TypeInv /\ h.pc \in EntPcs /\ h.ent \in Entity
  BY Phases DEF ExclusiveInv, TypeInv, TypeOK, Remove, ReleasePorts, DropRow, DropLeases, HandlerOK
<1>1. \A pc : to(pc).pc = pc /\ to(pc).ent = h.ent /\ to(pc).foot = h.foot
  BY <1>0 DEF Handler
<1>3. {"release", "dropRow", "dropLeases", "dropTokens"} \cap SearchPcs = {}
  BY DEF SearchPcs
<1>4. CASE Remove(r)
  <2>0. h.pc \in OwnerPcs /\ UNCHANGED <<rows, leases>> /\ h.ent.sid \in Sids
    BY <1>0, <1>4, Phases DEF Remove, Entity
  <2>a. \A t \in Sids \ {h.ent.sid} : vms'[t] = vms[t]
    BY <1>0, <1>4, <2>0, OwnVm DEF Remove
  <2>1. CASE Finish(r)
    BY <2>0, <2>a, <2>1, Moves, VmInv DEF Finish
  <2>2. CASE /\ vms' = [vms EXCEPT ![h.ent.sid] = NoVm] \/ ("absent" \in Seen(h.ent.sid) /\ UNCHANGED vms)
             /\ Goto(r, "release")
    <3>1. req'[r] = to("release") /\ \A q \in Reqs \ {r} : req'[q] = req[q]
      BY <2>2 DEF Goto, Become, ExclusiveInv, TypeInv, TypeOK
    <3>2. MayMiss \/ vms'[h.ent.sid].st = "absent"
      BY <1>0, <2>0, <2>2 DEF TypeInv, TypeOK, NoVm, Seen
    <3> HIDE DEF to
    <3>3. OnlyOwn(r)
      BY <1>0, <1>1, <2>0, <2>a, <3>1 DEF OnlyOwn, Owned
    <3>4. Owned(req[r])'
      BY <1>0, <1>1, <1>3, <2>0, <3>1, <3>2, Phases DEF Owned, Within
    <3>5. NoOrphanLease'
      BY <2>0 DEF ExclusiveInv, NoOrphanLease
    <3>6. VmsAccounted'
      <4>1. MayMiss \/ \A s \in Sids : vms'[s].st # "absent" => \E i \in Ids : rows[i] # NoRow /\ rows[i].sid = s
        BY <2>a, <3>2, OrphanVm DEF ExclusiveInv
      <4> QED
        BY <2>0, <4>1 DEF VmsAccounted, NoOrphanVm, BySandboxId, Rows
    <3> QED
      BY <3>3, <3>4, <3>5, <3>6, StepInv
  <2> QED
    BY <1>4, <2>1, <2>2 DEF Remove
<1>5. CASE ReleasePorts(r)
  <2>0. h.pc \in OwnerPcs /\ h.pc = "release" /\ UNCHANGED <<rows, vms>> /\ Become(r, to("dropRow"))
    BY <1>0, <1>5, Phases DEF ReleasePorts, Goto
  <2>1. \A p \in Ports : leases'[p] \in {leases[p], NoId} /\ leases'[p] # h.ent.id
    BY <1>0, <1>5, NullsAssumption DEF ReleasePorts, Unlease, Entity
  <2>2. req'[r] = to("dropRow")
    BY <1>0, <2>0 DEF Become, TypeInv, TypeOK
  <2> HIDE DEF to
  <2>3. Owned(req[r])'
    BY <1>0, <1>1, <1>3, <2>0, <2>1, <2>2, Phases DEF Owned, Within
  <2> QED
    BY <1>1, <2>0, <2>1, <2>3, LeaseInv
<1>6. CASE DropRow(r)
  <2>0. h.pc = "dropRow" /\ UNCHANGED <<leases, vms>> /\ h.pc \in OwnerPcs /\ h.ent.id \in Ids
    BY <1>0, <1>6, Phases DEF DropRow, Entity
  <2>1. req'[r] = to("dropLeases") /\ \A q \in Reqs \ {r} : req'[q] = req[q]
    BY <1>6 DEF DropRow, Goto, Become, ExclusiveInv, TypeInv, TypeOK
  <2>2. rows'[h.ent.id] = NoRow /\ \A i \in Ids \ {h.ent.id} : rows'[i] = rows[i]
    BY <1>0, <1>6, <2>0 DEF DropRow, TypeInv, TypeOK
  <2>3. /\ MayMiss \/ vms[h.ent.sid].st = "absent"
        /\ rows[h.ent.id] # NoRow /\ rows[h.ent.id].sid = h.ent.sid
        /\ h.ent.sid \in h.foot /\ \A p \in Ports : leases[p] # h.ent.id
    BY <1>0, <2>0 DEF Owned
  <2> HIDE DEF to
  <2>4. OnlyOwn(r)
    BY <1>1, <2>0, <2>1, <2>2, <2>3 DEF OnlyOwn
  <2>5. Owned(req[r])'
    BY <1>0, <1>1, <1>3, <2>0, <2>1, <2>2, <2>3, Phases DEF Owned, Within
  <2>6. NoOrphanLease'
    BY <2>0, <2>2, <2>3, <1>0 DEF ExclusiveInv, NoOrphanLease, TypeInv, TypeOK
  <2>7. VmsAccounted'
    <3>1. MayMiss \/ \A s \in Sids : vms[s].st # "absent" => \E i \in Ids : rows'[i] # NoRow /\ rows'[i].sid = s
      BY <2>2, <2>3, OrphanVm DEF ExclusiveInv
    <3> QED
      BY <2>0, <3>1 DEF VmsAccounted, NoOrphanVm, BySandboxId, Rows
  <2> QED
    BY <2>4, <2>5, <2>6, <2>7, StepInv
<1>7. CASE DropLeases(r)
  <2>1. /\ h.pc = "dropLeases" /\ Become(r, to("dropTokens")) /\ UNCHANGED <<rows, vms>>
        /\ \A p \in Ports : leases[p] # h.ent.id
    BY <1>0, <1>7 DEF DropLeases, Goto, Owned
  <2>2. leases' = leases
    BY <1>0, <1>7, <2>1 DEF DropLeases, Unlease, TypeInv, TypeOK
  <2> HIDE DEF to
  <2>3. Owned(to("dropTokens"))
    BY <1>0, <1>1, <1>3, <2>1, Phases DEF Owned, Within
  <2> QED
    BY <1>1, <2>1, <2>2, <2>3, ControlInv
<1> QED
  BY <1>4, <1>5, <1>6, <1>7

\* The calls on the preview tokens touch nothing a handler owns.
LEMMA TokenCallInv ==
  ASSUME ExclusiveInv, TypeInv', NEW r \in Reqs, TokenCall(r)
  PROVE  Keeps(r)
<1>0. UNCHANGED <<rows, leases, vms>>
  BY DEF TokenCall
<1>1. CASE Finish(r)
  BY <1>0, <1>1, FinishInv
<1>2. ASSUME NEW pc \in {"issue", "expireToken"}, Goto(r, pc), req[r].pc \in {"act", "readToken"}
      PROVE  Keeps(r)
  <2>1. Continues(req[r], [req[r] EXCEPT !.pc = pc])
    BY <1>2, Moves, Phases
  <2> QED
    BY <1>0, <1>2, <2>1, VmInv, Phases DEF Goto
<1> QED
  BY <1>1, <1>2 DEF TokenCall, At

\* Nothing is owned, leased or running at the start.
LEMMA InitInv == Init => ExclusiveInv
<1> SUFFICES ASSUME Init PROVE ExclusiveInv
  OBVIOUS
<1>1. TypeInv
  BY InitType
<1>2. \A r \in Reqs : req[r] = Idle
  BY DEF Init
<1>3. Separate /\ \A r \in Reqs : Owned(req[r])
  BY <1>2, IdleOwned DEF Separate
<1>4. NoOrphanLease /\ VmsAccounted
  BY DEF Init, NoOrphanLease, VmsAccounted, NoOrphanVm, NoVm
<1> QED
  BY <1>1, <1>3, <1>4 DEF ExclusiveInv

\* A step of a handler touches only what it owns.
LEMMA StepKeeps ==
  ASSUME ExclusiveInv, NEW r \in Reqs, Step(r)
  PROVE  Keeps(r)
<1>0. TypeInv'
  <2>1. [Next]_vars
    BY DEF Next
  <2> QED
    BY <2>1, NextType DEF ExclusiveInv
<1>1. CASE Provision(r)
  BY <1>0, <1>1, SearchInv, ProvisionVmInv, SavesInv, InsertInv, LeasePortsInv DEF Provision
<1>2. CASE Command(r)
  BY <1>0, <1>2, SearchInv, CommandVmInv, SavesInv, DeleteInv DEF Command
<1>3. CASE TokenCall(r)
  BY <1>0, <1>3, TokenCallInv
<1> QED
  BY <1>1, <1>2, <1>3 DEF Step

\* Every step keeps ownership.
LEMMA NextInv == Exclusive /\ ExclusiveInv /\ [Next]_vars => ExclusiveInv'
<1> SUFFICES ASSUME Exclusive, ExclusiveInv, [Next]_vars PROVE ExclusiveInv'
  OBVIOUS
<1>0. TypeInv' /\ TypeInv
  BY NextType DEF ExclusiveInv
<1>1. ASSUME NEW r \in Reqs, Accept(r) PROVE ExclusiveInv'
  BY <1>0, <1>1, AcceptInv
<1>2. ASSUME NEW r \in Reqs, Step(r) PROVE ExclusiveInv'
  BY <1>2, StepKeeps DEF Keeps
<1>4. ASSUME NEW s \in Sids, VmStops(s) PROVE ExclusiveInv'
  <2>1. UNCHANGED <<rows, leases, req>> /\ vms[s].st # "absent" /\ \A t \in Sids \ {s} : vms'[t] = vms[t]
    BY <1>0, <1>4, OwnVm DEF VmStops
  <2>2. \A t \in Sids : vms[t].st = "absent" => vms'[t].st = "absent"
    BY <2>1
  <2>3. \A r \in Reqs : req[r].pc \in {"lease1", "release", "dropRow"} => req[r].ent.sid \in Sids
    BY <1>0, Phases DEF TypeInv, HandlerOK, Entity
  <2>4. \A r \in Reqs : Owned(req[r])'
    BY <2>1, <2>2, <2>3 DEF ExclusiveInv, Owned, Within
  <2>5. VmsAccounted'
    BY <2>1, <2>2 DEF ExclusiveInv, VmsAccounted, NoOrphanVm, BySandboxId, Rows
  <2>6. NoOrphanLease' /\ Separate'
    BY <2>1 DEF ExclusiveInv, NoOrphanLease, Separate
  <2> QED
    BY <1>0, <2>4, <2>5, <2>6 DEF ExclusiveInv
<1>5. CASE Crash
  <2>1. UNCHANGED <<rows, leases, vms>> /\ \A r \in Reqs : req'[r] = Idle
    BY <1>5 DEF Crash
  <2>2. \A r \in Reqs : Owned(req[r])'
    BY <2>1, IdleOwned, Phases DEF Owned, Within
  <2>3. NoOrphanLease' /\ VmsAccounted' /\ Separate'
    BY <2>1, IdleOwned DEF ExclusiveInv, NoOrphanLease, VmsAccounted, NoOrphanVm, BySandboxId, Rows, Separate
  <2> QED
    BY <1>0, <2>2, <2>3 DEF ExclusiveInv
<1>6. CASE UNCHANGED vars
  BY <1>0, <1>6 DEF vars, ExclusiveInv, Owned, Within, Separate, NoOrphanLease, VmsAccounted, NoOrphanVm, BySandboxId, Rows
<1> QED
  BY <1>1, <1>2, <1>4, <1>5, <1>6 DEF Next

\* The handlers of a server whose clients serialise their requests own what they work
\* on, whatever fails and whenever the process is restarted.
THEOREM Ownership == Exclusive => (Spec => []ExclusiveInv)
<1> SUFFICES ASSUME Exclusive PROVE Spec => []ExclusiveInv
  OBVIOUS
<1>1. ExclusiveInv /\ [Next]_vars => ExclusiveInv'
  BY NextInv
<1> QED
  BY InitInv, <1>1, PTL DEF Spec

\* Under the same condition no lease outlives its runtime, so no port of the range is
\* lost (leasePorts, releasePorts, deleteRuntime).
THEOREM LeaseAccounting == Exclusive => (Spec => []NoOrphanLease)
<1>1. ExclusiveInv => NoOrphanLease
  BY DEF ExclusiveInv
<1> QED
  BY <1>1, Ownership, PTL

\* Under the same condition no VM outlives its row (provision, delete), as long as
\* Sandbox.get finds the VMs that exist.
THEOREM VmAccounting == Exclusive /\ ~MayMiss => (Spec => []NoOrphanVm)
<1> SUFFICES ASSUME Exclusive, ~MayMiss PROVE Spec => []NoOrphanVm
  OBVIOUS
<1>1. ExclusiveInv => NoOrphanVm
  BY DEF ExclusiveInv, VmsAccounted
<1> QED
  BY <1>1, Ownership, PTL

\* What one step does to the table: only Insert fills an empty id.
LEMMA AddsRows ==
  ASSUME ExclusiveInv, [Next]_vars, NEW i \in Ids, rows[i] = NoRow, rows'[i] # NoRow
  PROVE  \E r \in Reqs : req[r].pc = "insert" /\ req'[r].pc = "lease1"
<1>0. TypeInv
  BY DEF ExclusiveInv
<1>1. PICK r \in Reqs : rows' # rows /\ Step(r)
  BY DEF Next, vars, VmStops, Crash, Accept, AcceptCreate, AcceptEnsure, AcceptUpdate, AcceptCommand, Admit
<1> DEFINE h == req[r]
<1>2. h \in Handler /\ HandlerOK(h) /\ Owned(h)
  BY <1>0 DEF ExclusiveInv, TypeInv, TypeOK
<1>3. ASSUME NEW e, NEW g, SaveThen(r, e, g), e.id = h.ent.id, h.pc \in OwnerPcs PROVE FALSE
  BY <1>0, <1>1, <1>2, <1>3 DEF SaveThen, Owned, TypeInv, TypeOK
<1>4. ASSUME h.pc \in OwnerPcs PROVE h.ent \in Entity
  BY <1>2, <1>4, Phases DEF HandlerOK
<1>5. CASE KeepExisting(r)
  <2>1. h.pc \in OwnerPcs
    BY <1>5, Phases DEF KeepExisting
  <2>2. [h.ent EXCEPT !.name = h.in.name, !.status = "running"].id = h.ent.id
    BY <1>4, <2>1 DEF Entity
  <2> QED
    BY <1>3, <1>5, <2>1, <2>2 DEF KeepExisting
<1>6. CASE Replace(r)
  <2>1. h.pc \in OwnerPcs
    BY <1>6, Phases DEF Replace
  <2>2. [h.ent EXCEPT !.name = h.in.name, !.cfg = h.in.cfg, !.status = "provisioning"].id = h.ent.id
    BY <1>4, <2>1 DEF Entity
  <2> QED
    BY <1>3, <1>6, <2>1, <2>2 DEF Replace
<1>7. CASE Persist(r) \/ SyncSave(r) \/ SaveStatus(r)
  BY <1>3, <1>7, Phases DEF Persist, SyncSave, SaveStatus
<1>8. CASE MarkDeleting(r)
  <2>1. h.pc \in OwnerPcs
    BY <1>8, Phases DEF MarkDeleting
  <2>2. [h.ent EXCEPT !.status = "deleting"].id = h.ent.id
    BY <1>4, <2>1 DEF Entity
  <2> QED
    BY <1>3, <1>8, <2>1, <2>2 DEF MarkDeleting
<1>9. CASE DropRow(r)
  <2>1. h.ent.id \in Ids
    BY <1>4, <1>9, Phases DEF DropRow, Entity
  <2> QED
    BY <1>0, <1>9, <2>1 DEF DropRow, TypeInv, TypeOK
<1>10. CASE Insert(r)
  <2> DEFINE e == [id |-> NewId, sid |-> h.key, name |-> h.in.name, cfg |-> h.in.cfg,
                   ctr |-> <<>>, ports |-> <<>>, ssh |-> "none", status |-> "provisioning"]
             k == [h EXCEPT !.ent = e]
             g == Leasing(k, "lease1", Len(h.in.ctr))
  <2>1. h.pc = "insert" /\ Become(r, g)
    BY <1>1, <1>10 DEF Insert, SaveThen
  <2>2. k = [op |-> h.op, pc |-> h.pc, key |-> h.key, in |-> h.in, ent |-> k.ent, want |-> h.want,
             got |-> h.got, scan |-> h.scan, foot |-> h.foot]
    BY <1>2 DEF Handler
  <2>3. g.pc = "lease1"
    <3> HIDE DEF k
    <3> QED
      BY <2>2 DEF Leasing
  <2> HIDE DEF g
  <2> QED
    BY <1>0, <2>1, <2>3 DEF Become, TypeInv, TypeOK
<1>11. CASE UNCHANGED rows
  BY <1>1, <1>11
<1>12. ASSUME Provision(r) PROVE \/ KeepExisting(r) \/ Replace(r) \/ Persist(r) \/ Insert(r) \/ UNCHANGED rows
  BY <1>12 DEF Provision, CheckConflict, LoadForUpdate, CheckName, Lookup, Probe, SyncFiles, TryPort, Leased,
               LeaseShort, Boot, BootFails, Health
<1>13. ASSUME Command(r) PROVE SyncSave(r) \/ SaveStatus(r) \/ MarkDeleting(r) \/ DropRow(r) \/ UNCHANGED rows
  BY <1>13 DEF Command, Find, SyncStatus, Start, Stop, Exec, Remove, ReleasePorts, DropLeases
<1> QED
  BY <1>1, <1>5, <1>6, <1>7, <1>8, <1>9, <1>10, <1>11, <1>12, <1>13 DEF Step, TokenCall

\* Under the same condition no save of an entity read earlier brings a deleted runtime
\* back (updateRuntime is an upsert).
THEOREM NoResurrection == Exclusive => (Spec => OnlyInsertAddsRows)
<1> DEFINE A == \A i \in Ids : rows[i] = NoRow /\ rows'[i] # NoRow =>
                  \E r \in Reqs : req[r].pc = "insert" /\ req'[r].pc = "lease1"
<1>1. ExclusiveInv /\ [Next]_vars => [A]_vars
  BY AddsRows
<1>2. OnlyInsertAddsRows <=> [][A]_vars
  BY DEF OnlyInsertAddsRows
<1> HIDE DEF A
<1> QED
  BY <1>1, <1>2, Ownership, PTL DEF Spec
=============================================================================
