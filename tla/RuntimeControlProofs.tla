------------------------ MODULE RuntimeControlProofs ------------------------
(***************************************************************************)
(* Theorems about RuntimeControl for every value of its constants.         *)
(***************************************************************************)
EXTENDS RuntimeControl, TLAPS

--------------------------------------------------------------------------------
(* Types of the operators the handlers are built from. *)

\* An idle slot is a well-formed handler.
LEMMA IdleType == Idle \in Handler /\ HandlerOK(Idle)
  BY PortsAssumption DEF Idle, Handler, HandlerOK, AllOps, Pcs, SpecPcs, SearchPcs, EntPcs

\* A list of container ports that is not empty, and such a list with port 22 behind it.
LEMMA PortLists ==
  /\ \A l \in PortList : l \in Seq(Nat) /\ Len(l) \in Nat \ {0}
  /\ \A l \in PortList : Append(l, SshPort) \in PortList
<1>1. \A l \in PortList : l \in Seq(Nat) /\ Len(l) \in Nat \ {0}
  BY DEF PortList
<1>2. ASSUME NEW l \in PortList PROVE Append(l, SshPort) \in PortList
  <2>1. SshPort \in Nat
    BY DEF SshPort
  <2>2. Append(l, SshPort) \in Seq(Nat) /\ Len(Append(l, SshPort)) = Len(l) + 1
    BY <2>1, <1>1
  <2> QED
    BY <2>2, <1>1 DEF PortList
<1> QED
  BY <1>1, <1>2

\* buildSpec yields a spec from a body of create or ensure.
LEMMA BuildSpecType ==
  ASSUME NEW i \in InputType
  PROVE  BuildSpec(i) \in SpecType
<1> DEFINE list == ResolvePorts(i.apps)
<1>1. i.apps \in Seq(Nat) /\ i.name \in NameOrNone /\ i.cfg \in Configs /\ i.force \in BOOLEAN
  BY DEF InputType
<1>2. list \in PortList
  <2>1. CASE i.apps = <<>>
    <3>1. <<DefaultPort>> \in Seq(Nat) /\ Len(<<DefaultPort>>) = 1
      BY DEF DefaultPort
    <3> QED
      BY <2>1, <3>1 DEF ResolvePorts, PortList
  <2>2. CASE i.apps # <<>>
    <3>1. Len(i.apps) > 0
      BY <1>1, <2>2
    <3> QED
      BY <1>1, <2>2, <3>1 DEF ResolvePorts, PortList
  <2> QED
    BY <2>1, <2>2
<1> DEFINE ctr == IF i.ssh /\ ~Lists22(list) THEN Append(list, SshPort) ELSE list
           ssh == IF ~i.ssh THEN "none" ELSE IF Lists22(list) THEN "listed" ELSE "pushed"
<1>3. ctr \in PortList
  BY <1>2, PortLists
<1>4. ssh \in SshKinds
  BY DEF SshKinds
<1>5. BuildSpec(i) = [name |-> i.name, cfg |-> i.cfg, force |-> i.force, ctr |-> ctr, ssh |-> ssh]
  BY DEF BuildSpec
<1> HIDE DEF ctr, ssh
<1> QED
  BY <1>1, <1>3, <1>4, <1>5 DEF SpecType

\* buildUpdateInput and buildSpec yield a spec from a row and a body of update.
LEMMA BuildUpdateSpecType ==
  ASSUME NEW e \in Entity, NEW u \in PatchType
  PROVE  BuildUpdateSpec(e, u) \in SpecType
<1> DEFINE name == IF u.name = NoName THEN e.name ELSE u.name
           cfg  == IF u.cfg = Keep THEN e.cfg ELSE u.cfg
           apps == IF u.apps = <<>> THEN e.ctr ELSE u.apps
<1>1. name \in NameOrNone /\ cfg \in Configs /\ apps \in Seq(Nat) /\ u.force \in BOOLEAN
  BY DEF PatchType, Entity
<1>2. BuildUpdateSpec(e, u)
        = BuildSpec([name |-> name, cfg |-> cfg, apps |-> apps, ssh |-> TRUE, force |-> u.force])
  BY DEF BuildUpdateSpec
<1> HIDE DEF name, cfg, apps
<1>3. [name |-> name, cfg |-> cfg, apps |-> apps, ssh |-> TRUE, force |-> u.force] \in InputType
  BY <1>1 DEF InputType
<1> QED
  BY <1>2, <1>3, BuildSpecType

\* A handler that starts leasing is well formed.
LEMMA LeasingType ==
  ASSUME NEW h \in Handler, NEW pc \in {"lease1", "lease2", "dropRow"}, NEW count \in Nat,
         h.ent \in Entity, h.in \in SpecType
  PROVE  Leasing(h, pc, count) \in Handler /\ HandlerOK(Leasing(h, pc, count))
<1> DEFINE g == [h EXCEPT !.pc = pc, !.want = count]
<1>a. g \in Handler
  BY DEF Handler, Pcs
<1>b. <<>> \in Seq(Ports)
  OBVIOUS
<1> HIDE DEF g
<1>c. [g EXCEPT !.got = <<>>, !.scan = PortStart] \in Handler
  BY <1>a, <1>b, PortsAssumption DEF Handler
<1>1. Leasing(h, pc, count) \in Handler
  BY <1>c DEF Leasing, g
<1>2. /\ Leasing(h, pc, count).pc = pc /\ Leasing(h, pc, count).scan = PortStart
      /\ Leasing(h, pc, count).ent = h.ent /\ Leasing(h, pc, count).in = h.in
  BY DEF Leasing, Handler
<1> QED
  BY <1>1, <1>2, PortsAssumption DEF HandlerOK, Pcs, SpecPcs, SearchPcs, EntPcs

\* A handler that allocates ports is well formed.
LEMMA AllocateType ==
  ASSUME NEW h \in Handler, h.ent \in Entity, h.in \in SpecType, h.scan >= PortStart
  PROVE  Allocate(h) \in Handler /\ HandlerOK(Allocate(h))
<1> DEFINE n == Len(h.in.ctr)
           ps == h.ent.ports
<1>1. n \in Nat \ {0} /\ ps \in Seq(Ports) /\ Len(ps) \in Nat
  BY PortLists DEF SpecType, Entity
<1>2. CASE ps = <<>>
  BY <1>1, <1>2, LeasingType DEF Allocate
<1>3. CASE ps # <<>> /\ n > Len(ps)
  <2>1. n - Len(ps) \in Nat
    BY <1>1, <1>3
  <2> QED
    BY <1>3, <2>1, LeasingType DEF Allocate
<1>4. CASE ps # <<>> /\ ~(n > Len(ps))
  <2>1. SubSeq(ps, 1, n) \in Seq(Ports)
    BY <1>1, <1>4
  <2>2. Allocate(h) = [h EXCEPT !.pc = "boot", !.got = SubSeq(ps, 1, n)]
    BY <1>4 DEF Allocate
  <2> HIDE DEF n, ps
  <2> QED
    BY <2>1, <2>2 DEF Handler, HandlerOK, Pcs, SpecPcs, SearchPcs, EntPcs
<1> QED
  BY <1>2, <1>3, <1>4

\* A VM that is started is still a VM.
LEMMA RestartedType ==
  ASSUME TypeInv, NEW s \in Sids
  PROVE  Restarted(s) \in [Sids -> Vm]
<1> DEFINE up == vms[s].st = "running" /\ vms[s].sshd
<1>1. vms[s] \in Vm /\ up \in BOOLEAN
  BY DEF TypeInv, TypeOK, Vm
<1> HIDE DEF up
<1>2. [vms[s] EXCEPT !.st = "running", !.sshd = up] \in Vm
  BY <1>1 DEF Vm
<1> QED
  BY <1>2 DEF Restarted, TypeInv, TypeOK, up

\* A VM that is halted is still a VM.
LEMMA HaltedType ==
  ASSUME TypeInv, NEW s \in Sids, NEW st \in {"stopped", "draining"}
  PROVE  Halted(s, st) \in [Sids -> Vm]
<1>1. vms[s] \in Vm
  BY DEF TypeInv, TypeOK
<1>2. [vms[s] EXCEPT !.st = st, !.sshd = FALSE] \in Vm
  BY <1>1 DEF Vm
<1> QED
  BY <1>2 DEF Halted, TypeInv, TypeOK

\* The footprint of a request is a set of sandboxIds and names.
LEMMA FootprintType ==
  ASSUME TypeInv, NEW ks, ks \subseteq Sids \cup {NoName}
  PROVE  Footprint(ks) \subseteq Sids /\ \A k \in ks : k # NoName => k \in Footprint(ks)
  BY NamesAssumption DEF TypeInv, TypeOK, Footprint, Rows, Entity, NameOrNone

--------------------------------------------------------------------------------
(* Type correctness. *)

\* The initial state is typed.
LEMMA InitType == Init => TypeInv
<1> SUFFICES ASSUME Init PROVE TypeInv
  OBVIOUS
<1>1. req \in [Reqs -> Handler] /\ \A r \in Reqs : HandlerOK(req[r])
  BY IdleType DEF Init
<1>2. vms \in [Sids -> Vm]
  BY DEF Init, NoVm, Vm
<1>3. rows \in [Ids -> Entity \cup {NoRow}] /\ leases \in [Ports -> Ids \cup {NoId}]
  BY DEF Init
<1> QED
  BY <1>1, <1>2, <1>3 DEF TypeInv, TypeOK, Init

ReqInv == req \in [Reqs -> Handler] /\ \A r \in Reqs : HandlerOK(req[r])

\* A handler that moves to a well-formed state keeps req typed.
LEMMA BecomeType ==
  ASSUME TypeInv, NEW r \in Reqs, NEW h \in Handler, HandlerOK(h), Become(r, h)
  PROVE  ReqInv'
  BY DEF TypeInv, TypeOK, Become, ReqInv

\* A handler that ends keeps req typed.
LEMMA FinishType ==
  ASSUME TypeInv, NEW r \in Reqs, Finish(r)
  PROVE  ReqInv'
  BY IdleType, BecomeType DEF Finish

\* So does one that only moves to its next await.
LEMMA GotoType ==
  ASSUME TypeInv, NEW r \in Reqs, NEW pc \in Pcs, Goto(r, pc),
         pc \in SpecPcs => req[r].in \in SpecType,
         pc = "load" => req[r].in \in PatchType,
         pc \in SearchPcs \cup {"insert"} => req[r].key \in req[r].foot,
         pc \in EntPcs => req[r].ent \in Entity,
         pc # "idle"
  PROVE  ReqInv'
<1> DEFINE h == [req[r] EXCEPT !.pc = pc]
<1>1. h \in Handler
  BY DEF TypeInv, TypeOK, Handler
<1>2. HandlerOK(h)
  BY DEF TypeInv, TypeOK, Handler, HandlerOK
<1> QED
  BY <1>1, <1>2, BecomeType DEF Goto

\* save keeps the runtime table typed.
LEMMA SaveType ==
  ASSUME TypeInv, NEW r \in Reqs, NEW e \in Entity, NEW h \in Handler, HandlerOK(h),
         SaveThen(r, e, h), UNCHANGED <<leases, vms>>
  PROVE  TypeInv'
<1>1. ReqInv'
  BY BecomeType, FinishType DEF SaveThen
<1>2. rows' \in [Ids -> Entity \cup {NoRow}] /\ \A i \in Ids : rows'[i] # NoRow => rows'[i].id = i
  BY DEF SaveThen, TypeInv, TypeOK, Entity
<1> QED
  BY <1>1, <1>2 DEF TypeInv, TypeOK, ReqInv

\* A step that leaves the tables and the VMs alone keeps the types if it keeps req typed.
LEMMA PureType ==
  ASSUME TypeInv, ReqInv', UNCHANGED <<rows, leases, vms>>
  PROVE  TypeInv'
  BY DEF TypeInv, TypeOK, ReqInv
\* Arrivals keep the types.
LEMMA AdmitType ==
  ASSUME TypeInv, NEW r \in Reqs, NEW op \in AllOps, NEW pc \in SearchPcs, NEW key \in Sids,
         NEW in \in SpecType \cup PatchType \cup {NoSpec}, NEW name \in NameOrNone,
         pc \in SpecPcs => in \in SpecType, pc = "load" => in \in PatchType,
         Admit(r, op, pc, key, in, {key, name})
  PROVE  TypeInv'
<1> DEFINE F == Footprint({key, name})
           h == [Idle EXCEPT !.op = op, !.pc = pc, !.key = key, !.in = in, !.foot = F]
<1>1. F \subseteq Sids /\ key \in F
  BY FootprintType, NamesAssumption DEF NameOrNone
<1> HIDE DEF F
<1>2. h \in Handler
  BY <1>1, IdleType DEF Handler, SearchPcs, Pcs
<1>3. HandlerOK(h)
  BY <1>1, PortsAssumption DEF HandlerOK, Idle, SearchPcs, SpecPcs, EntPcs, Pcs
<1>4. ReqInv'
  BY <1>2, <1>3, BecomeType DEF Admit, F
<1> QED
  BY <1>4, PureType DEF Admit

\* The arrivals of the four kinds of request keep the types.
LEMMA AcceptType ==
  ASSUME TypeInv, NEW r \in Reqs, Accept(r)
  PROVE  TypeInv'
<1>1. CASE AcceptCreate(r)
  <2>1. PICK i \in Inputs, s \in Sids :
           Admit(r, "create", "conflict", s, BuildSpec([i EXCEPT !.force = FALSE]), {s, i.name})
    BY <1>1 DEF AcceptCreate
  <2>2. [i EXCEPT !.force = FALSE] \in InputType /\ i.name \in NameOrNone
    BY InputsAssumption DEF InputType
  <2> QED
    BY <2>1, <2>2, BuildSpecType, AdmitType DEF AllOps, SearchPcs
<1>2. CASE AcceptEnsure(r)
  <2>1. PICK i \in Inputs, s \in Sids : Admit(r, "ensure", "name", s, BuildSpec(i), {s, i.name})
    BY <1>2 DEF AcceptEnsure
  <2>2. i \in InputType /\ i.name \in NameOrNone
    BY InputsAssumption DEF InputType
  <2> QED
    BY <2>1, <2>2, BuildSpecType, AdmitType DEF AllOps, SearchPcs
<1>3. CASE AcceptUpdate(r)
  <2>1. PICK u \in Patches, s \in Sids : Admit(r, "update", "load", s, u, {s, u.name})
    BY <1>3 DEF AcceptUpdate
  <2>2. u \in PatchType /\ u.name \in NameOrNone
    BY InputsAssumption DEF PatchType
  <2> QED
    BY <2>1, <2>2, AdmitType DEF AllOps, SearchPcs, SpecPcs
<1>4. CASE AcceptCommand(r)
  <2>1. PICK op \in AllOps, k \in Sids : Admit(r, op, "find", k, NoSpec, {k})
    BY <1>4 DEF AcceptCommand, AllOps
  <2>2. Admit(r, op, "find", k, NoSpec, {k, NoName})
    <3>1. {k} \ {NoName} = {k, NoName} \ {NoName}
      OBVIOUS
    <3> QED
      BY <2>1, <3>1 DEF Admit, Footprint
  <2> QED
    BY <2>1, <2>2, AdmitType DEF SearchPcs, SpecPcs, NameOrNone
<1> QED
  BY <1>1, <1>2, <1>3, <1>4 DEF Accept
\* The steps of provision keep the types.
LEMMA ProvisionType ==
  ASSUME TypeInv, NEW r \in Reqs, Provision(r)
  PROVE  TypeInv'
<1> DEFINE h == req[r]
<1>0. h \in Handler /\ HandlerOK(h)
  BY DEF TypeInv, TypeOK
<1>1. CASE CheckConflict(r)
  <2>1. h.pc = "conflict" /\ UNCHANGED <<rows, leases, vms>> /\ (Finish(r) \/ Goto(r, "name"))
    BY <1>1 DEF CheckConflict, At
  <2>2. ReqInv'
    BY <1>0, <2>1, FinishType, GotoType DEF HandlerOK, SpecPcs, SearchPcs, EntPcs, Pcs
  <2> QED
    BY <2>1, <2>2, PureType
<1>2. CASE LoadForUpdate(r)
  <2>1. h.pc = "load" /\ UNCHANGED <<rows, leases, vms>>
    BY <1>2 DEF LoadForUpdate, At
  <2>2. ASSUME NEW e \in BySandboxId(h.key),
               Become(r, [h EXCEPT !.pc = "name", !.in = BuildUpdateSpec(e, h.in)])
        PROVE  ReqInv'
    <3>1. e \in Entity /\ h.in \in PatchType
      BY <1>0, <2>1 DEF BySandboxId, Rows, TypeInv, TypeOK, HandlerOK
    <3>2. BuildUpdateSpec(e, h.in) \in SpecType
      BY <3>1, BuildUpdateSpecType
    <3> DEFINE g == [h EXCEPT !.pc = "name", !.in = BuildUpdateSpec(e, h.in)]
    <3>3. g \in Handler /\ HandlerOK(g)
      BY <1>0, <2>1, <3>2 DEF Handler, HandlerOK, SpecPcs, SearchPcs, EntPcs, Pcs
    <3> QED
      BY <2>2, <3>3, BecomeType
  <2>3. ReqInv'
    BY <1>2, <2>2, FinishType DEF LoadForUpdate
  <2> QED
    BY <2>1, <2>3, PureType
<1>3. CASE CheckName(r)
  <2>1. h.pc = "name" /\ UNCHANGED <<rows, leases, vms>> /\ (Finish(r) \/ Goto(r, "lookup"))
    BY <1>3 DEF CheckName
  <2>2. ReqInv'
    BY <1>0, <2>1, FinishType, GotoType DEF HandlerOK, SpecPcs, SearchPcs, EntPcs, Pcs
  <2> QED
    BY <2>1, <2>2, PureType
<1>4. CASE Lookup(r)
  <2>1. h.pc = "lookup" /\ UNCHANGED <<rows, leases, vms>>
    BY <1>4 DEF Lookup
  <2>2. CASE Goto(r, "insert")
    <3>1. ReqInv'
      BY <1>0, <2>1, <2>2, GotoType DEF HandlerOK, SpecPcs, SearchPcs, EntPcs, Pcs
    <3> QED
      BY <2>1, <3>1, PureType
  <2>a. CASE Finish(r)
    BY <2>1, <2>a, FinishType, PureType
  <2>3. CASE ~Goto(r, "insert") /\ ~Finish(r)
    <3>1. PICK e \in BySandboxId(h.key), pc \in {"replace", "probe"} :
             Become(r, [h EXCEPT !.ent = e, !.pc = pc])
      BY <1>4, <2>3 DEF Lookup
    <3>2. e \in Entity
      BY DEF BySandboxId, Rows, TypeInv, TypeOK
    <3> DEFINE g == [h EXCEPT !.ent = e, !.pc = pc]
    <3>3. g \in Handler /\ HandlerOK(g)
      BY <1>0, <2>1, <3>2 DEF Handler, HandlerOK, SpecPcs, SearchPcs, EntPcs, Pcs
    <3> QED
      BY <2>1, <3>1, <3>3, BecomeType, PureType
  <2> QED
    BY <2>a, <2>2, <2>3
<1>5. CASE Probe(r)
  <2>1. /\ h.pc = "probe" /\ UNCHANGED <<rows, leases, vms>>
        /\ Goto(r, "syncFiles") \/ Goto(r, "keep") \/ Become(r, Allocate(h))
    BY <1>5 DEF Probe
  <2>2. h.ent \in Entity /\ h.in \in SpecType /\ h.scan >= PortStart
    BY <1>0, <2>1 DEF HandlerOK, SpecPcs, SearchPcs, EntPcs, Pcs
  <2>3. ReqInv'
    BY <1>0, <2>1, <2>2, GotoType, AllocateType, BecomeType DEF SearchPcs, Pcs
  <2> QED
    BY <2>1, <2>3, PureType
<1>6. CASE SyncFiles(r)
  <2>1. h.pc = "syncFiles" /\ (Finish(r) \/ Goto(r, "keep")) /\ UNCHANGED <<rows, leases>>
    BY <1>6 DEF SyncFiles
  <2>2. h.ent \in Entity /\ h.in \in SpecType
    BY <1>0, <2>1 DEF HandlerOK, SpecPcs, SearchPcs, EntPcs, Pcs
  <2>3. ReqInv'
    BY <2>1, <2>2, FinishType, GotoType DEF SearchPcs, Pcs
  <2>4. vms' \in [Sids -> Vm]
    <3>1. h.ent.sid \in Sids
      BY <2>2 DEF Entity
    <3>2. vms' = vms \/ vms' = Restarted(h.ent.sid)
      BY <1>6 DEF SyncFiles, Enter, Throws
    <3> QED
      BY <3>1, <3>2, RestartedType DEF TypeInv, TypeOK
  <2> QED
    BY <2>1, <2>3, <2>4 DEF TypeInv, TypeOK, ReqInv
<1>7. CASE KeepExisting(r)
  <2>1. h.ent \in Entity /\ h.in \in SpecType
    BY <1>0, <1>7 DEF KeepExisting, HandlerOK, SpecPcs, SearchPcs, EntPcs, Pcs
  <2>2. [h.ent EXCEPT !.name = h.in.name, !.status = "running"] \in Entity
    BY <2>1 DEF Entity, SpecType, Statuses
  <2> QED
    BY <1>7, <2>2, IdleType, SaveType DEF KeepExisting
<1>8. CASE Replace(r)
  <2> DEFINE e == [h.ent EXCEPT !.name = h.in.name, !.cfg = h.in.cfg, !.status = "provisioning"]
             g == [h EXCEPT !.ent = e]
  <2>1. h.ent \in Entity /\ h.in \in SpecType /\ h.scan >= PortStart
    BY <1>0, <1>8 DEF Replace, HandlerOK, SpecPcs, SearchPcs, EntPcs, Pcs
  <2>2. e \in Entity
    BY <2>1 DEF Entity, SpecType, Statuses
  <2>3. SaveThen(r, e, Allocate(g)) /\ UNCHANGED <<leases, vms>>
    BY <1>8 DEF Replace
  <2> HIDE DEF e
  <2>4. g \in Handler /\ g.ent = e /\ g.in \in SpecType /\ g.scan >= PortStart
    BY <1>0, <2>1, <2>2 DEF Handler
  <2> HIDE DEF g
  <2> QED
    BY <2>2, <2>3, <2>4, AllocateType, SaveType
<1>9. CASE Insert(r)
  <2> DEFINE e == [id |-> NewId, sid |-> h.key, name |-> h.in.name, cfg |-> h.in.cfg,
                   ctr |-> <<>>, ports |-> <<>>, ssh |-> "none", status |-> "provisioning"]
             g == [h EXCEPT !.ent = e]
  <2>1. h.in \in SpecType /\ h.key \in Sids
    BY <1>0, <1>9 DEF Insert, Handler, HandlerOK, SpecPcs, SearchPcs
  <2>2. NewId \in Ids
    BY <1>9 DEF Insert, NewId
  <2>3. e \in Entity
    <3>1. <<>> \in Seq(Nat) /\ <<>> \in Seq(Ports)
      OBVIOUS
    <3> QED
      BY <2>1, <2>2, <3>1 DEF Entity, SpecType, Statuses, SshKinds
  <2>4. SaveThen(r, e, Leasing(g, "lease1", Len(h.in.ctr))) /\ UNCHANGED <<leases, vms>>
    BY <1>9 DEF Insert
  <2> HIDE DEF e
  <2>5. g \in Handler /\ g.ent = e /\ g.in \in SpecType /\ Len(h.in.ctr) \in Nat
    BY <1>0, <2>1, <2>3, PortLists DEF Handler, SpecType
  <2> HIDE DEF g
  <2> QED
    BY <2>3, <2>4, <2>5, LeasingType, SaveType
<1>10. CASE TryPort(r)
  <2>1. h.ent \in Entity /\ h.in \in SpecType /\ h.scan \in Ports
    BY <1>0, <1>10, PortsAssumption
       DEF TryPort, Handler, HandlerOK, SpecPcs, SearchPcs, EntPcs, Pcs, Ports
  <2>2. leases' \in [Ports -> Ids \cup {NoId}]
    BY <1>10, <2>1 DEF TryPort, TypeInv, TypeOK, Entity
  <2>3. ReqInv'
    <3> DEFINE a == [h EXCEPT !.got = Append(h.got, h.scan), !.scan = h.scan + 1]
               b == [h EXCEPT !.scan = h.scan + 1]
    <3>1. Become(r, a) \/ Become(r, b)
      BY <1>10 DEF TryPort
    <3>2. Append(h.got, h.scan) \in Seq(Ports) /\ h.scan + 1 \in Nat /\ h.scan + 1 >= PortStart
      BY <1>0, <2>1, PortsAssumption DEF Handler, HandlerOK
    <3>3. a \in Handler /\ HandlerOK(a)
      BY <1>0, <3>2 DEF Handler, HandlerOK
    <3>4. b \in Handler /\ HandlerOK(b)
      BY <1>0, <3>2 DEF Handler, HandlerOK
    <3> QED
      BY <3>1, <3>3, <3>4, BecomeType
  <2> QED
    BY <1>10, <2>2, <2>3 DEF TryPort, TypeInv, TypeOK, ReqInv
<1>11. CASE Leased(r)
  <2> DEFINE g == [h EXCEPT !.pc = "boot", !.got = h.ent.ports \o h.got, !.want = 0, !.scan = PortStart]
  <2>1. h.ent \in Entity /\ h.in \in SpecType /\ h.scan >= PortStart
    BY <1>0, <1>11 DEF Leased, HandlerOK, SpecPcs, SearchPcs, EntPcs, Pcs
  <2>2. h.ent.ports \o h.got \in Seq(Ports)
    BY <1>0, <2>1 DEF Handler, Entity
  <2>3. g \in Handler /\ HandlerOK(g)
    <3> DEFINE f == [h EXCEPT !.pc = "boot", !.got = h.ent.ports \o h.got]
    <3>1. f \in Handler /\ f.pc = "boot" /\ f.ent = h.ent /\ f.in = h.in
      BY <1>0, <2>2 DEF Handler, Pcs
    <3> HIDE DEF f
    <3>2. [f EXCEPT !.want = 0, !.scan = PortStart] \in Handler
      BY <3>1, PortsAssumption DEF Handler
    <3>3. HandlerOK([f EXCEPT !.want = 0, !.scan = PortStart])
      BY <2>1, <3>1, PortsAssumption DEF Handler, HandlerOK, SpecPcs, SearchPcs, EntPcs, Pcs
    <3> QED
      BY <3>2, <3>3 DEF f
  <2>4. Become(r, Allocate(h)) \/ Become(r, g)
    BY <1>11 DEF Leased
  <2>5. ReqInv'
    BY <1>0, <2>1, <2>3, <2>4, AllocateType, BecomeType
  <2> QED
    BY <1>11, <2>5, PureType DEF Leased
<1>12. CASE LeaseShort(r)
  <2>1. h.ent \in Entity /\ h.in \in SpecType
    BY <1>0, <1>12 DEF LeaseShort, HandlerOK, SpecPcs, SearchPcs, EntPcs, Pcs
  <2>2. leases' \in [Ports -> Ids \cup {NoId}]
    BY <1>12 DEF LeaseShort, Unlease, TypeInv, TypeOK
  <2>3. Become(r, Leasing(h, "dropRow", 0)) \/ Finish(r)
    BY <1>12 DEF LeaseShort
  <2>4. ReqInv'
    BY <1>0, <2>1, <2>3, LeasingType, BecomeType, FinishType
  <2> QED
    BY <1>12, <2>2, <2>4 DEF LeaseShort, TypeInv, TypeOK, ReqInv
<1>13. CASE Boot(r)
  <2>1. h.ent \in Entity /\ h.in \in SpecType
    BY <1>0, <1>13 DEF Boot, HandlerOK, SpecPcs, SearchPcs, EntPcs, Pcs
  <2>2. ReqInv'
    BY <1>13, <2>1, GotoType DEF Boot, SearchPcs, Pcs
  <2>3. vms' \in [Sids -> Vm]
    <3>1. PICK up \in BOOLEAN :
            vms' = [vms EXCEPT ![h.ent.sid] = [st |-> "running", cfg |-> h.in.cfg, ctr |-> h.in.ctr,
                                               ports |-> h.got, sshd |-> up]]
      BY <1>13 DEF Boot
    <3> DEFINE v == [st |-> "running", cfg |-> h.in.cfg, ctr |-> h.in.ctr, ports |-> h.got, sshd |-> up]
    <3>2. v \in Vm
      BY <1>0, <2>1, <3>1, PortLists DEF Vm, SpecType, Handler
    <3> HIDE DEF v
    <3> QED
      BY <3>1, <3>2 DEF TypeInv, TypeOK, v
  <2> QED
    BY <1>13, <2>2, <2>3 DEF Boot, TypeInv, TypeOK, ReqInv
<1>14. CASE BootFails(r)
  <2>1. h.ent \in Entity /\ h.in \in SpecType
    BY <1>0, <1>14 DEF BootFails, HandlerOK, SpecPcs, SearchPcs, EntPcs, Pcs
  <2>2. ReqInv'
    BY <1>14, FinishType DEF BootFails
  <2>3. vms' \in [Sids -> Vm]
    <3> DEFINE v == [st |-> "running", cfg |-> h.in.cfg, ctr |-> h.in.ctr, ports |-> h.got, sshd |-> FALSE]
    <3>1. v \in Vm /\ NoVm \in Vm
      BY <1>0, <2>1, PortLists DEF Vm, NoVm, SpecType, Handler
    <3>2. vms' = vms \/ vms' = [vms EXCEPT ![h.ent.sid] = NoVm] \/ vms' = [vms EXCEPT ![h.ent.sid] = v]
      BY <1>14 DEF BootFails
    <3> QED
      BY <3>1, <3>2 DEF TypeInv, TypeOK
  <2> QED
    BY <1>14, <2>2, <2>3 DEF BootFails, TypeInv, TypeOK, ReqInv
<1>15. CASE Health(r)
  <2>1. h.ent \in Entity /\ h.in \in SpecType
    BY <1>0, <1>15 DEF Health, HandlerOK, SpecPcs, SearchPcs, EntPcs, Pcs
  <2>2. PICK st \in {"running", "error"} :
          Become(r, [h EXCEPT !.pc = "persist",
                       !.ent = [h.ent EXCEPT !.name = h.in.name, !.cfg = h.in.cfg, !.ctr = h.in.ctr, !.ports = h.got,
                                  !.ssh = h.in.ssh, !.status = st]])
    BY <1>15 DEF Health
  <2> DEFINE e == [h.ent EXCEPT !.name = h.in.name, !.cfg = h.in.cfg, !.ctr = h.in.ctr, !.ports = h.got,
                     !.ssh = h.in.ssh, !.status = st]
  <2>3. e \in Entity
    BY <1>0, <2>1, PortLists DEF Entity, SpecType, Statuses, Handler
  <2> HIDE DEF e
  <2> DEFINE g == [h EXCEPT !.pc = "persist", !.ent = e]
  <2>4. g \in Handler /\ HandlerOK(g)
    BY <1>0, <2>3 DEF Handler, HandlerOK, SpecPcs, SearchPcs, EntPcs, Pcs
  <2>5. ReqInv'
    BY <2>2, <2>4, BecomeType DEF e
  <2> QED
    BY <1>15, <2>5, PureType DEF Health
<1>16. CASE Persist(r)
  <2>1. h.ent \in Entity
    BY <1>0, <1>16 DEF Persist, HandlerOK, SearchPcs, EntPcs, Pcs
  <2> QED
    BY <1>16, <2>1, IdleType, SaveType DEF Persist
<1> QED
  BY <1>1, <1>2, <1>3, <1>4, <1>5, <1>6, <1>7, <1>8, <1>9, <1>10, <1>11, <1>12, <1>13, <1>14,
     <1>15, <1>16 DEF Provision
\* The steps of the other routes keep the types.
LEMMA CommandType ==
  ASSUME TypeInv, NEW r \in Reqs, Command(r)
  PROVE  TypeInv'
<1> DEFINE h == req[r]
           s == h.ent.sid
<1>0. h \in Handler /\ HandlerOK(h)
  BY DEF TypeInv, TypeOK
<1>a. h.pc \in EntPcs => h.ent \in Entity /\ s \in Sids
  BY <1>0 DEF HandlerOK, Entity
<1>b. ASSUME NEW pc \in EntPcs, Goto(r, pc), h.pc \in EntPcs, pc \notin SpecPcs
      PROVE  ReqInv'
  BY <1>a, <1>b, GotoType DEF EntPcs, SearchPcs, Pcs
<1>c. ASSUME NEW pc \in EntPcs, NEW e \in Entity, pc \notin SpecPcs
      PROVE  [h EXCEPT !.pc = pc, !.ent = e] \in Handler /\ HandlerOK([h EXCEPT !.pc = pc, !.ent = e])
  <2> DEFINE g == [h EXCEPT !.pc = pc, !.ent = e]
  <2>1. g \in Handler
    BY <1>0 DEF Handler, EntPcs
  <2>2. g.pc = pc /\ g.ent = e /\ g.scan = h.scan
    BY <1>0 DEF Handler
  <2> HIDE DEF g
  <2>3. HandlerOK(g)
    BY <1>0, <1>c, <2>2 DEF HandlerOK, SearchPcs, EntPcs
  <2> QED
    BY <2>1, <2>3 DEF g
<1>d. "syncSave" \in EntPcs \ SpecPcs /\ "save" \in EntPcs \ SpecPcs /\ "remove" \in EntPcs \ SpecPcs
  BY DEF EntPcs, SpecPcs, SearchPcs, Pcs
<1>1. CASE Find(r)
  <2>1. h.pc = "find" /\ UNCHANGED <<rows, leases, vms>>
    BY <1>1 DEF Find
  <2>2. CASE Finish(r)
    BY <2>1, <2>2, FinishType, PureType
  <2>3. CASE ~Finish(r)
    <3>1. PICK e \in BySandboxIdOrName(h.key), pc \in {"deleting", "act", "readToken", "sync"} :
             Become(r, [h EXCEPT !.ent = e, !.pc = pc])
      BY <1>1, <2>3 DEF Find
    <3>2. e \in Entity
      BY DEF BySandboxIdOrName, Rows, TypeInv, TypeOK
    <3> DEFINE g == [h EXCEPT !.ent = e, !.pc = pc]
    <3>3. g \in Handler /\ HandlerOK(g)
      BY <1>0, <2>1, <3>2 DEF Handler, HandlerOK, SpecPcs, SearchPcs, EntPcs, Pcs
    <3> QED
      BY <2>1, <3>1, <3>3, BecomeType, PureType
  <2> QED
    BY <2>2, <2>3
<1>2. CASE SyncStatus(r)
  <2>1. h.pc = "sync" /\ UNCHANGED <<rows, leases, vms>> /\ h.pc \in EntPcs
    BY <1>2 DEF SyncStatus, EntPcs, SearchPcs, Pcs
  <2>0. PICK st \in {NormalizeStatus(t) : t \in Seen(s)} :
           \/ Become(r, AfterSync(h, st))
           \/ Become(r, [h EXCEPT !.pc = "syncSave", !.ent = [h.ent EXCEPT !.status = st]])
    BY <1>2 DEF SyncStatus
  <2>2. st \in Statuses
    BY <1>a, <2>1 DEF NormalizeStatus, Seen, Statuses, TypeInv, TypeOK, Vm
  <2>3. \/ Become(r, AfterSync(h, st))
        \/ Become(r, [h EXCEPT !.pc = "syncSave", !.ent = [h.ent EXCEPT !.status = st]])
    BY <2>0
  <2>4. [h.ent EXCEPT !.status = st] \in Entity
    BY <1>a, <2>1, <2>2 DEF Entity
  <2>5. CASE Become(r, AfterSync(h, st))
    <3>1. Finish(r) \/ Goto(r, "act")
      BY <2>5 DEF AfterSync, Goto, Finish
    <3> QED
      BY <1>b, <2>1, <3>1, FinishType, PureType DEF EntPcs, SpecPcs, SearchPcs, Pcs
  <2>6. CASE Become(r, [h EXCEPT !.pc = "syncSave", !.ent = [h.ent EXCEPT !.status = st]])
    <3> DEFINE e == [h.ent EXCEPT !.status = st]
    <3>1. e \in Entity /\ Become(r, [h EXCEPT !.pc = "syncSave", !.ent = e])
      BY <2>4, <2>6
    <3> HIDE DEF e
    <3> QED
      BY <1>c, <1>d, <2>1, <3>1, BecomeType, PureType
  <2> QED
    BY <2>3, <2>5, <2>6
<1>3. CASE SyncSave(r)
  <2>1. h.pc = "syncSave" /\ h.ent \in Entity
    BY <1>a, <1>3 DEF SyncSave, EntPcs, SearchPcs, Pcs
  <2>2. AfterSync(h, h.ent.status) \in Handler /\ HandlerOK(AfterSync(h, h.ent.status))
    <3>1. [h EXCEPT !.pc = "act"] \in Handler /\ HandlerOK([h EXCEPT !.pc = "act"])
      BY <1>0, <2>1 DEF Handler, HandlerOK, SpecPcs, SearchPcs, EntPcs, Pcs
    <3> QED
      BY <3>1, IdleType DEF AfterSync
  <2> QED
    BY <1>3, <2>1, <2>2, SaveType DEF SyncSave
<1>4. CASE Start(r)
  <2>1. h.pc = "act" /\ h.pc \in EntPcs /\ UNCHANGED <<rows, leases>>
    BY <1>4 DEF Start, At, EntPcs, SearchPcs, Pcs
  <2>2. [h.ent EXCEPT !.status = "running"] \in Entity
    BY <1>a, <2>1 DEF Entity, Statuses
  <2>3. ReqInv'
    <3> DEFINE e == [h.ent EXCEPT !.status = "running"]
    <3>1. e \in Entity /\ (Finish(r) \/ Become(r, [h EXCEPT !.pc = "save", !.ent = e]))
      BY <1>4, <2>2 DEF Start
    <3> HIDE DEF e
    <3> QED
      BY <1>c, <1>d, <3>1, BecomeType, FinishType
  <2>4. vms' \in [Sids -> Vm]
    BY <1>4, <1>a, <2>1, RestartedType DEF Start, Throws, TypeInv, TypeOK
  <2> QED
    BY <2>1, <2>3, <2>4 DEF TypeInv, TypeOK, ReqInv
<1>5. CASE Stop(r)
  <2>1. h.pc = "act" /\ h.pc \in EntPcs /\ UNCHANGED <<rows, leases>>
    BY <1>5 DEF Stop, At, EntPcs, SearchPcs, Pcs
  <2>2. [h.ent EXCEPT !.status = "stopped"] \in Entity
    BY <1>a, <2>1 DEF Entity, Statuses
  <2>3. ReqInv'
    <3> DEFINE e == [h.ent EXCEPT !.status = "stopped"]
    <3>1. e \in Entity /\ (Finish(r) \/ Become(r, [h EXCEPT !.pc = "save", !.ent = e]))
      BY <1>5, <2>2 DEF Stop
    <3> HIDE DEF e
    <3> QED
      BY <1>c, <1>d, <3>1, BecomeType, FinishType
  <2>4. vms' \in [Sids -> Vm]
    BY <1>5, <1>a, <2>1, HaltedType DEF Stop, Throws, TypeInv, TypeOK
  <2> QED
    BY <2>1, <2>3, <2>4 DEF TypeInv, TypeOK, ReqInv
<1>6. CASE Exec(r)
  <2>1. h.pc = "act" /\ h.pc \in EntPcs /\ UNCHANGED <<rows, leases>>
    BY <1>6 DEF Exec, At, EntPcs, SearchPcs, Pcs
  <2>2. ReqInv'
    BY <1>6, <1>b, <2>1, FinishType DEF Exec, EntPcs, SpecPcs, SearchPcs, Pcs
  <2>3. vms' = vms \/ vms' = Restarted(s)
    BY <1>6 DEF Exec, Enter, Throws
  <2>4. vms' \in [Sids -> Vm]
    BY <1>a, <2>1, <2>3, RestartedType DEF TypeInv, TypeOK
  <2> QED
    BY <2>1, <2>2, <2>4 DEF TypeInv, TypeOK, ReqInv
<1>7. CASE SaveStatus(r)
  BY <1>7, <1>a, IdleType, SaveType DEF SaveStatus, EntPcs, SearchPcs, Pcs
<1>8. CASE MarkDeleting(r)
  <2> DEFINE e == [h.ent EXCEPT !.status = "deleting"]
             g == [h EXCEPT !.pc = "remove", !.ent = e]
  <2>1. h.ent \in Entity
    BY <1>a, <1>8 DEF MarkDeleting, EntPcs, SearchPcs, Pcs
  <2>2. e \in Entity
    BY <2>1 DEF Entity, Statuses
  <2>3. SaveThen(r, e, g) /\ UNCHANGED <<leases, vms>>
    BY <1>8 DEF MarkDeleting
  <2> HIDE DEF e
  <2>4. g \in Handler /\ HandlerOK(g)
    BY <1>c, <1>d, <2>2
  <2> QED
    BY <2>2, <2>3, <2>4, SaveType
<1>9. CASE Remove(r)
  <2>1. h.pc = "remove" /\ h.pc \in EntPcs /\ UNCHANGED <<rows, leases>>
    BY <1>9 DEF Remove, EntPcs, SearchPcs, Pcs
  <2>2. ReqInv'
    BY <1>9, <1>b, <2>1, FinishType DEF Remove, EntPcs, SpecPcs, SearchPcs, Pcs
  <2>3. NoVm \in Vm
    BY DEF NoVm, Vm
  <2>4. vms' \in [Sids -> Vm]
    BY <1>9, <1>a, <2>1, <2>3, HaltedType DEF Remove, TypeInv, TypeOK
  <2> QED
    BY <2>1, <2>2, <2>4 DEF TypeInv, TypeOK, ReqInv
<1>10. CASE ReleasePorts(r)
  <2>1. ReqInv'
    BY <1>10, <1>b DEF ReleasePorts, EntPcs, SpecPcs, SearchPcs, Pcs
  <2> QED
    BY <1>10, <2>1 DEF ReleasePorts, Unlease, TypeInv, TypeOK, ReqInv
<1>11. CASE DropRow(r)
  <2>1. ReqInv'
    BY <1>11, <1>b DEF DropRow, EntPcs, SpecPcs, SearchPcs, Pcs
  <2> QED
    BY <1>11, <2>1 DEF DropRow, TypeInv, TypeOK, ReqInv
<1>12. CASE DropLeases(r)
  <2>1. ReqInv'
    BY <1>12, <1>b DEF DropLeases, EntPcs, SpecPcs, SearchPcs, Pcs
  <2> QED
    BY <1>12, <2>1 DEF DropLeases, Unlease, TypeInv, TypeOK, ReqInv
<1> QED
  BY <1>1, <1>2, <1>3, <1>4, <1>5, <1>6, <1>7, <1>8, <1>9, <1>10, <1>11, <1>12 DEF Command

\* The calls on the preview tokens keep the types.
LEMMA TokenCallType ==
  ASSUME TypeInv, NEW r \in Reqs, TokenCall(r)
  PROVE  TypeInv'
<1> DEFINE h == req[r]
<1>0. h \in Handler /\ HandlerOK(h) /\ UNCHANGED <<rows, leases, vms>>
  BY DEF TypeInv, TypeOK, TokenCall
<1>1. CASE Finish(r)
  BY <1>0, <1>1, FinishType, PureType
<1>2. ASSUME NEW pc \in {"issue", "expireToken"}, Goto(r, pc), h.pc \in {"act", "readToken"} PROVE TypeInv'
  <2> DEFINE g == [h EXCEPT !.pc = pc]
  <2>1. g \in Handler /\ HandlerOK(g)
    BY <1>0, <1>2 DEF Handler, HandlerOK, SpecPcs, SearchPcs, EntPcs, Pcs
  <2>2. Become(r, g)
    BY <1>2 DEF Goto
  <2> HIDE DEF g
  <2> QED
    BY <1>0, <2>1, <2>2, BecomeType, PureType
<1> QED
  BY <1>1, <1>2 DEF TokenCall, At

\* Every step keeps the types.
LEMMA NextType == TypeInv /\ [Next]_vars => TypeInv'
<1> SUFFICES ASSUME TypeInv, [Next]_vars PROVE TypeInv'
  OBVIOUS
<1>1. ASSUME NEW r \in Reqs, Accept(r) \/ Step(r) PROVE TypeInv'
  BY <1>1, AcceptType, ProvisionType, CommandType, TokenCallType DEF Step
<1>2. ASSUME NEW s \in Sids, VmStops(s) PROVE TypeInv'
  BY <1>2, HaltedType DEF VmStops, TypeInv, TypeOK
<1>3. CASE Crash
  <2>1. ReqInv'
    BY <1>3, IdleType DEF Crash, ReqInv
  <2> QED
    BY <1>3, <2>1, PureType DEF Crash
<1>4. CASE UNCHANGED vars
  BY <1>4 DEF vars, TypeInv, TypeOK
<1> QED
  BY <1>1, <1>2, <1>3, <1>4 DEF Next

\* The tables, the VMs and every handler keep their types: in particular every host
\* port ever stored in a binding lies in the configured range.
THEOREM TypeCorrect == Spec => []TypeOK
<1>1. Spec => []TypeInv
  BY InitType, NextType, PTL DEF Spec
<1>2. TypeInv => TypeOK
  BY DEF TypeInv
<1> QED
  BY <1>1, <1>2, PTL
=============================================================================
