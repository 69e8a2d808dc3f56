---------------------------- MODULE RuntimeControl ----------------------------
(***************************************************************************)
(* The sandbox lifecycle of the cloud API: RuntimeControlService over the  *)
(* runtime table, the port-lease table (RuntimeRegistryService) and the    *)
(* microsandbox virtual machines (MicrosandboxAdapterService).             *)
(*                                                                         *)
(* Every HTTP request is a process.  Node runs a handler without           *)
(* interruption between two awaits, so an action is the code between two   *)
(* awaited database or microsandbox calls, the call included; handlers     *)
(* interleave at the awaits.  No handler takes a lock or opens a           *)
(* transaction.                                                            *)
(*                                                                         *)
(* Identifiers are already normalized (runtime-identity.service.ts):       *)
(* sandboxIds and names are drawn from one set, Sids.  A spec keeps what   *)
(* the control flow tells apart: `cfg' stands for image, command, env,     *)
(* secrets, workingDir, mounts and resources (written to the row before    *)
(* the sandbox is replaced), `ctr' for the container ports of the port     *)
(* list and `ssh' for how port 22 came into it (written only after it).    *)
(* portBindings are two lists of one length: `ctr' and, by index, `ports', *)
(* the host ports.                                                         *)
(***************************************************************************)
EXTENDS Integers, Sequences

CONSTANTS
  Sids,         \* normalized sandboxIds; a name is one of these too
  Names,        \* the ones clients use as names
  Ids,          \* runtime uuids
  Configs,      \* configurations of the guest
  PortStart,    \* config.portRangeStart
  PortEnd,      \* config.portRangeEnd
  Reqs,         \* request slots: how many handlers may be in flight
  Ops,          \* the routes clients call
  Inputs,       \* bodies of create and ensure
  Patches,      \* bodies of update; Keep and <<>> are absent fields
  NoRow, NoId, NoName, NoSpec, Keep,
  Exclusive,    \* clients never have two requests in flight for a sandbox
  MayFail,      \* microsandbox calls may throw
  MayMiss,      \* Sandbox.get may throw for a sandbox that exists
  MayCrash      \* the API process may die and be restarted

Ports     == PortStart .. PortEnd
Statuses  == {"provisioning", "running", "stopped", "draining", "deleting", "error"}
SshKinds  == {"none", "pushed", "listed"}
AllOps    == {"create", "ensure", "update", "get", "start", "stop", "delete", "exec", "refresh",
              "sign", "expire"}
NameOrNone == Names \cup {NoName}
PortList  == {l \in Seq(Nat) : Len(l) > 0}      \* container ports

InputType == [name : NameOrNone, cfg : Configs, apps : Seq(Nat), ssh : BOOLEAN, force : BOOLEAN]
PatchType == [name : NameOrNone, cfg : Configs \cup {Keep}, apps : Seq(Nat), force : BOOLEAN]

ASSUME PortsAssumption == PortStart \in Nat /\ PortEnd \in Nat
ASSUME NamesAssumption == Names \subseteq Sids /\ NoName \notin Sids
ASSUME InputsAssumption == Inputs \subseteq InputType /\ Patches \subseteq PatchType
ASSUME FlagsAssumption == {Exclusive, MayFail, MayMiss, MayCrash} \subseteq BOOLEAN /\ Ops \subseteq AllOps

\* A row of the runtimes table (RuntimeEntity), and an entity a handler holds.
Entity == [id : Ids, sid : Sids, name : NameOrNone, cfg : Configs,
           ctr : Seq(Nat), ports : Seq(Ports), ssh : SshKinds, status : Statuses]
\* RuntimeSpec, as buildSpec leaves it: no host ports yet.
SpecType == [name : NameOrNone, cfg : Configs, ctr : PortList, ssh : SshKinds, force : BOOLEAN]
\* A microsandbox virtual machine, one per sandboxName.
Vm == [st : {"absent", "running", "draining", "stopped"}, cfg : Configs \cup {Keep},
       ctr : Seq(Nat), ports : Seq(Ports), sshd : BOOLEAN]

ASSUME NullsAssumption == NoRow \notin Entity /\ NoId \notin Ids

VARIABLES
  rows,     \* the runtimes table, by id
  leases,   \* the port_leases table, by port: UNIQUE (runtimeHostId, port)
  vms,      \* the virtual machines, by sandboxId
  req       \* the handlers in flight

vars == <<rows, leases, vms, req>>

Pcs == {"idle", "conflict", "load", "name", "lookup", "insert", "lease1", "lease2", "probe",
        "syncFiles", "keep", "replace", "boot", "health", "persist", "find", "sync", "syncSave",
        "act", "save", "deleting", "remove", "release", "dropRow", "dropLeases", "dropTokens",
        "issue", "readToken", "expireToken"}

\* The local state of a handler: its route, the await it is at, its
\* sandboxId-or-name argument, its spec (or patch), the entity it holds, and
\* leasePorts' count, result and loop variable.
Handler == [op : AllOps, pc : Pcs, key : Sids \cup {NoName}, in : SpecType \cup PatchType \cup {NoSpec},
            ent : Entity \cup {NoRow}, want : Nat, got : Seq(Ports), scan : Nat,
            foot : SUBSET Sids]

Idle == [op |-> "get", pc |-> "idle", key |-> NoName, in |-> NoSpec, ent |-> NoRow,
         want |-> 0, got |-> <<>>, scan |-> PortStart, foot |-> {}]
NoVm == [st |-> "absent", cfg |-> Keep, ctr |-> <<>>, ports |-> <<>>, sshd |-> FALSE]

Init == /\ rows = [i \in Ids |-> NoRow]
        /\ leases = [p \in Ports |-> NoId]
        /\ vms = [s \in Sids |-> NoVm]
        /\ req = [r \in Reqs |-> Idle]

--------------------------------------------------------------------------------
(* The tables. *)

Rows == {rows[i] : i \in {j \in Ids : rows[j] # NoRow}}

\* findRuntimeBySandboxId
BySandboxId(s) == {e \in Rows : e.sid = s}
\* findRuntimeBySandboxIdOrName: where [{sandboxId}, {name}], findOne takes any
BySandboxIdOrName(k) == {e \in Rows : e.sid = k \/ e.name = k}

\* The UNIQUE columns sandboxId and name let the entity in; NULL names do not clash.
Savable(e) == \A i \in Ids \ {e.id} :
                rows[i] # NoRow => /\ rows[i].sid # e.sid
                                   /\ e.name = NoName \/ rows[i].name # e.name

\* A uuid nobody has seen; which one does not matter.
Fresh(i) == /\ rows[i] = NoRow
            /\ \A p \in Ports : leases[p] # i
            /\ \A q \in Reqs : req[q].ent # NoRow => req[q].ent.id # i
NewId == CHOOSE i \in Ids : Fresh(i)

Unlease(id) == leases' = [p \in Ports |-> IF leases[p] = id THEN NoId ELSE leases[p]]

--------------------------------------------------------------------------------
(* Steps of a handler. *)

At(r, op, pc) == req[r].op \in op /\ req[r].pc = pc
Become(r, h)  == req' = [req EXCEPT ![r] = h]
Goto(r, pc)   == Become(r, [req[r] EXCEPT !.pc = pc])
\* The response is sent, or the handler throws.
Finish(r)     == Become(r, Idle)

\* updateRuntime / saveRuntime: repository.save is an upsert by id, so it also
\* inserts a row that has been deleted since the entity was read.
SaveThen(r, e, h) ==
  \/ /\ Savable(e)
     /\ rows' = [rows EXCEPT ![e.id] = e]
     /\ Become(r, h)
  \/ /\ ~Savable(e)
     /\ Finish(r)
     /\ UNCHANGED rows

(* Arrival of a request. *)

\* The sandboxIds and names a request is about: those it gives, and those of the
\* rows they match.
Footprint(ks) ==
  LET given == ks \ {NoName}
      hit   == {e \in Rows : e.sid \in given \/ e.name \in given} IN
  (given \cup {e.sid : e \in hit} \cup {e.name : e \in hit}) \ {NoName}

Admit(r, op, pc, key, in, ks) ==
  /\ req[r].pc = "idle"
  /\ op \in Ops
  /\ Exclusive => \A q \in Reqs : req[q].pc = "idle" \/ req[q].foot \cap Footprint(ks) = {}
  /\ Become(r, [Idle EXCEPT !.op = op, !.pc = pc, !.key = key, !.in = in, !.foot = Footprint(ks)])
  /\ UNCHANGED <<rows, leases, vms>>

SshPort     == 22
DefaultPort == 8080       \* config.defaultExposedPort

\* resolvePorts, and buildSpec's push of port 22 behind a list that lacks it.
ResolvePorts(list) == IF list = <<>> THEN <<DefaultPort>> ELSE list
Lists22(list) == \E k \in DOMAIN list : list[k] = SshPort

BuildSpec(i) ==
  LET list == ResolvePorts(i.apps) IN
  [name |-> i.name, cfg |-> i.cfg, force |-> i.force,
   ctr |-> IF i.ssh /\ ~Lists22(list) THEN Append(list, SshPort) ELSE list,
   ssh |-> IF ~i.ssh THEN "none" ELSE IF Lists22(list) THEN "listed" ELSE "pushed"]

\* buildUpdateInput then buildSpec: absent fields come from the row, the port
\* list too; `ssh' is not carried over, so SSH is always on, and port 22 taken
\* from the row is a listed port.
BuildUpdateSpec(e, u) ==
  BuildSpec([name |-> IF u.name = NoName THEN e.name ELSE u.name,
             cfg |-> IF u.cfg = Keep THEN e.cfg ELSE u.cfg,
             apps |-> IF u.apps = <<>> THEN e.ctr ELSE u.apps,
             ssh |-> TRUE, force |-> u.force])

\* create: the name is checked, then becomes the sandboxId; without a name the
\* sandboxId is random (and so fresh), and forceRecreate is forced to false.
AcceptCreate(r) ==
  \E i \in Inputs, s \in Sids :
    /\ IF i.name # NoName THEN s = i.name
       ELSE /\ BySandboxIdOrName(s) = {} /\ vms[s].st = "absent"
            /\ \A q \in Reqs : s \notin req[q].foot
    /\ Admit(r, "create", "conflict", s, BuildSpec([i EXCEPT !.force = FALSE]), {s, i.name})

\* Mutant of CheckConflict: create skips its own name check.
CheckConflict_Skipped(r) ==
  /\ At(r, {"create"}, "conflict")
  /\ Goto(r, "name")
  /\ UNCHANGED <<rows, leases, vms>>

CheckConflict(r) ==
  /\ At(r, {"create"}, "conflict")
  /\ IF req[r].in.name # NoName /\ BySandboxIdOrName(req[r].in.name) # {}
     THEN Finish(r) ELSE Goto(r, "name")
  /\ UNCHANGED <<rows, leases, vms>>

\* ensure: sandboxId ?? name is the key.
AcceptEnsure(r) ==
  \E i \in Inputs, s \in Sids : Admit(r, "ensure", "name", s, BuildSpec(i), {s, i.name})

AcceptUpdate(r) ==
  \E u \in Patches, s \in Sids : Admit(r, "update", "load", s, u, {s, u.name})

LoadForUpdate(r) ==
  /\ At(r, {"update"}, "load")
  /\ \/ BySandboxId(req[r].key) = {} /\ Finish(r)
     \/ \E e \in BySandboxId(req[r].key) :
          Become(r, [req[r] EXCEPT !.pc = "name", !.in = BuildUpdateSpec(e, req[r].in)])
  /\ UNCHANGED <<rows, leases, vms>>

\* get, start, stop, delete, exec (and the file routes, which use the VM the
\* same way), refreshActivity, and signing and expiring a preview URL.
AcceptCommand(r) ==
  \E op \in {"get", "start", "stop", "delete", "exec", "refresh", "sign", "expire"}, k \in Sids :
    Admit(r, op, "find", k, NoSpec, {k})

--------------------------------------------------------------------------------
(* provision *)

CheckName(r) ==
  /\ req[r].pc = "name"
  /\ \/ /\ req[r].in.name = NoName \/ BySandboxIdOrName(req[r].in.name) = {}
        /\ Goto(r, "lookup")
     \/ \E e \in BySandboxIdOrName(req[r].in.name) :
          /\ req[r].in.name # NoName
          /\ IF e.sid # req[r].key THEN Finish(r) ELSE Goto(r, "lookup")
  /\ UNCHANGED <<rows, leases, vms>>

\* portBindingsEqual compares JSON text, in which a pushed port 22 has its keys in
\* another order than a listed one.
PortsDiffer(e, s) == e.ctr # s.ctr \/ (e.ssh = "pushed") # (s.ssh = "pushed")

\* Mutant of RequiresRecreate: a sandbox is replaced only when that is forced.
RequiresRecreate_Never(e, s) == FALSE

RequiresRecreate(e, s) ==
  \/ e.name # s.name
  \/ e.cfg # s.cfg
  \/ PortsDiffer(e, s)

\* The row of the sandboxId decides; buildSpec, in between, may refuse a mount.
Lookup(r) ==
  /\ req[r].pc = "lookup"
  /\ \/ Finish(r)
     \/ BySandboxId(req[r].key) = {} /\ Goto(r, "insert")
     \/ \E e \in BySandboxId(req[r].key) :
          Become(r, [req[r] EXCEPT !.ent = e,
                       !.pc = IF req[r].in.force \/ RequiresRecreate(e, req[r].in)
                              THEN "replace" ELSE "probe"])
  /\ UNCHANGED <<rows, leases, vms>>

\* leasePorts' locals at the start of a call for `count' more ports.
Leasing(h, pc, count) == [h EXCEPT !.pc = pc, !.want = count, !.got = <<>>, !.scan = PortStart]

\* Mutant of Allocate: a replaced sandbox is given new ports each time.
Allocate_Anew(h) == Leasing([h EXCEPT !.ent = [h.ent EXCEPT !.ports = <<>>]], "lease2", Len(h.in.ctr))

\* Which ports to lease before booting: all of them for a row without bindings,
\* the missing ones for a row with too few, none otherwise.
Allocate(h) ==
  IF h.ent.ports = <<>> THEN Leasing(h, "lease2", Len(h.in.ctr))
  ELSE IF Len(h.in.ctr) > Len(h.ent.ports) THEN Leasing(h, "lease2", Len(h.in.ctr) - Len(h.ent.ports))
  ELSE [h EXCEPT !.pc = "boot", !.got = SubSeq(h.ent.ports, 1, Len(h.in.ctr))]

\* isHealthy: a TCP connect can only succeed on a port some running VM publishes.
Publishing(p) == {s \in Sids : vms[s].st = "running" /\ \E k \in DOMAIN vms[s].ports : vms[s].ports[k] = p}

\* The existing sandbox is kept when it runs and its primary port answers.
Probe(r) ==
  LET h == req[r] IN
  /\ h.pc = "probe"
  /\ \/ /\ h.ent.ports # <<>> /\ vms[h.ent.sid].st = "running" /\ Publishing(h.ent.ports[1]) # {}
        /\ \E pc \in {"syncFiles", "keep"} : Goto(r, pc)
     \/ Become(r, Allocate(h))
  /\ UNCHANGED <<rows, leases, vms>>

\* A VM that is started again publishes the ports it was created with and runs
\* no injected daemon.
CanPublish(s, ps) == \A t \in Sids \ {s}, j \in DOMAIN ps : t \notin Publishing(ps[j])
Restarted(s) ==
  [vms EXCEPT ![s] = [vms[s] EXCEPT !.st = "running", !.sshd = vms[s].st = "running" /\ vms[s].sshd]]
Halted(s, st) == [vms EXCEPT ![s] = [vms[s] EXCEPT !.st = st, !.sshd = FALSE]]

\* writeFiles / exec / readFiles: connect to the running VM or start it.
Enter(s) ==
  \/ vms[s].st = "running" /\ UNCHANGED vms
  \/ vms[s].st \in {"stopped", "draining"} /\ CanPublish(s, vms[s].ports) /\ vms' = Restarted(s)
\* A call on an existing VM throws without effect; so does every call on none.
Throws(s) == (MayFail \/ vms[s].st = "absent" \/ ~CanPublish(s, vms[s].ports)) /\ UNCHANGED vms

SyncFiles(r) ==
  /\ req[r].pc = "syncFiles"
  /\ \/ Enter(req[r].ent.sid) /\ Goto(r, "keep")
     \/ Throws(req[r].ent.sid) /\ Finish(r)
  /\ UNCHANGED <<rows, leases>>

KeepExisting(r) ==
  LET h == req[r] IN
  /\ h.pc = "keep"
  /\ SaveThen(r, [h.ent EXCEPT !.name = h.in.name, !.status = "running"], Idle)
  /\ UNCHANGED <<leases, vms>>

\* The row takes the new configuration, but not the new bindings, before the
\* sandbox is replaced.
Replace(r) ==
  LET h == req[r]
      e == [h.ent EXCEPT !.name = h.in.name, !.cfg = h.in.cfg, !.status = "provisioning"] IN
  /\ h.pc = "replace"
  /\ SaveThen(r, e, Allocate([h EXCEPT !.ent = e]))
  /\ UNCHANGED <<leases, vms>>

Insert(r) ==
  LET h == req[r]
      e == [id |-> NewId, sid |-> h.key, name |-> h.in.name, cfg |-> h.in.cfg,
            ctr |-> <<>>, ports |-> <<>>, ssh |-> "none", status |-> "provisioning"] IN
  /\ h.pc = "insert"
  /\ \E i \in Ids : Fresh(i)
  /\ SaveThen(r, e, Leasing([h EXCEPT !.ent = e], "lease1", Len(h.in.ctr)))
  /\ UNCHANGED <<leases, vms>>

\* Mutant of TryPort: neither the find nor the UNIQUE key refuses a taken port.
TryPort_Unchecked(r) ==
  LET h == req[r] IN
  /\ h.pc \in {"lease1", "lease2"}
  /\ h.scan <= PortEnd /\ Len(h.got) < h.want
  /\ leases' = [leases EXCEPT ![h.scan] = h.ent.id]
  /\ Become(r, [h EXCEPT !.got = Append(h.got, h.scan), !.scan = h.scan + 1])
  /\ UNCHANGED <<rows, vms>>

\* One turn of the leasePorts loop.  A port taken between the find and the save
\* is skipped like one found taken: the UNIQUE key refuses it.
TryPort(r) ==
  LET h == req[r] IN
  /\ h.pc \in {"lease1", "lease2"}
  /\ h.scan <= PortEnd /\ Len(h.got) < h.want
  /\ \/ /\ leases[h.scan] = NoId
        /\ leases' = [leases EXCEPT ![h.scan] = h.ent.id]
        /\ Become(r, [h EXCEPT !.got = Append(h.got, h.scan), !.scan = h.scan + 1])
     \/ /\ leases[h.scan] # NoId
        /\ Become(r, [h EXCEPT !.scan = h.scan + 1])
        /\ UNCHANGED leases
  /\ UNCHANGED <<rows, vms>>

\* Mutant of Leased: the second result is not copied into the spec's ports.
Leased_Unassigned(r) ==
  LET h == req[r] IN
  /\ h.pc \in {"lease1", "lease2"}
  /\ Len(h.got) = h.want
  /\ Become(r, IF h.pc = "lease1" THEN Allocate(h)
               ELSE [h EXCEPT !.pc = "boot", !.got = [k \in 1..Len(h.in.ctr) |-> 0], !.want = 0, !.scan = PortStart])
  /\ UNCHANGED <<rows, leases, vms>>

\* leasePorts returns.  A new row has no bindings yet, so provision leases for
\* it a second time and uses the second result; existing bindings keep their
\* host port by index.
Leased(r) ==
  LET h == req[r] IN
  /\ h.pc \in {"lease1", "lease2"}
  /\ Len(h.got) = h.want
  /\ Become(r, IF h.pc = "lease1" THEN Allocate(h)
               ELSE [h EXCEPT !.pc = "boot", !.got = h.ent.ports \o h.got, !.want = 0, !.scan = PortStart])
  /\ UNCHANGED <<rows, leases, vms>>

\* leasePorts finds too few free ports: it deletes every lease of the runtime and
\* throws.  The first call's caller deletes the new row; the second has no catch.
LeaseShort(r) ==
  LET h == req[r] IN
  /\ h.pc \in {"lease1", "lease2"}
  /\ h.scan > PortEnd /\ Len(h.got) < h.want
  /\ Unlease(h.ent.id)
  /\ IF h.pc = "lease1" THEN Become(r, Leasing(h, "dropRow", 0)) ELSE Finish(r)
  /\ UNCHANGED <<rows, vms>>

\* Mutant of Boot: a VM that exists is started again instead of replaced.
Boot_NoReplace(r) ==
  LET h == req[r] IN
  /\ h.pc = "boot"
  /\ CanPublish(h.ent.sid, h.got)
  /\ vms' = IF vms[h.ent.sid].st # "absent" THEN Restarted(h.ent.sid)
            ELSE [vms EXCEPT ![h.ent.sid] =
                    [st |-> "running", cfg |-> h.in.cfg, ctr |-> h.in.ctr, ports |-> h.got, sshd |-> FALSE]]
  /\ Goto(r, "health")
  /\ UNCHANGED <<rows, leases>>

\* createDetachedRuntime replaced the VM; the managed command was launched or the
\* launch failed transiently, and injecting sshd is best effort.
Boot(r) ==
  LET h == req[r] IN
  /\ h.pc = "boot"
  /\ CanPublish(h.ent.sid, h.got)
  /\ \E up \in BOOLEAN :
       /\ up => h.in.ssh # "none"
       /\ vms' = [vms EXCEPT ![h.ent.sid] =
                    [st |-> "running", cfg |-> h.in.cfg, ctr |-> h.in.ctr, ports |-> h.got, sshd |-> up]]
  /\ Goto(r, "health")
  /\ UNCHANGED <<rows, leases>>

\* createDetachedRuntime throws a hard error: nothing happened, the old VM is
\* gone, or the new VM runs without its command.  The row stays as it is.
BootFails(r) ==
  LET h == req[r] IN
  /\ h.pc = "boot"
  /\ MayFail \/ ~CanPublish(h.ent.sid, h.got)
  /\ \/ UNCHANGED vms
     \/ vms' = [vms EXCEPT ![h.ent.sid] = NoVm]
     \/ /\ CanPublish(h.ent.sid, h.got)
        /\ vms' = [vms EXCEPT ![h.ent.sid] =
                     [st |-> "running", cfg |-> h.in.cfg, ctr |-> h.in.ctr, ports |-> h.got, sshd |-> FALSE]]
  /\ Finish(r)
  /\ UNCHANGED <<rows, leases>>

\* Mutant of Health: a row that has bindings keeps them.
Health_OldBindings(r) ==
  LET h == req[r] IN
  /\ h.pc = "health"
  /\ \E ok \in BOOLEAN :
       /\ ok => Publishing(h.got[1]) # {} /\ (h.in.ssh # "none" => vms[h.ent.sid].sshd)
       /\ Become(r, [h EXCEPT !.pc = "persist",
                       !.ent = [h.ent EXCEPT !.name = h.in.name, !.cfg = h.in.cfg,
                                  !.ctr = IF @ = <<>> THEN h.in.ctr ELSE @,
                                  !.ports = IF @ = <<>> THEN h.got ELSE @,
                                  !.status = IF ok THEN "running" ELSE "error"]])
  /\ UNCHANGED <<rows, leases, vms>>

\* waitForHealthy on the primary port and, with SSH, on the SSH port: both may
\* time out; the entity takes the bindings and the status.
Health(r) ==
  LET h == req[r] IN
  /\ h.pc = "health"
  /\ \E ok \in BOOLEAN :
       /\ ok => Publishing(h.got[1]) # {} /\ (h.in.ssh # "none" => vms[h.ent.sid].sshd)
       /\ Become(r, [h EXCEPT !.pc = "persist",
                       !.ent = [h.ent EXCEPT !.name = h.in.name, !.cfg = h.in.cfg, !.ctr = h.in.ctr,
                                  !.ports = h.got, !.ssh = h.in.ssh, !.status = IF ok THEN "running" ELSE "error"]])
  /\ UNCHANGED <<rows, leases, vms>>

Persist(r) ==
  /\ req[r].pc = "persist"
  /\ SaveThen(r, req[r].ent, Idle)
  /\ UNCHANGED <<leases, vms>>

--------------------------------------------------------------------------------
(* The other routes. *)

\* requireRuntime
Find(r) ==
  LET h == req[r] IN
  /\ h.pc = "find"
  /\ \/ BySandboxIdOrName(h.key) = {} /\ Finish(r)
     \/ \E e \in BySandboxIdOrName(h.key) :
          Become(r, [h EXCEPT !.ent = e,
                       !.pc = CASE h.op = "delete" -> "deleting"
                                [] h.op \in {"start", "stop"} -> "act"
                                [] h.op = "expire" -> "readToken"
                                [] OTHER -> "sync"])
  /\ UNCHANGED <<rows, leases, vms>>

NormalizeStatus(st) == IF st = "absent" THEN "error" ELSE st

\* Where get, exec, refreshActivity and signing go once syncStatus has returned status st.
AfterSync(h, st) == IF h.op # "get" /\ st = "running" THEN [h EXCEPT !.pc = "act"] ELSE Idle

\* getStatus: getSandboxHandle takes every failure of Sandbox.get for a missing VM.
Seen(s) == {vms[s].st} \cup (IF MayMiss THEN {"absent"} ELSE {})

\* syncStatus reads the VM's status and saves the row when it differs.
SyncStatus(r) ==
  LET h == req[r] IN
  /\ h.pc = "sync"
  /\ \E st \in {NormalizeStatus(t) : t \in Seen(h.ent.sid)} :
       Become(r, IF st = h.ent.status THEN AfterSync(h, st)
                 ELSE [h EXCEPT !.pc = "syncSave", !.ent = [h.ent EXCEPT !.status = st]])
  /\ UNCHANGED <<rows, leases, vms>>

SyncSave(r) ==
  /\ req[r].pc = "syncSave"
  /\ SaveThen(r, req[r].ent, AfterSync(req[r], req[r].ent.status))
  /\ UNCHANGED <<leases, vms>>

\* microsandbox.start: startDetached, then the command; never inject-sshd.
Start(r) ==
  LET s == req[r].ent.sid IN
  /\ At(r, {"start"}, "act")
  /\ \/ /\ vms[s].st # "absent" /\ CanPublish(s, vms[s].ports)
        /\ vms' = Restarted(s)
        /\ \/ Become(r, [req[r] EXCEPT !.pc = "save", !.ent = [req[r].ent EXCEPT !.status = "running"]])
           \/ MayFail /\ Finish(r)       \* the launch threw
     \/ Throws(s) /\ Finish(r)
  /\ UNCHANGED <<rows, leases>>

\* microsandbox.stop: waitForSandboxStop may give up while the VM still drains.
Stop(r) ==
  LET s == req[r].ent.sid IN
  /\ At(r, {"stop"}, "act")
  /\ \/ /\ vms[s].st # "absent"
        /\ \E st \in {"stopped", "draining"} : vms' = Halted(s, st)
        /\ Become(r, [req[r] EXCEPT !.pc = "save", !.ent = [req[r].ent EXCEPT !.status = "stopped"]])
     \/ Throws(s) /\ Finish(r)
  /\ UNCHANGED <<rows, leases>>

\* exec and the file routes enter the VM; refreshActivity only a running one.
Exec(r) ==
  LET s == req[r].ent.sid IN
  /\ At(r, {"exec", "refresh"}, "act")
  /\ \/ /\ req[r].op = "refresh" => vms[s].st = "running"
        /\ Enter(s)
        /\ Goto(r, "save") \/ (MayFail /\ Finish(r))
     \/ Throws(s) /\ Finish(r)
     \/ req[r].op = "refresh" /\ vms[s].st # "running" /\ UNCHANGED vms /\ Finish(r)
  /\ UNCHANGED <<rows, leases>>

\* setRuntimeStatus after start and stop, lastActiveAt after exec: the entity
\* read at the start of the request is written back whole.
SaveStatus(r) ==
  /\ req[r].pc = "save"
  /\ SaveThen(r, req[r].ent, Idle)
  /\ UNCHANGED <<leases, vms>>

\* Mutant of MarkDeleting: the row is not marked before it is taken apart.
MarkDeleting_Skipped(r) ==
  /\ req[r].pc = "deleting"
  /\ Goto(r, "remove")
  /\ UNCHANGED <<rows, leases, vms>>

MarkDeleting(r) ==
  LET e == [req[r].ent EXCEPT !.status = "deleting"] IN
  /\ req[r].pc = "deleting"
  /\ SaveThen(r, e, [req[r] EXCEPT !.pc = "remove", !.ent = e])
  /\ UNCHANGED <<leases, vms>>

\* Mutant of Remove: a removal that throws is swallowed.
Remove_Swallows(r) ==
  /\ req[r].pc = "remove"
  /\ UNCHANGED vms \/ vms' = [vms EXCEPT ![req[r].ent.sid] = NoVm]
  /\ Goto(r, "release")
  /\ UNCHANGED <<rows, leases>>

\* microsandbox.remove: the VM is removed, by the handle or by the CLI, or both
\* throw; without a handle nothing is removed and nothing is thrown.
Remove(r) ==
  /\ req[r].pc = "remove"
  /\ \/ /\ vms' = [vms EXCEPT ![req[r].ent.sid] = NoVm] \/ ("absent" \in Seen(req[r].ent.sid) /\ UNCHANGED vms)
        /\ Goto(r, "release")
     \/ /\ MayFail /\ vms[req[r].ent.sid].st # "absent"
        /\ UNCHANGED vms \/ vms' = Halted(req[r].ent.sid, "stopped")
        /\ Finish(r)
  /\ UNCHANGED <<rows, leases>>

\* Mutant of ReleasePorts: left to deleteRuntime, which drops the row first.
ReleasePorts_Later(r) ==
  /\ req[r].pc = "release"
  /\ Goto(r, "dropRow")
  /\ UNCHANGED <<rows, leases, vms>>

ReleasePorts(r) ==
  /\ req[r].pc = "release"
  /\ Unlease(req[r].ent.id)
  /\ Goto(r, "dropRow")
  /\ UNCHANGED <<rows, vms>>

\* deleteRuntime: the row, then the leases, then the preview tokens.
DropRow(r) ==
  /\ req[r].pc = "dropRow"
  /\ rows' = [rows EXCEPT ![req[r].ent.id] = NoRow]
  /\ Goto(r, "dropLeases")
  /\ UNCHANGED <<leases, vms>>

\* Mutant of DropLeases: provision's catch does not rethrow after deleteRuntime.
DropLeases_NoRethrow(r) ==
  /\ req[r].pc = "dropLeases"
  /\ Unlease(req[r].ent.id)
  /\ IF req[r].op = "delete" THEN Goto(r, "dropTokens") ELSE Become(r, Allocate(req[r]))
  /\ UNCHANGED <<rows, vms>>

DropLeases(r) ==
  /\ req[r].pc = "dropLeases"
  /\ Unlease(req[r].ent.id)
  /\ Goto(r, "dropTokens")
  /\ UNCHANGED <<rows, vms>>

\* The awaited calls on the table of preview tokens: the end of deleteRuntime, both
\* calls of createSignedPreviewToken, both of expireSignedPreviewUrl.  They leave
\* the lifecycle alone; PreviewAccess says what they do.
TokenCall(r) ==
  /\ \/ req[r].pc \in {"dropTokens", "issue", "expireToken"} /\ Finish(r)
     \/ At(r, {"sign"}, "act") /\ (Goto(r, "issue") \/ Finish(r))
     \/ req[r].pc = "readToken" /\ (Goto(r, "expireToken") \/ Finish(r))
  /\ UNCHANGED <<rows, leases, vms>>

--------------------------------------------------------------------------------
(* The environment. *)

\* A VM stops by itself: idle timeout, the end of draining, a guest shutdown.
VmStops(s) ==
  /\ vms[s].st \in {"running", "draining"}
  /\ vms' = Halted(s, "stopped")
  /\ UNCHANGED <<rows, leases, req>>

\* The API process dies and restarts: handlers are gone, tables and VMs stay.
Crash ==
  /\ MayCrash
  /\ \E r \in Reqs : req[r].pc # "idle"
  /\ req' = [r \in Reqs |-> Idle]
  /\ UNCHANGED <<rows, leases, vms>>

Accept(r) == AcceptCreate(r) \/ AcceptEnsure(r) \/ AcceptUpdate(r) \/ AcceptCommand(r)

Provision(r) ==
  \/ CheckConflict(r) \/ LoadForUpdate(r) \/ CheckName(r) \/ Lookup(r) \/ Probe(r) \/ SyncFiles(r)
  \/ KeepExisting(r) \/ Replace(r) \/ Insert(r) \/ TryPort(r) \/ Leased(r) \/ LeaseShort(r)
  \/ Boot(r) \/ BootFails(r) \/ Health(r) \/ Persist(r)

Command(r) ==
  \/ Find(r) \/ SyncStatus(r) \/ SyncSave(r) \/ Start(r) \/ Stop(r) \/ Exec(r) \/ SaveStatus(r)
  \/ MarkDeleting(r) \/ Remove(r) \/ ReleasePorts(r) \/ DropRow(r) \/ DropLeases(r)

Step(r) == Provision(r) \/ Command(r) \/ TokenCall(r)

Next == (\E r \in Reqs : Accept(r) \/ Step(r)) \/ (\E s \in Sids : VmStops(s)) \/ Crash

Spec == Init /\ [][Next]_vars
--------------------------------------------------------------------------------
(* Properties. *)

\* Every variable has its type; handlers past buildSpec hold a spec, handlers past
\* their lookup an entity.
TypeOK ==
  /\ rows \in [Ids -> Entity \cup {NoRow}]
  /\ leases \in [Ports -> Ids \cup {NoId}]
  /\ vms \in [Sids -> Vm]
  /\ req \in [Reqs -> Handler]

\* Every lease belongs to a runtime that is in the table (leasePorts, releasePorts,
\* deleteRuntime): a port leased to a runtime that is gone is lost for good, since
\* only deleting that runtime frees it.
NoOrphanLease == \A p \in Ports : leases[p] # NoId => rows[leases[p]] # NoRow

\* The abstract lease table: the ports by owner, the runtimes in the table.
aliveIds == {i \in Ids : rows[i] # NoRow}
Table == INSTANCE LeaseTable WITH owner <- leases, alive <- aliveIds

\* leasePorts' loop, its give-back and deleteRuntime, interleaved in any way, do to the
\* two tables what LeaseTable says: no port is taken from its owner, none is left
\* behind.
ImplementsLeaseTable == Table!Spec

\* Every VM belongs to a runtime that is in the table (provision, delete): nothing
\* else can find a VM to stop or remove it.
NoOrphanVm == \A s \in Sids : vms[s].st # "absent" => BySandboxId(s) # {}

\* Only provision's insert puts a runtime into the table: no save of an entity read
\* earlier (syncStatus, setRuntimeStatus, updateRuntime) brings a deleted one back.
OnlyInsertAddsRows ==
  [][\A i \in Ids : rows[i] = NoRow /\ rows'[i] # NoRow =>
       \E r \in Reqs : req[r].pc = "insert" /\ req'[r].pc = "lease1"]_vars

\* A host port that a runtime's bindings name is leased to that runtime, unless the
\* runtime is being deleted (leasePorts, releasePorts against provision's persist).
BoundPortsLeased ==
  \A i \in Ids : rows[i] # NoRow /\ rows[i].status # "deleting" =>
    \A k \in DOMAIN rows[i].ports : leases[rows[i].ports[k]] = i

\* No two runtimes name the same host port, so the proxy reaches the right sandbox.
NoSharedHostPort ==
  \A e, f \in Rows : e.id # f.id /\ e.status # "deleting" /\ f.status # "deleting" =>
    \A j \in DOMAIN e.ports, k \in DOMAIN f.ports : e.ports[j] # f.ports[k]

Busy(s) == \E r \in Reqs : s \in req[r].foot

\* While nobody works on a sandbox, its VM leads the host port of each binding to the
\* container port of that binding: provision creates the VM from the new list and
\* writes the list to the row afterwards.  This takes replacements that do not fail.
BindingsFollowVm ==
  \A e \in Rows : ~Busy(e.sid) /\ vms[e.sid].st # "absent" =>
    vms[e.sid].ctr = e.ctr /\ vms[e.sid].ports = e.ports

\* A container port keeps its host port while it keeps its place in the list of its
\* runtime.  No more: host ports are reused by index and port 22 is pushed last, so
\* adding a port gives it the host port SSH had, and SSH another.
HostPortsStable ==
  [][\A i \in Ids : rows[i] # NoRow /\ rows'[i] # NoRow =>
       \A k \in DOMAIN rows[i].ports \cap DOMAIN rows'[i].ports :
         rows'[i].ctr[k] = rows[i].ctr[k] => rows'[i].ports[k] = rows[i].ports[k]]_vars

\* create never adopts a sandbox that exists: past its name check it only inserts.
CreateNeverAdopts ==
  \A r \in Reqs : req[r].op = "create" => req[r].pc \notin {"probe", "replace", "keep", "syncFiles"}

\* A sandbox that is reported running, with nobody working on it, runs the
\* configuration its row records: provision writes the row before it replaces the VM,
\* or keeps the VM and writes the row.  This takes replacements that do not fail.
RunningAsConfigured ==
  \A e \in Rows : e.status = "running" /\ ~Busy(e.sid) /\ vms[e.sid].st = "running" =>
    vms[e.sid].cfg = e.cfg

\* ensure and update are answered only when the VM runs what they asked for: they take
\* a sandbox as it is when its row agrees with the request, and replace it otherwise.
AnsweredAsAsked ==
  [][\A r \in Reqs : LET h == req[r] IN
       /\ h.pc \in {"keep", "persist"} /\ req'[r].pc = "idle" /\ rows' # rows
       /\ vms[h.ent.sid].st = "running"
       => vms[h.ent.sid].cfg = h.in.cfg /\ vms[h.ent.sid].ctr = h.in.ctr]_vars

\* A replacement that is answered repairs what an earlier one that failed, a missed VM or
\* a crash has left: the row that provision saves last describes the VM, with the
\* configuration and the list that were asked for.
ReplacementRepairs ==
  [][\A r \in Reqs : LET h == req[r]
                         v == vms'[h.ent.sid]
                         e == rows'[h.ent.id] IN
       h.pc = "persist" /\ req'[r].pc = "idle" /\ rows' # rows
       => /\ e.cfg = h.in.cfg /\ e.ctr = h.in.ctr
          /\ v.cfg = e.cfg /\ v.ctr = e.ctr /\ v.ports = e.ports]_vars

--------------------------------------------------------------------------------
(* The inductive invariant behind the accounting properties.  The first part    *)
(* needs nothing; the second holds when clients serialise the requests for a    *)
(* sandbox.                                                                     *)

SpecPcs   == {"conflict", "name", "lookup", "insert", "lease1", "lease2", "probe", "syncFiles",
              "keep", "replace", "boot", "health"}
SearchPcs == {"conflict", "load", "name", "lookup", "find"}
EntPcs    == Pcs \ ({"idle", "insert"} \cup SearchPcs)
OwnerPcs  == EntPcs \ {"dropLeases", "dropTokens"}

\* A handler past buildSpec has a spec, past its lookup an entity; leasePorts
\* never looks below the range; an idle slot holds nothing.
HandlerOK(h) ==
  /\ h.pc \in SpecPcs => h.in \in SpecType
  /\ h.pc = "load" => h.in \in PatchType
  /\ h.pc \in SearchPcs \cup {"insert"} => h.key \in h.foot
  /\ h.pc \in EntPcs => h.ent \in Entity
  /\ h.scan >= PortStart
  /\ h.pc = "idle" => h.foot = {}

TypeInv ==
  /\ TypeOK
  /\ \A r \in Reqs : HandlerOK(req[r])
  /\ \A i \in Ids : rows[i] # NoRow => rows[i].id = i

Within(h, name) == name = NoName \/ name \in h.foot

\* What a handler knows of the tables while no other handler works on its sandbox.
Owned(h) ==
  /\ h.pc \in SearchPcs => \A i \in Ids :
       rows[i] # NoRow /\ (rows[i].sid = h.key \/ rows[i].name = h.key)
         => rows[i].sid \in h.foot /\ Within(h, rows[i].name)
  /\ h.pc \in SpecPcs \cup {"load"} => Within(h, h.in.name)
  /\ h.pc \in EntPcs => h.ent.sid \in h.foot /\ Within(h, h.ent.name)
  /\ h.pc \in OwnerPcs => rows[h.ent.id] # NoRow /\ rows[h.ent.id].sid = h.ent.sid
  /\ h.pc \in {"lease1", "release", "dropRow"} => MayMiss \/ vms[h.ent.sid].st = "absent"
  /\ h.pc \in {"dropRow", "dropLeases"} => \A p \in Ports : leases[p] # h.ent.id
  /\ h.pc \in {"dropLeases", "dropTokens"} => rows[h.ent.id] = NoRow

Separate == \A q, r \in Reqs : q # r => req[q].foot \cap req[r].foot = {}

VmsAccounted == MayMiss \/ NoOrphanVm

\* Every handler owns what it works on, no two handlers share a footprint, and
\* every lease and every VM has its row.
ExclusiveInv ==
  /\ TypeInv
  /\ Separate
  /\ \A r \in Reqs : Owned(req[r])
  /\ NoOrphanLease
  /\ VmsAccounted
=============================================================================
