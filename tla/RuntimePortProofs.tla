-------------------------- MODULE RuntimePortProofs --------------------------
(***************************************************************************)
(* When clients serialise the requests for a sandbox: the host ports (the  *)
(* leases, the bindings and what the VMs publish), what a VM runs and what *)
(* its row records, and the refinement of LeaseTable.                      *)
(* First what one step of a handler does to the handler, to its row, to    *)
(* its VM and to the leases; then the theorems, each from an inductive     *)
(* invariant of its own.                                                   *)
(***************************************************************************)
EXTENDS RuntimeOwnershipProofs

--------------------------------------------------------------------------------
(* What a step makes of the handler: h before, g after. *)

SameRuntime(h, g) ==
  g.ent.id = h.ent.id /\ g.ent.sid = h.ent.sid /\ g.ent.ctr = h.ent.ctr /\ g.ent.ports = h.ent.ports
SameConfig(h, g)  == g.ent.name = h.ent.name /\ g.ent.cfg = h.ent.cfg

\* It has no entity yet, or none that is in the table any more, or it has ended.
Outside(h, g) ==
  /\ g.pc \notin OwnerPcs /\ h.pc \notin {"lease1", "health"}
  /\ g.pc \in SearchPcs \cup {"insert"} => h.pc \in {"conflict", "load", "name", "lookup"}
  /\ h.pc = "dropRow" => g.pc = "dropLeases" /\ g.ent = h.ent
  /\ h.pc = "dropLeases" => g.pc = "dropTokens" /\ g.ent = h.ent
  /\ h.pc = "lease2" => h.scan > PortEnd /\ Len(h.got) < h.want
  /\ h.pc \in {"lease2", "boot"} => g = Idle

\* It has found its row.
Finds(h, g) ==
  /\ h.pc \in {"lookup", "find"} /\ g.pc \in {"replace", "probe", "deleting", "act", "readToken", "sync"}
  /\ g.ent \in Rows /\ g.in = h.in
  /\ g.pc = "probe" => ~RequiresRecreate(g.ent, g.in)

\* It has inserted its row.
Creates(h, g) ==
  /\ h.pc = "insert" /\ g.pc = "lease1"
  /\ g.in = h.in /\ g.got = <<>> /\ g.ent.ports = <<>>
  /\ g.ent.name = h.in.name /\ g.ent.cfg = h.in.cfg

\* It goes to its next await with the runtime it holds.
Proceeds(h, g) ==
  /\ h.pc \in OwnerPcs \ {"keep", "replace", "lease2", "boot", "health", "persist", "dropRow"}
  /\ g.pc \in {"syncFiles", "keep", "sync", "act", "syncSave", "save", "issue", "expireToken", "remove", "release", "dropRow"}
  /\ g.pc \in {"syncFiles", "keep"} => h.pc \in {"probe", "syncFiles"} /\ g.in = h.in
  /\ g.pc = "remove" <=> h.pc = "deleting"
  /\ g.pc = "release" <=> h.pc = "remove"
  /\ g.pc = "dropRow" <=> h.pc \in {"lease1", "release"}
  /\ SameRuntime(h, g) /\ SameConfig(h, g)

\* It knows which ports to lease, or that it needs none.
Allocates(h, g) ==
  /\ h.pc \in {"probe", "replace", "lease1"}
  /\ g.in = h.in /\ SameRuntime(h, g)
  /\ IF h.pc = "replace" THEN g.ent.name = h.in.name /\ g.ent.cfg = h.in.cfg ELSE SameConfig(h, g)
  /\ \/ g.pc = "lease2" /\ g.got = <<>> /\ g.want > 0
     \/ /\ g.pc = "boot" /\ h.ent.ports # <<>> /\ Len(h.in.ctr) \in 1 .. Len(h.ent.ports)
        /\ g.got = SubSeq(h.ent.ports, 1, Len(h.in.ctr))

\* It has tried one more port.
Tries(h, g) ==
  /\ h.pc \in {"lease1", "lease2"} /\ g.pc = h.pc
  /\ g.in = h.in /\ g.ent = h.ent /\ g.want = h.want
  /\ \/ g.got = h.got /\ UNCHANGED leases
     \/ /\ h.scan \in Ports /\ leases[h.scan] = NoId /\ g.got = Append(h.got, h.scan)
        /\ leases' = [leases EXCEPT ![h.scan] = h.ent.id]

\* It has the ports for the VM.
Binds(h, g) ==
  /\ h.pc = "lease2" /\ g.pc = "boot"
  /\ g.in = h.in /\ g.ent = h.ent
  /\ Len(h.got) = h.want /\ g.got = h.ent.ports \o h.got

\* It has replaced the VM.
Boots(h, g) ==
  /\ h.pc = "boot" /\ g.pc = "health"
  /\ g.in = h.in /\ g.ent = h.ent /\ g.got = h.got

\* Its entity has taken the bindings.
Checks(h, g) ==
  /\ h.pc = "health" /\ g.pc = "persist"
  /\ g.in = h.in /\ g.got = h.got
  /\ g.ent.id = h.ent.id /\ g.ent.sid = h.ent.sid /\ g.ent.ctr = h.in.ctr /\ g.ent.ports = h.got
  /\ g.ent.name = h.in.name /\ g.ent.cfg = h.in.cfg

\* Where Allocate leads.
LEMMA AllocateShape ==
  ASSUME NEW k \in Handler, k.ent \in Entity, k.in \in SpecType
  PROVE  LET g == Allocate(k) IN
         /\ g.in = k.in /\ g.ent = k.ent
         /\ \/ g.pc = "lease2" /\ g.got = <<>> /\ g.want > 0
            \/ /\ g.pc = "boot" /\ k.ent.ports # <<>> /\ Len(k.in.ctr) \in 1 .. Len(k.ent.ports)
               /\ g.got = SubSeq(k.ent.ports, 1, Len(k.in.ctr))
<1> DEFINE n == Len(k.in.ctr)
           m == Len(k.ent.ports)
<1>1. n \in Nat \ {0} /\ m \in Nat
  BY PortLists DEF SpecType, Entity
<1>2. ASSUME NEW c \in Nat \ {0}
      PROVE  LET g == Leasing(k, "lease2", c) IN
             g.in = k.in /\ g.ent = k.ent /\ g.pc = "lease2" /\ g.got = <<>> /\ g.want > 0
  BY DEF Leasing, Handler
<1>3. CASE k.ent.ports = <<>>
  BY <1>1, <1>2, <1>3 DEF Allocate
<1>4. CASE k.ent.ports # <<>> /\ n > m
  <2>1. n - m \in Nat \ {0}
    BY <1>1, <1>4
  <2> QED
    BY <1>2, <1>4, <2>1 DEF Allocate
<1>5. CASE k.ent.ports # <<>> /\ ~(n > m)
  <2>1. Allocate(k) = [k EXCEPT !.pc = "boot", !.got = SubSeq(k.ent.ports, 1, n)]
    BY <1>5 DEF Allocate
  <2>2. n \in 1 .. m
    BY <1>1, <1>5
  <2> QED
    BY <1>5, <2>1, <2>2 DEF Handler
<1> QED
  BY <1>3, <1>4, <1>5

\* What a step of provision makes of its handler.
LEMMA ProvisionStep ==
  ASSUME ExclusiveInv, NEW r \in Reqs, Provision(r)
  PROVE  LET h == req[r]
             g == req'[r] IN
         \/ Outside(h, g) \/ Finds(h, g) \/ Creates(h, g) \/ Proceeds(h, g) \/ Allocates(h, g)
         \/ Tries(h, g) \/ Binds(h, g) \/ Boots(h, g) \/ Checks(h, g)
<1> DEFINE h == req[r]
           g == req'[r]
<1>0. h \in Handler /\ HandlerOK(h) /\ Owned(h) /\ TypeInv
  BY DEF ExclusiveInv, TypeInv, TypeOK
<1>1. ASSUME NEW k, Become(r, k) PROVE g = k
  BY <1>0, <1>1 DEF Become, TypeInv, TypeOK
<1>2. Finish(r) => Outside(h, g) \/ h.pc \in {"dropRow", "dropLeases", "lease1", "lease2", "health"}
  BY <1>1, IdleOwned, Phases DEF Finish, Outside
<1>3. ASSUME NEW pc, Goto(r, pc)
      PROVE  g.pc = pc /\ g.in = h.in /\ g.ent = h.ent /\ g.got = h.got /\ g.want = h.want
  <2>1. g = [h EXCEPT !.pc = pc]
    BY <1>1, <1>3 DEF Goto
  <2> QED
    BY <1>0, <2>1 DEF Handler
<1>4. ASSUME NEW pc \in {"syncFiles", "keep"}, Goto(r, pc), h.pc \in {"probe", "syncFiles"}
      PROVE  Proceeds(h, g)
  BY <1>3, <1>4, Phases DEF Proceeds, SameRuntime, SameConfig
<1>5. h.pc \in EntPcs => h.ent \in Entity
  BY <1>0 DEF HandlerOK
<1>6. h.pc \in SpecPcs => h.in \in SpecType
  BY <1>0 DEF HandlerOK
<1>7. {"name", "lookup", "insert"} \cap OwnerPcs = {}
  BY DEF OwnerPcs, EntPcs, SearchPcs
<1>11. CASE CheckConflict(r)
  BY <1>2, <1>3, <1>7, <1>11 DEF CheckConflict, At, Outside
<1>12. CASE LoadForUpdate(r)
  <2>1. CASE \E e : Become(r, [h EXCEPT !.pc = "name", !.in = BuildUpdateSpec(e, h.in)])
    <3>1. g.pc = "name"
      BY <1>0, <1>1, <2>1 DEF Handler
    <3> QED
      BY <1>7, <1>12, <3>1 DEF Outside, LoadForUpdate, At
  <2> QED
    BY <1>2, <1>12, <2>1 DEF LoadForUpdate, At
<1>13. CASE CheckName(r)
  BY <1>2, <1>3, <1>7, <1>13 DEF CheckName, Outside
<1>14. CASE Lookup(r)
  <2>0. h.pc = "lookup"
    BY <1>14 DEF Lookup
  <2>1. CASE Finish(r) \/ Goto(r, "insert")
    BY <1>2, <1>3, <1>7, <2>0, <2>1 DEF Outside
  <2>2. CASE ~Finish(r) /\ ~Goto(r, "insert")
    <3>1. PICK e \in BySandboxId(h.key) :
             Become(r, [h EXCEPT !.ent = e, !.pc = IF h.in.force \/ RequiresRecreate(e, h.in)
                                                   THEN "replace" ELSE "probe"])
      BY <1>14, <2>2 DEF Lookup
    <3>2. /\ g.ent = e /\ g.in = h.in
          /\ g.pc = IF h.in.force \/ RequiresRecreate(e, h.in) THEN "replace" ELSE "probe"
      BY <1>0, <1>1, <3>1 DEF Handler
    <3> QED
      BY <1>14, <3>2 DEF Lookup, Finds, BySandboxId
  <2> QED
    BY <2>1, <2>2
<1>15. CASE Probe(r)
  <2>1. h.pc = "probe" /\ h.ent \in Entity /\ h.in \in SpecType
    BY <1>5, <1>6, <1>15, Phases DEF Probe
  <2>2. CASE Become(r, Allocate(h))
    <3>1. g = Allocate(h)
      BY <1>1, <2>2
    <3> QED
      BY <1>0, <2>1, <3>1, AllocateShape DEF Allocates, SameRuntime, SameConfig
  <2>3. CASE Goto(r, "syncFiles") \/ Goto(r, "keep")
    BY <1>4, <2>1, <2>3
  <2> QED
    BY <1>15, <2>2, <2>3 DEF Probe
<1>16. CASE SyncFiles(r)
  BY <1>2, <1>4, <1>16 DEF SyncFiles
<1>17. CASE KeepExisting(r)
  BY <1>1, <1>2, <1>17 DEF KeepExisting, SaveThen, Finish
<1>18. CASE Replace(r)
  <2> DEFINE e == [h.ent EXCEPT !.name = h.in.name, !.cfg = h.in.cfg, !.status = "provisioning"]
             k == [h EXCEPT !.ent = e]
  <2>1. h.pc = "replace" /\ h.ent \in Entity /\ h.in \in SpecType
    BY <1>5, <1>6, <1>18, Phases DEF Replace
  <2>2. /\ e \in Entity /\ e.id = h.ent.id /\ e.sid = h.ent.sid /\ e.ctr = h.ent.ctr /\ e.ports = h.ent.ports
        /\ e.name = h.in.name /\ e.cfg = h.in.cfg
    BY <2>1 DEF Entity, SpecType, Statuses
  <2>3. Finish(r) \/ Become(r, Allocate(k))
    BY <1>18 DEF Replace, SaveThen
  <2> HIDE DEF e
  <2>4. k \in Handler /\ k.ent = e /\ k.in = h.in
    BY <1>0, <2>2 DEF Handler
  <2>5. CASE Become(r, Allocate(k))
    <3>1. g = Allocate(k)
      BY <1>1, <2>5
    <3> HIDE DEF k
    <3>2. /\ g.in = k.in /\ g.ent = k.ent
          /\ \/ g.pc = "lease2" /\ g.got = <<>> /\ g.want > 0
             \/ /\ g.pc = "boot" /\ k.ent.ports # <<>> /\ Len(k.in.ctr) \in 1 .. Len(k.ent.ports)
                /\ g.got = SubSeq(k.ent.ports, 1, Len(k.in.ctr))
      BY <2>1, <2>2, <2>4, <3>1, AllocateShape
    <3> QED
      BY <2>1, <2>2, <2>4, <3>2 DEF Allocates, SameRuntime
  <2> QED
    BY <1>2, <2>1, <2>3, <2>5
<1>19. CASE Insert(r)
  <2> DEFINE e == [id |-> NewId, sid |-> h.key, name |-> h.in.name, cfg |-> h.in.cfg,
                   ctr |-> <<>>, ports |-> <<>>, ssh |-> "none", status |-> "provisioning"]
             k == [h EXCEPT !.ent = e]
  <2>1. h.pc = "insert" /\ (Finish(r) \/ Become(r, Leasing(k, "lease1", Len(h.in.ctr))))
    BY <1>19 DEF Insert, SaveThen
  <2>2. e.ports = <<>> /\ e.name = h.in.name /\ e.cfg = h.in.cfg
    OBVIOUS
  <2> HIDE DEF e
  <2>3. k = [op |-> h.op, pc |-> h.pc, key |-> h.key, in |-> h.in, ent |-> e, want |-> h.want,
             got |-> h.got, scan |-> h.scan, foot |-> h.foot]
    BY <1>0 DEF Handler
  <2> HIDE DEF k
  <2>4. LET l == Leasing(k, "lease1", Len(h.in.ctr)) IN l.pc = "lease1" /\ l.got = <<>> /\ l.in = h.in /\ l.ent = e
    BY <2>3 DEF Leasing
  <2>5. CASE Become(r, Leasing(k, "lease1", Len(h.in.ctr)))
    BY <1>1, <2>1, <2>2, <2>4, <2>5 DEF Creates
  <2> QED
    BY <1>2, <2>1, <2>5
<1>20. CASE TryPort(r)
  <2>1. h.pc \in {"lease1", "lease2"} /\ h.scan \in Ports
    BY <1>0, <1>20, PortsAssumption DEF TryPort, Handler, HandlerOK, Ports
  <2>2. CASE /\ leases[h.scan] = NoId /\ leases' = [leases EXCEPT ![h.scan] = h.ent.id]
             /\ Become(r, [h EXCEPT !.got = Append(h.got, h.scan), !.scan = h.scan + 1])
    <3>1. g = [h EXCEPT !.got = Append(h.got, h.scan), !.scan = h.scan + 1]
      BY <1>1, <2>2
    <3>2. g.pc = h.pc /\ g.in = h.in /\ g.ent = h.ent /\ g.want = h.want /\ g.got = Append(h.got, h.scan)
      BY <1>0, <3>1 DEF Handler
    <3> QED
      BY <2>1, <2>2, <3>2 DEF Tries
  <2>3. CASE Become(r, [h EXCEPT !.scan = h.scan + 1]) /\ UNCHANGED leases
    <3>1. g = [h EXCEPT !.scan = h.scan + 1]
      BY <1>1, <2>3
    <3>2. g.pc = h.pc /\ g.in = h.in /\ g.ent = h.ent /\ g.want = h.want /\ g.got = h.got
      BY <1>0, <3>1 DEF Handler
    <3> QED
      BY <2>1, <2>3, <3>2 DEF Tries
  <2> QED
    BY <1>20, <2>2, <2>3 DEF TryPort
<1>21. CASE Leased(r)
  <2>1. h.pc \in {"lease1", "lease2"} /\ h.ent \in Entity /\ h.in \in SpecType /\ Len(h.got) = h.want
    BY <1>5, <1>6, <1>21, Phases DEF Leased
  <2>2. CASE h.pc = "lease1"
    <3>1. g = Allocate(h)
      BY <1>1, <1>21, <2>2 DEF Leased
    <3> QED
      BY <1>0, <2>1, <2>2, <3>1, AllocateShape DEF Allocates, SameRuntime, SameConfig
  <2>3. CASE h.pc = "lease2"
    <3>1. g = [h EXCEPT !.pc = "boot", !.got = h.ent.ports \o h.got, !.want = 0, !.scan = PortStart]
      BY <1>1, <1>21, <2>3 DEF Leased
    <3>2. g.pc = "boot" /\ g.in = h.in /\ g.ent = h.ent /\ g.got = h.ent.ports \o h.got
      BY <1>0, <3>1 DEF Handler
    <3> QED
      BY <2>1, <2>3, <3>2 DEF Binds
  <2> QED
    BY <2>1, <2>2, <2>3
<1>22. CASE LeaseShort(r)
  <2>1. CASE h.pc = "lease1" /\ Become(r, Leasing(h, "dropRow", 0))
    <3>1. g.pc = "dropRow" /\ g.ent = h.ent
      BY <1>0, <1>1, <2>1 DEF Leasing, Handler
    <3> QED
      BY <2>1, <3>1, Phases DEF Proceeds, SameRuntime, SameConfig
  <2>2. CASE h.pc = "lease2" /\ Finish(r)
    BY <1>1, <1>22, <2>2, IdleOwned, Phases DEF LeaseShort, Finish, Outside
  <2> QED
    BY <1>22, <2>1, <2>2 DEF LeaseShort
<1>23. CASE Boot(r)
  BY <1>3, <1>23 DEF Boot, Boots
<1>24. CASE BootFails(r)
  BY <1>2, <1>24 DEF BootFails
<1>25. CASE Health(r)
  <2>1. PICK st \in {"running", "error"} :
          Become(r, [h EXCEPT !.pc = "persist",
                       !.ent = [h.ent EXCEPT !.name = h.in.name, !.cfg = h.in.cfg, !.ctr = h.in.ctr, !.ports = h.got,
                                  !.ssh = h.in.ssh, !.status = st]])
    BY <1>25 DEF Health
  <2> DEFINE e == [h.ent EXCEPT !.name = h.in.name, !.cfg = h.in.cfg, !.ctr = h.in.ctr, !.ports = h.got,
                     !.ssh = h.in.ssh, !.status = st]
  <2>2. h.pc = "health" /\ h.ent \in Entity
    BY <1>5, <1>25, Phases DEF Health
  <2>3. /\ e.id = h.ent.id /\ e.sid = h.ent.sid /\ e.ctr = h.in.ctr /\ e.ports = h.got
        /\ e.name = h.in.name /\ e.cfg = h.in.cfg
    BY <2>2 DEF Entity
  <2> HIDE DEF e
  <2>4. g = [h EXCEPT !.pc = "persist", !.ent = e]
    BY <1>1, <2>1 DEF e
  <2>5. g.pc = "persist" /\ g.ent = e /\ g.in = h.in /\ g.got = h.got
    BY <1>0, <2>4 DEF Handler
  <2> QED
    BY <2>2, <2>3, <2>5 DEF Checks
<1>26. CASE Persist(r)
  BY <1>1, <1>2, <1>26 DEF Persist, SaveThen, Finish
<1> QED
  BY <1>11, <1>12, <1>13, <1>14, <1>15, <1>16, <1>17, <1>18, <1>19, <1>20, <1>21, <1>22, <1>23, <1>24,
     <1>25, <1>26 DEF Provision

\* What a step of another route makes of its handler.
LEMMA CommandStep ==
  ASSUME ExclusiveInv, NEW r \in Reqs, Command(r) \/ TokenCall(r)
  PROVE  LET h == req[r]
             g == req'[r] IN
         Outside(h, g) \/ Finds(h, g) \/ Proceeds(h, g)
<1> DEFINE h == req[r]
           g == req'[r]
<1>0. h \in Handler /\ HandlerOK(h) /\ Owned(h) /\ TypeInv
  BY DEF ExclusiveInv, TypeInv, TypeOK
<1>1. ASSUME NEW k, Become(r, k) PROVE g = k
  BY <1>0, <1>1 DEF Become, TypeInv, TypeOK
<1>2. Finish(r) /\ h.pc \notin {"dropRow", "dropLeases", "lease1", "lease2", "health"} => Outside(h, g)
  BY <1>1, IdleOwned, Phases DEF Finish, Outside
<1>3. ASSUME NEW pc, Goto(r, pc) PROVE g.pc = pc /\ g.in = h.in /\ g.ent = h.ent
  <2>1. g = [h EXCEPT !.pc = pc]
    BY <1>1, <1>3 DEF Goto
  <2> QED
    BY <1>0, <2>1 DEF Handler
<1>4. ASSUME NEW pc \in {"act", "save", "issue", "expireToken"}, Goto(r, pc), h.pc \in {"sync", "syncSave", "act", "readToken"}
      PROVE  Proceeds(h, g)
  BY <1>3, <1>4, Phases DEF Proceeds, SameRuntime, SameConfig
<1>5. ASSUME NEW st, NEW pc \in {"syncSave", "save", "remove"}, pc = "remove" <=> h.pc = "deleting",
             h.pc \in {"sync", "act", "deleting"},
             Become(r, [h EXCEPT !.pc = pc, !.ent = [h.ent EXCEPT !.status = st]])
      PROVE  Proceeds(h, g)
  <2> DEFINE e == [h.ent EXCEPT !.status = st]
  <2>1. h.ent \in Entity
    BY <1>0, <1>5, Phases DEF HandlerOK
  <2>2. /\ e.id = h.ent.id /\ e.sid = h.ent.sid /\ e.ctr = h.ent.ctr /\ e.ports = h.ent.ports
        /\ e.name = h.ent.name /\ e.cfg = h.ent.cfg
    BY <2>1 DEF Entity
  <2> HIDE DEF e
  <2>3. g = [h EXCEPT !.pc = pc, !.ent = e]
    BY <1>1, <1>5 DEF e
  <2>4. g.pc = pc /\ g.ent = e
    BY <1>0, <2>3 DEF Handler
  <2> QED
    BY <1>5, <2>2, <2>4, Phases DEF Proceeds, SameRuntime, SameConfig
<1>11. CASE Find(r)
  <2>1. CASE ~Finish(r)
    <3>1. PICK e \in BySandboxIdOrName(h.key), pc \in {"deleting", "act", "readToken", "sync"} :
             Become(r, [h EXCEPT !.ent = e, !.pc = pc])
      BY <1>11, <2>1 DEF Find
    <3>2. g.ent = e /\ g.in = h.in /\ g.pc = pc
      BY <1>0, <1>1, <3>1 DEF Handler
    <3>3. e \in Rows /\ h.pc = "find"
      BY <1>11 DEF Find, BySandboxIdOrName
    <3> QED
      BY <3>2, <3>3 DEF Finds
  <2> QED
    BY <1>2, <1>11, <2>1 DEF Find
<1>12. CASE SyncStatus(r)
  <2>1. PICK st : Become(r, IF st = h.ent.status THEN AfterSync(h, st)
                            ELSE [h EXCEPT !.pc = "syncSave", !.ent = [h.ent EXCEPT !.status = st]])
    BY <1>12 DEF SyncStatus
  <2>2. h.pc = "sync"
    BY <1>12 DEF SyncStatus
  <2>3. \/ Finish(r) \/ Goto(r, "act")
        \/ Become(r, [h EXCEPT !.pc = "syncSave", !.ent = [h.ent EXCEPT !.status = st]])
    BY <2>1 DEF AfterSync, Finish, Goto
  <2> QED
    BY <1>2, <1>4, <1>5, <2>2, <2>3
<1>13. CASE SyncSave(r)
  <2>1. h.pc = "syncSave" /\ (Finish(r) \/ Goto(r, "act"))
    BY <1>13 DEF SyncSave, SaveThen, AfterSync, Finish, Goto
  <2> QED
    BY <1>2, <1>4, <2>1
<1>14. CASE Start(r)
  <2>1. /\ h.pc = "act"
        /\ Finish(r) \/ Become(r, [h EXCEPT !.pc = "save", !.ent = [h.ent EXCEPT !.status = "running"]])
    BY <1>14 DEF Start, At
  <2> QED
    BY <1>2, <1>5, <2>1
<1>15. CASE Stop(r)
  <2>1. /\ h.pc = "act"
        /\ Finish(r) \/ Become(r, [h EXCEPT !.pc = "save", !.ent = [h.ent EXCEPT !.status = "stopped"]])
    BY <1>15 DEF Stop, At
  <2> QED
    BY <1>2, <1>5, <2>1
<1>16. CASE Exec(r)
  BY <1>2, <1>4, <1>16 DEF Exec, At
<1>17. CASE SaveStatus(r)
  <2>1. h.pc = "save" /\ Finish(r)
    BY <1>17 DEF SaveStatus, SaveThen, Finish
  <2> QED
    BY <1>2, <2>1
<1>18. CASE MarkDeleting(r)
  <2>1. /\ h.pc = "deleting"
        /\ Finish(r) \/ Become(r, [h EXCEPT !.pc = "remove", !.ent = [h.ent EXCEPT !.status = "deleting"]])
    BY <1>18 DEF MarkDeleting, SaveThen
  <2> QED
    BY <1>2, <1>5, <2>1
<1>19. CASE Remove(r)
  <2>1. h.pc = "remove" /\ (Finish(r) \/ Goto(r, "release"))
    BY <1>19 DEF Remove
  <2> QED
    BY <1>2, <1>3, <2>1, Phases DEF Proceeds, SameRuntime, SameConfig
<1>20. CASE ReleasePorts(r)
  <2>1. h.pc = "release" /\ Goto(r, "dropRow")
    BY <1>20 DEF ReleasePorts
  <2> QED
    BY <1>3, <2>1, Phases DEF Proceeds, SameRuntime, SameConfig
<1>21. CASE DropRow(r) \/ DropLeases(r)
  BY <1>3, <1>21, Phases DEF DropRow, DropLeases, Outside
<1>22. CASE TokenCall(r)
  BY <1>2, <1>4, <1>22 DEF TokenCall, At
<1> QED
  BY <1>11, <1>12, <1>13, <1>14, <1>15, <1>16, <1>17, <1>18, <1>19, <1>20, <1>21, <1>22 DEF Command

--------------------------------------------------------------------------------
(* What a step does to the table, the VMs and the leases. *)

\* The handler at r inserts the row it then holds.
Inserts(r) ==
  LET e == req'[r].ent IN
  /\ req[r].pc = "insert" /\ req'[r].pc = "lease1"
  /\ NewId \in Ids /\ Fresh(NewId) /\ Savable(e)
  /\ e \in Entity /\ e.id = NewId /\ e.sid = req[r].key /\ e.ports = <<>>
  /\ e.name = req[r].in.name /\ e.cfg = req[r].in.cfg
  /\ rows' = [rows EXCEPT ![NewId] = e]
  /\ UNCHANGED <<leases, vms>>

\* It saves entity e over its own row.
Saves(r, e) ==
  LET h == req[r] IN
  /\ h.pc \in {"keep", "replace", "persist", "syncSave", "save", "deleting"}
  /\ Savable(e) /\ e.id = h.ent.id /\ e.sid = h.ent.sid /\ e.ctr = h.ent.ctr /\ e.ports = h.ent.ports
  /\ e.name = IF h.pc \in {"keep", "replace"} THEN h.in.name ELSE h.ent.name
  /\ e.cfg = IF h.pc = "replace" THEN h.in.cfg ELSE h.ent.cfg
  /\ h.pc = "deleting" => e.status = "deleting"
  /\ h.pc = "replace" => req'[r].pc \in {"lease2", "boot"}
  /\ rows' = [rows EXCEPT ![h.ent.id] = e]
  /\ UNCHANGED <<leases, vms>>

\* It drops its row.
Drops(r) ==
  /\ req[r].pc = "dropRow"
  /\ rows' = [rows EXCEPT ![req[r].ent.id] = NoRow]
  /\ UNCHANGED <<leases, vms>>

\* A handler that saves and does not is refused by a UNIQUE key, and ends.
Refused(r) ==
  LET h == req[r] IN
  /\ h.pc \in {"insert", "keep", "replace", "persist", "syncSave", "save", "deleting"} => req'[r] = Idle
  /\ h.pc = "persist" => ~Savable(h.ent)
  /\ h.pc # "dropRow"

\* The four ways a step treats the table of runtimes.
LEMMA RowStep ==
  ASSUME ExclusiveInv, NEW r \in Reqs, Step(r)
  PROVE  \/ UNCHANGED rows /\ Refused(r)
         \/ Inserts(r) \/ (\E e \in Entity : Saves(r, e)) \/ Drops(r)
<1> DEFINE h == req[r]
           g == req'[r]
<1>0. h \in Handler /\ HandlerOK(h) /\ Owned(h) /\ TypeInv
  BY DEF ExclusiveInv, TypeInv, TypeOK
<1>1. ASSUME NEW k, Become(r, k) PROVE g = k
  BY <1>0, <1>1 DEF Become, TypeInv, TypeOK
<1>2. h.pc \in EntPcs => h.ent \in Entity
  BY <1>0 DEF HandlerOK
<1>3. h.pc \in SpecPcs => h.in \in SpecType
  BY <1>0 DEF HandlerOK
<1>4. ASSUME UNCHANGED rows, Finish(r), h.pc \notin {"persist", "dropRow"} PROVE UNCHANGED rows /\ Refused(r)
  BY <1>1, <1>4 DEF Finish, Refused
<1>5. ASSUME UNCHANGED rows,
             h.pc \notin {"insert", "keep", "replace", "persist", "syncSave", "save", "deleting", "dropRow"}
      PROVE  UNCHANGED rows /\ Refused(r)
  BY <1>5 DEF Refused
<1>11. CASE KeepExisting(r)
  <2> DEFINE e == [h.ent EXCEPT !.name = h.in.name, !.status = "running"]
  <2>1. h.pc = "keep" /\ UNCHANGED <<leases, vms>> /\ SaveThen(r, e, Idle)
    BY <1>11 DEF KeepExisting
  <2>2. /\ e \in Entity /\ e.id = h.ent.id /\ e.sid = h.ent.sid /\ e.ctr = h.ent.ctr /\ e.ports = h.ent.ports
        /\ e.name = h.in.name /\ e.cfg = h.ent.cfg
    BY <1>2, <1>3, <2>1, Phases DEF Entity, SpecType, Statuses
  <2> HIDE DEF e
  <2> QED
    BY <1>4, <2>1, <2>2 DEF SaveThen, Saves
<1>12. CASE Replace(r)
  <2> DEFINE e == [h.ent EXCEPT !.name = h.in.name, !.cfg = h.in.cfg, !.status = "provisioning"]
  <2>1. h.pc = "replace" /\ UNCHANGED <<leases, vms>> /\ SaveThen(r, e, Allocate([h EXCEPT !.ent = e]))
    BY <1>12 DEF Replace
  <2>2. /\ e \in Entity /\ e.id = h.ent.id /\ e.sid = h.ent.sid /\ e.ctr = h.ent.ctr /\ e.ports = h.ent.ports
        /\ e.name = h.in.name /\ e.cfg = h.in.cfg
    BY <1>2, <1>3, <2>1, Phases DEF Entity, SpecType, Statuses
  <2> HIDE DEF e
  <2> DEFINE k == [h EXCEPT !.ent = e]
  <2>3. k \in Handler /\ k.ent \in Entity /\ k.in \in SpecType
    BY <1>0, <1>3, <2>1, <2>2 DEF Handler, SpecPcs
  <2> HIDE DEF k
  <2>4. Allocate(k).pc \in {"lease2", "boot"}
    BY <2>3, AllocateShape
  <2>5. Become(r, Allocate(k)) => g.pc \in {"lease2", "boot"}
    BY <1>1, <2>4
  <2> QED
    BY <1>4, <2>1, <2>2, <2>5 DEF SaveThen, Saves, k
<1>13. CASE Persist(r) \/ SyncSave(r) \/ SaveStatus(r)
  <2>1. h.pc \in {"persist", "syncSave", "save"} /\ UNCHANGED <<leases, vms>> /\ \E k : SaveThen(r, h.ent, k)
    BY <1>13 DEF Persist, SyncSave, SaveStatus
  <2>2. h.ent \in Entity
    BY <1>2, <2>1, Phases
  <2>3. CASE Savable(h.ent) /\ rows' = [rows EXCEPT ![h.ent.id] = h.ent]
    BY <2>1, <2>2, <2>3 DEF Saves
  <2>4. CASE ~Savable(h.ent) /\ Finish(r) /\ UNCHANGED rows
    BY <1>1, <2>1, <2>4 DEF Finish, Refused
  <2> QED
    BY <2>1, <2>3, <2>4 DEF SaveThen
<1>14. CASE MarkDeleting(r)
  <2> DEFINE e == [h.ent EXCEPT !.status = "deleting"]
  <2>1. h.pc = "deleting" /\ UNCHANGED <<leases, vms>> /\ \E k : SaveThen(r, e, k)
    BY <1>14 DEF MarkDeleting
  <2>2. /\ e \in Entity /\ e.id = h.ent.id /\ e.sid = h.ent.sid /\ e.ctr = h.ent.ctr /\ e.ports = h.ent.ports
        /\ e.name = h.ent.name /\ e.cfg = h.ent.cfg /\ e.status = "deleting"
    BY <1>2, <2>1, Phases DEF Entity, Statuses
  <2> HIDE DEF e
  <2> QED
    BY <1>4, <2>1, <2>2 DEF SaveThen, Saves
<1>15. CASE Insert(r)
  <2> DEFINE e == [id |-> NewId, sid |-> h.key, name |-> h.in.name, cfg |-> h.in.cfg,
                   ctr |-> <<>>, ports |-> <<>>, ssh |-> "none", status |-> "provisioning"]
             k == [h EXCEPT !.ent = e]
  <2>1. h.pc = "insert" /\ UNCHANGED <<leases, vms>> /\ SaveThen(r, e, Leasing(k, "lease1", Len(h.in.ctr)))
    BY <1>15 DEF Insert
  <2>2. NewId \in Ids /\ Fresh(NewId)
    BY <1>15 DEF Insert, NewId
  <2>3. h.in \in SpecType /\ h.key \in Sids
    BY <1>0, <1>3, <2>1 DEF Handler, HandlerOK, SpecPcs, SearchPcs
  <2>4. /\ e \in Entity /\ e.id = NewId /\ e.sid = h.key /\ e.ports = <<>>
        /\ e.name = h.in.name /\ e.cfg = h.in.cfg
    BY <2>2, <2>3 DEF Entity, SpecType, Statuses, SshKinds
  <2> HIDE DEF e
  <2>5. k = [op |-> h.op, pc |-> h.pc, key |-> h.key, in |-> h.in, ent |-> e, want |-> h.want,
             got |-> h.got, scan |-> h.scan, foot |-> h.foot]
    BY <1>0 DEF Handler
  <2> HIDE DEF k
  <2>6. LET l == Leasing(k, "lease1", Len(h.in.ctr)) IN l.pc = "lease1" /\ l.ent = e
    BY <2>5 DEF Leasing
  <2>7. CASE Savable(e) /\ rows' = [rows EXCEPT ![e.id] = e] /\ Become(r, Leasing(k, "lease1", Len(h.in.ctr)))
    <3>1. g.pc = "lease1" /\ g.ent = e
      BY <1>1, <2>6, <2>7
    <3> QED
      BY <2>1, <2>2, <2>4, <2>7, <3>1 DEF Inserts
  <2> QED
    BY <1>4, <2>1, <2>7 DEF SaveThen
<1>16. CASE DropRow(r)
  BY <1>16 DEF DropRow, Drops
<1>17. CASE /\ Provision(r) /\ ~KeepExisting(r) /\ ~Replace(r) /\ ~Insert(r) /\ ~Persist(r)
  <2>1. UNCHANGED rows
    BY <1>17 DEF Provision, CheckConflict, LoadForUpdate, CheckName, Lookup, Probe, SyncFiles, TryPort, Leased,
                 LeaseShort, Boot, BootFails, Health
  <2>2. h.pc \in {"conflict", "load", "name", "lookup", "probe", "syncFiles", "lease1", "lease2", "boot", "health"}
    BY <1>17 DEF Provision, CheckConflict, LoadForUpdate, CheckName, Lookup, Probe, SyncFiles, TryPort, Leased,
                 LeaseShort, Boot, BootFails, Health, At
  <2> QED
    BY <1>5, <2>1, <2>2
<1>18. CASE Command(r) /\ ~SyncSave(r) /\ ~SaveStatus(r) /\ ~MarkDeleting(r) /\ ~DropRow(r)
  <2>1. UNCHANGED rows /\ h.pc \in {"find", "sync", "act", "remove", "release", "dropLeases"}
    BY <1>18 DEF Command, Find, SyncStatus, Start, Stop, Exec, Remove, ReleasePorts, DropLeases, At
  <2> QED
    BY <1>5, <2>1
<1>19. CASE TokenCall(r)
  <2>1. UNCHANGED rows /\ h.pc \in {"dropTokens", "issue", "expireToken", "act", "readToken"}
    BY <1>19 DEF TokenCall, At
  <2> QED
    BY <1>5, <2>1
<1> QED
  BY <1>11, <1>12, <1>13, <1>14, <1>15, <1>16, <1>17, <1>18, <1>19 DEF Step

\* It starts or halts its VM, which keeps its configuration and its ports.
Toggles(r) ==
  LET h == req[r] IN
  /\ h.pc \in {"syncFiles", "act", "remove"} /\ (h.pc = "remove" => MayFail /\ req'[r] = Idle)
  /\ vms[h.ent.sid].st # "absent"
  /\ \E v : /\ v.st # "absent" /\ v.cfg = vms[h.ent.sid].cfg
            /\ v.ctr = vms[h.ent.sid].ctr /\ v.ports = vms[h.ent.sid].ports
            /\ vms' = [vms EXCEPT ![h.ent.sid] = v]

\* It replaces its VM by one that publishes the ports it has got.
Replaces(r) ==
  LET h == req[r] IN
  /\ h.pc = "boot" /\ (MayFail \/ req'[r].pc = "health")
  /\ CanPublish(h.ent.sid, h.got)
  /\ \E v : /\ v.st = "running" /\ v.cfg = h.in.cfg /\ v.ctr = h.in.ctr /\ v.ports = h.got
            /\ vms' = [vms EXCEPT ![h.ent.sid] = v]

\* A boot that fails, the ports taken or by itself.
CannotBoot(r) == req'[r] = Idle /\ (MayFail \/ ~CanPublish(req[r].ent.sid, req[r].got))

\* It removes its VM.
Removes(r) ==
  LET h == req[r] IN
  /\ \/ h.pc = "remove" /\ req'[r].pc = "release"
     \/ h.pc = "boot" /\ CannotBoot(r)
  /\ vms' = [vms EXCEPT ![h.ent.sid] = NoVm]

\* It leaves its VM as it is, if there is one.
Spares(r) ==
  LET h == req[r] IN
  /\ h.pc = "boot" => CannotBoot(r)
  /\ h.pc = "remove" => \/ MayFail /\ req'[r] = Idle
                        \/ MayMiss \/ vms[h.ent.sid].st = "absent"
  /\ UNCHANGED vms

\* The four ways a step treats the VMs.
LEMMA VmStep ==
  ASSUME ExclusiveInv, NEW r \in Reqs, Step(r)
  PROVE  Spares(r) \/ ((Toggles(r) \/ Replaces(r) \/ Removes(r)) /\ UNCHANGED <<rows, leases>>)
<1> DEFINE h == req[r]
           g == req'[r]
           s == h.ent.sid
<1>0. h \in Handler /\ HandlerOK(h) /\ TypeInv
  BY DEF ExclusiveInv, TypeInv, TypeOK
<1>1. ASSUME NEW k, Become(r, k) PROVE g = k
  BY <1>0, <1>1 DEF Become, TypeInv, TypeOK
<1>2. ASSUME UNCHANGED vms, h.pc \notin {"boot", "remove"} PROVE Spares(r)
  BY <1>2 DEF Spares
<1>3. h.pc \in EntPcs => vms[s] \in Vm
  BY <1>0 DEF HandlerOK, Entity, TypeInv, TypeOK
<1>4. ASSUME vms' = Restarted(s), h.pc \in {"syncFiles", "act"}, vms[s].st # "absent" PROVE Toggles(r)
  <2> DEFINE v == [vms[s] EXCEPT !.st = "running", !.sshd = vms[s].st = "running" /\ vms[s].sshd]
  <2>1. v.st # "absent" /\ v.cfg = vms[s].cfg /\ v.ctr = vms[s].ctr /\ v.ports = vms[s].ports
    BY <1>3, <1>4, Phases DEF Vm
  <2>2. vms' = [vms EXCEPT ![s] = v]
    BY <1>4 DEF Restarted
  <2> HIDE DEF v
  <2> QED
    BY <1>4, <2>1, <2>2 DEF Toggles
<1>5. ASSUME NEW st \in {"stopped", "draining"}, vms' = Halted(s, st), h.pc \in {"act", "remove"},
             vms[s].st # "absent", h.pc = "remove" => MayFail /\ g = Idle
      PROVE  Toggles(r)
  <2> DEFINE v == [vms[s] EXCEPT !.st = st, !.sshd = FALSE]
  <2>1. v.st # "absent" /\ v.cfg = vms[s].cfg /\ v.ctr = vms[s].ctr /\ v.ports = vms[s].ports
    BY <1>3, <1>5, Phases DEF Vm
  <2>2. vms' = [vms EXCEPT ![s] = v]
    BY <1>5 DEF Halted
  <2> HIDE DEF v
  <2> QED
    BY <1>5, <2>1, <2>2 DEF Toggles
<1>6. Enter(s) \/ Throws(s) => UNCHANGED vms \/ (vms' = Restarted(s) /\ vms[s].st # "absent")
  BY DEF Enter, Throws
<1>11. CASE SyncFiles(r) \/ Exec(r)
  <2>1. h.pc \in {"syncFiles", "act"} /\ UNCHANGED <<rows, leases>>
    BY <1>11 DEF SyncFiles, Exec, At
  <2>2. UNCHANGED vms \/ (vms' = Restarted(s) /\ vms[s].st # "absent")
    BY <1>6, <1>11 DEF SyncFiles, Exec
  <2> QED
    BY <1>2, <1>4, <2>1, <2>2
<1>12. CASE Start(r)
  <2>1. h.pc = "act" /\ UNCHANGED <<rows, leases>>
    BY <1>12 DEF Start, At
  <2>2. UNCHANGED vms \/ (vms' = Restarted(s) /\ vms[s].st # "absent")
    BY <1>6, <1>12 DEF Start
  <2> QED
    BY <1>2, <1>4, <2>1, <2>2
<1>13. CASE Stop(r)
  <2>1. h.pc = "act" /\ UNCHANGED <<rows, leases>>
    BY <1>13 DEF Stop, At
  <2>2. UNCHANGED vms \/ (vms[s].st # "absent" /\ \E st \in {"stopped", "draining"} : vms' = Halted(s, st))
    BY <1>13 DEF Stop, Throws
  <2> QED
    BY <1>2, <1>5, <2>1, <2>2
<1>14. CASE Boot(r)
  <2>1. h.pc = "boot" /\ UNCHANGED <<rows, leases>> /\ CanPublish(s, h.got) /\ Goto(r, "health")
    BY <1>14 DEF Boot
  <2>2. g.pc = "health"
    BY <1>0, <1>1, <2>1 DEF Goto, Handler
  <2>3. PICK up \in BOOLEAN :
          vms' = [vms EXCEPT ![s] = [st |-> "running", cfg |-> h.in.cfg, ctr |-> h.in.ctr, ports |-> h.got, sshd |-> up]]
    BY <1>14 DEF Boot
  <2> QED
    BY <2>1, <2>2, <2>3 DEF Replaces
<1>15. CASE BootFails(r)
  <2>1. h.pc = "boot" /\ UNCHANGED <<rows, leases>> /\ g = Idle /\ (MayFail \/ ~CanPublish(s, h.got))
    BY <1>1, <1>15 DEF BootFails, Finish
  <2>2. CASE UNCHANGED vms
    BY <2>1, <2>2 DEF Spares, CannotBoot
  <2>3. CASE vms' = [vms EXCEPT ![s] = NoVm]
    BY <2>1, <2>3 DEF Removes, CannotBoot
  <2>4. CASE /\ CanPublish(s, h.got)
             /\ vms' = [vms EXCEPT ![s] = [st |-> "running", cfg |-> h.in.cfg, ctr |-> h.in.ctr, ports |-> h.got, sshd |-> FALSE]]
    BY <2>1, <2>4 DEF Replaces
  <2> QED
    BY <1>15, <2>2, <2>3, <2>4 DEF BootFails
<1>16. CASE Remove(r)
  <2>1. h.pc = "remove" /\ UNCHANGED <<rows, leases>>
    BY <1>16 DEF Remove
  <2>2. CASE vms' = [vms EXCEPT ![s] = NoVm] /\ Goto(r, "release")
    <3>1. g.pc = "release"
      BY <1>0, <1>1, <2>2 DEF Goto, Handler
    <3> QED
      BY <2>1, <2>2, <3>1 DEF Removes
  <2>3. CASE "absent" \in Seen(s) /\ UNCHANGED vms
    BY <2>1, <2>3 DEF Spares, Seen
  <2>4. CASE MayFail /\ Finish(r) /\ UNCHANGED vms
    BY <1>1, <2>1, <2>4 DEF Finish, Spares
  <2>5. CASE MayFail /\ vms[s].st # "absent" /\ Finish(r) /\ vms' = Halted(s, "stopped")
    BY <1>1, <1>5, <2>1, <2>5 DEF Finish
  <2> QED
    BY <1>16, <2>2, <2>3, <2>4, <2>5 DEF Remove
<1>17. CASE Provision(r) /\ ~SyncFiles(r) /\ ~Boot(r) /\ ~BootFails(r)
  <2>1. UNCHANGED vms /\ h.pc \notin {"boot", "remove"}
    BY <1>17 DEF Provision, CheckConflict, LoadForUpdate, CheckName, Lookup, Probe, TryPort, Leased,
                 LeaseShort, KeepExisting, Replace, Insert, Health, Persist, At
  <2> QED
    BY <1>2, <2>1
<1>18. CASE Command(r) /\ ~Start(r) /\ ~Stop(r) /\ ~Exec(r) /\ ~Remove(r)
  <2>1. UNCHANGED vms /\ h.pc \notin {"boot", "remove"}
    BY <1>18 DEF Command, Find, SyncStatus, SyncSave, SaveStatus, MarkDeleting, ReleasePorts, DropRow, DropLeases
  <2> QED
    BY <1>2, <2>1
<1>19. CASE TokenCall(r)
  <2>1. UNCHANGED vms /\ h.pc \notin {"boot", "remove"}
    BY <1>19 DEF TokenCall, At
  <2> QED
    BY <1>2, <2>1
<1> QED
  BY <1>11, <1>12, <1>13, <1>14, <1>15, <1>16, <1>17, <1>18, <1>19 DEF Step

\* It leases the next port.
Takes(r) ==
  /\ req[r].pc \in {"lease1", "lease2"} /\ req'[r].pc = req[r].pc
  /\ req[r].scan \in Ports /\ leases[req[r].scan] = NoId
  /\ leases' = [leases EXCEPT ![req[r].scan] = req[r].ent.id]

\* It finds too few free ports.
RunsShort(r) ==
  req[r].pc \in {"lease1", "lease2"} /\ req[r].scan > PortEnd /\ Len(req[r].got) < req[r].want

\* It gives its ports back.
Frees(r) ==
  LET h == req[r]
      g == req'[r] IN
  /\ \/ RunsShort(r) /\ IF h.pc = "lease1" THEN g.pc = "dropRow" ELSE g = Idle
     \/ h.pc = "release" /\ g.pc = "dropRow"
     \/ h.pc = "dropLeases" /\ g.pc = "dropTokens"
  /\ Unlease(h.ent.id)

\* The three ways a step treats the leases.
LEMMA LeaseStep ==
  ASSUME ExclusiveInv, NEW r \in Reqs, Step(r)
  PROVE  \/ UNCHANGED leases /\ req[r].pc # "release" /\ ~(req[r].pc = "lease1" /\ req'[r].pc = "dropRow")
         \/ (Takes(r) \/ Frees(r)) /\ UNCHANGED <<rows, vms>>
<1> DEFINE h == req[r]
           g == req'[r]
<1>0. h \in Handler /\ HandlerOK(h) /\ TypeInv
  BY DEF ExclusiveInv, TypeInv, TypeOK
<1>1. ASSUME NEW k, Become(r, k) PROVE g = k
  BY <1>0, <1>1 DEF Become, TypeInv, TypeOK
<1>2. ASSUME NEW pc, Goto(r, pc) PROVE g.pc = pc
  BY <1>0, <1>1, <1>2 DEF Goto, Handler
<1>11. CASE TryPort(r)
  <2>1. h.pc \in {"lease1", "lease2"} /\ h.scan \in Ports /\ UNCHANGED <<rows, vms>>
    BY <1>0, <1>11, PortsAssumption DEF TryPort, Handler, HandlerOK, Ports
  <2>2. g.pc = h.pc
    <3>1. \/ g = [h EXCEPT !.got = Append(h.got, h.scan), !.scan = h.scan + 1]
          \/ g = [h EXCEPT !.scan = h.scan + 1]
      BY <1>1, <1>11 DEF TryPort
    <3> QED
      BY <1>0, <3>1 DEF Handler
  <2> QED
    BY <1>11, <2>1, <2>2 DEF TryPort, Takes
<1>12. CASE LeaseShort(r)
  <2>1. RunsShort(r) /\ Unlease(h.ent.id) /\ UNCHANGED <<rows, vms>>
    BY <1>12 DEF LeaseShort, RunsShort
  <2>2. IF h.pc = "lease1" THEN g.pc = "dropRow" ELSE g = Idle
    <3>1. IF h.pc = "lease1" THEN g = Leasing(h, "dropRow", 0) ELSE g = Idle
      BY <1>1, <1>12 DEF LeaseShort, Finish
    <3> QED
      BY <1>0, <3>1 DEF Leasing, Handler
  <2> QED
    BY <2>1, <2>2 DEF Frees
<1>13. CASE ReleasePorts(r) \/ DropLeases(r)
  BY <1>2, <1>13 DEF ReleasePorts, DropLeases, Frees
<1>14. CASE Provision(r) /\ ~TryPort(r) /\ ~LeaseShort(r)
  <2>1. UNCHANGED leases /\ h.pc # "release"
    BY <1>14 DEF Provision, CheckConflict, LoadForUpdate, CheckName, Lookup, Probe, SyncFiles, Leased,
                 KeepExisting, Replace, Insert, Boot, BootFails, Health, Persist, At
  <2>2. CASE h.pc = "lease1"
    <3>1. Leased(r)
      BY <1>14, <2>2 DEF Provision, CheckConflict, LoadForUpdate, CheckName, Lookup, Probe, SyncFiles,
                 KeepExisting, Replace, Insert, Boot, BootFails, Health, Persist, At
    <3>2. g = Allocate(h)
      BY <1>1, <2>2, <3>1 DEF Leased
    <3> QED
      BY <1>0, <2>1, <3>2, AllocateKeeps
  <2> QED
    BY <2>1, <2>2
<1>15. CASE Command(r) /\ ~ReleasePorts(r) /\ ~DropLeases(r)
  BY <1>15 DEF Command, Find, SyncStatus, SyncSave, Start, Stop, Exec, SaveStatus, MarkDeleting, Remove, DropRow, At
<1>16. CASE TokenCall(r)
  BY <1>16 DEF TokenCall, At
<1> QED
  BY <1>11, <1>12, <1>13, <1>14, <1>15, <1>16 DEF Step

\* What any step of a handler makes of it.
LEMMA HandlerStep ==
  ASSUME ExclusiveInv, NEW r \in Reqs, Step(r)
  PROVE  LET h == req[r]
             g == req'[r] IN
         \/ Outside(h, g) \/ Finds(h, g) \/ Creates(h, g) \/ Proceeds(h, g) \/ Allocates(h, g)
         \/ Tries(h, g) \/ Binds(h, g) \/ Boots(h, g) \/ Checks(h, g)
  BY ProvisionStep, CommandStep DEF Step

\* A request arrives in an idle slot.
LEMMA Arrival ==
  ASSUME TypeInv, NEW r \in Reqs, Accept(r)
  PROVE  /\ UNCHANGED <<rows, leases, vms>> /\ req[r].pc = "idle"
         /\ req'[r].pc \in {"conflict", "name", "load", "find"}
         /\ \A q \in Reqs \ {r} : req'[q] = req[q]
<1>0. req \in [Reqs -> Handler]
  BY DEF TypeInv, TypeOK
<1> DEFINE Admitted(pc) == \E op, key, in, ks : Admit(r, op, pc, key, in, ks)
<1>1. PICK pc \in {"conflict", "name", "load", "find"} : Admitted(pc)
  <2>1. AcceptCreate(r) => Admitted("conflict")
    BY DEF AcceptCreate
  <2>2. AcceptEnsure(r) => Admitted("name")
    BY DEF AcceptEnsure
  <2>3. AcceptUpdate(r) => Admitted("load")
    BY DEF AcceptUpdate
  <2>4. AcceptCommand(r) => Admitted("find")
    BY DEF AcceptCommand
  <2> HIDE DEF Admitted
  <2> QED
    BY <2>1, <2>2, <2>3, <2>4 DEF Accept
<1>2. PICK op, key, in, ks : Admit(r, op, pc, key, in, ks)
  BY <1>1
<1> DEFINE k == [Idle EXCEPT !.op = op, !.pc = pc, !.key = key, !.in = in, !.foot = Footprint(ks)]
<1>3. req[r].pc = "idle" /\ UNCHANGED <<rows, leases, vms>> /\ req' = [req EXCEPT ![r] = k]
  BY <1>2 DEF Admit, Become
<1>4. k.pc = pc
  BY DEF Idle
<1> HIDE DEF k
<1> QED
  BY <1>0, <1>3, <1>4

\* What happens otherwise: requests arrive, VMs stop, the process dies.
LEMMA OtherStep ==
  ASSUME TypeInv, [Next]_vars, \A r \in Reqs : ~Step(r)
  PROVE  /\ UNCHANGED <<rows, leases>>
         /\ \A s \in Sids : /\ vms'[s].st = "absent" <=> vms[s].st = "absent"
                            /\ vms'[s].cfg = vms[s].cfg /\ vms'[s].ctr = vms[s].ctr /\ vms'[s].ports = vms[s].ports
         /\ \/ \A q \in Reqs : req'[q] = req[q] \/ (req[q].pc = "idle" /\ req'[q].pc \in SearchPcs)
            \/ Crash /\ \A q \in Reqs : req'[q] = Idle
<1>0. req \in [Reqs -> Handler] /\ vms \in [Sids -> Vm]
  BY DEF TypeInv, TypeOK
<1>1. CASE \E r \in Reqs : Accept(r)
  BY <1>1, Arrival DEF SearchPcs
<1>2. CASE \E s \in Sids : VmStops(s)
  <2>1. PICK s \in Sids : VmStops(s)
    BY <1>2
  <2>2. UNCHANGED <<rows, leases, req>> /\ vms[s].st # "absent" /\ vms[s] \in Vm
        /\ vms' = [vms EXCEPT ![s] = [vms[s] EXCEPT !.st = "stopped", !.sshd = FALSE]]
    BY <1>0, <2>1 DEF VmStops, Halted
  <2>3. /\ vms'[s].st = "stopped" /\ vms'[s].cfg = vms[s].cfg
        /\ vms'[s].ctr = vms[s].ctr /\ vms'[s].ports = vms[s].ports
        /\ \A t \in Sids \ {s} : vms'[t] = vms[t]
    BY <1>0, <2>2 DEF Vm
  <2> QED
    BY <2>2, <2>3
<1>3. CASE Crash
  BY <1>3 DEF Crash
<1>4. CASE UNCHANGED vars
  BY <1>4 DEF vars
<1> QED
  BY <1>1, <1>2, <1>3, <1>4 DEF Next

\* A step of one handler leaves alone the row, the VM and the leases of another's runtime.
LEMMA OthersKept ==
  ASSUME ExclusiveInv, NEW r \in Reqs, Step(r), NEW q \in Reqs \ {r}
  PROVE  /\ req'[q] = req[q]
         /\ LET e == req[q].ent IN
            req[q].pc \in OwnerPcs =>
              /\ e \in Entity /\ rows'[e.id] = rows[e.id] /\ vms'[e.sid] = vms[e.sid]
              /\ \A p \in Ports : leases[p] = e.id => leases'[p] = e.id
<1> DEFINE e == req[q].ent
           h == req[r]
<1>0. OnlyOwn(r) /\ TypeInv /\ \A x \in Reqs : HandlerOK(req[x]) /\ Owned(req[x]) /\ req[x] \in Handler
  BY StepKeeps DEF Keeps, ExclusiveInv, TypeInv, TypeOK
<1>1. req'[q] = req[q] /\ req[q].foot \cap h.foot = {}
  BY <1>0 DEF OnlyOwn, ExclusiveInv, Separate
<1>2. ASSUME req[q].pc \in OwnerPcs
      PROVE  /\ e \in Entity /\ rows'[e.id] = rows[e.id] /\ vms'[e.sid] = vms[e.sid]
             /\ \A p \in Ports : leases[p] = e.id => leases'[p] = e.id
  <2>1. e \in Entity /\ e.sid \in req[q].foot /\ rows[e.id] # NoRow /\ rows[e.id].sid = e.sid
    BY <1>0, <1>2, Phases DEF HandlerOK, Owned
  <2>2. rows'[e.id] = rows[e.id] /\ vms'[e.sid] = vms[e.sid]
    BY <1>0, <1>1, <2>1 DEF OnlyOwn, Entity
  <2>3. CASE UNCHANGED leases
    BY <2>1, <2>2, <2>3
  <2>4. CASE Takes(r)
    BY <2>1, <2>2, <2>4, <1>0, NullsAssumption DEF Takes, TypeInv, TypeOK, Entity
  <2>5. CASE Frees(r)
    <3>1. h.pc \in OwnerPcs \/ h.pc = "dropLeases"
      BY <2>5, Phases DEF Frees, RunsShort
    <3>2. h.ent.id # e.id
      BY <1>0, <1>1, <2>1, <3>1, Phases DEF Owned
    <3> QED
      BY <2>1, <2>2, <2>5, <3>2 DEF Frees, Unlease
  <2> QED
    BY <2>3, <2>4, <2>5, LeaseStep
<1> QED
  BY <1>1, <1>2

--------------------------------------------------------------------------------
(* Bindings: the row of a runtime, the entity a handler holds, the ports it has *)
(* got and the ports its VM publishes, kept in step.                            *)

Agree(p, q) == \A k \in DOMAIN p \cap DOMAIN q : p[k] = q[k]

\* No two rows have the same sandboxId.
UniqueSids == \A i, j \in Ids : rows[i] # NoRow /\ rows[j] # NoRow /\ rows[i].sid = rows[j].sid => i = j

\* Until it has replaced the VM a handler holds the bindings of its row; from then on
\* those of its VM, which continue the ones of the row.
BindingsKnown(h) ==
  /\ h.pc \in OwnerPcs \ {"persist"} => h.ent.ports = rows[h.ent.id].ports
  /\ h.pc \in {"boot", "health", "persist"} => Agree(h.got, rows[h.ent.id].ports)
  /\ h.pc \in {"health", "persist"} => vms[h.ent.sid].ports = h.got
  /\ h.pc = "persist" => h.ent.ports = h.got
  /\ h.pc = "lease1" => h.ent.ports = <<>>

BindingsInv ==
  /\ UniqueSids
  /\ \A r \in Reqs : BindingsKnown(req[r])

\* Bindings that are cut short, or continued, agree with what they were.
LEMMA CutAgrees ==
  ASSUME NEW S, NEW p \in Seq(S), NEW n \in 1 .. Len(p)
  PROVE  Agree(SubSeq(p, 1, n), p)
  BY DEF Agree

LEMMA LongerAgrees ==
  ASSUME NEW S, NEW p \in Seq(S), NEW q \in Seq(S)
  PROVE  Agree(p \o q, p)
  BY DEF Agree

LEMMA AgreeSym == ASSUME NEW p, NEW q, Agree(p, q) PROVE Agree(q, p)
  BY DEF Agree

\* The UNIQUE key on sandboxId.
LEMMA UniqueStep ==
  ASSUME ExclusiveInv, UniqueSids, NEW r \in Reqs, Step(r)
  PROVE  UniqueSids'
<1>0. rows \in [Ids -> Entity \cup {NoRow}]
  BY DEF ExclusiveInv, TypeInv, TypeOK
<1>1. CASE UNCHANGED rows
  BY <1>1 DEF UniqueSids
<1>2. ASSUME NEW i \in Ids, NEW e \in Entity, e.id = i, Savable(e), rows' = [rows EXCEPT ![i] = e] PROVE UniqueSids'
  BY <1>0, <1>2 DEF UniqueSids, Savable
<1>3. CASE Inserts(r)
  BY <1>2, <1>3 DEF Inserts
<1>4. CASE \E e \in Entity : Saves(r, e)
  <2>1. PICK e \in Entity : Saves(r, e)
    BY <1>4
  <2>2. e.id \in Ids
    BY DEF Entity
  <2> QED
    BY <1>2, <2>1, <2>2 DEF Saves
<1>5. CASE Drops(r)
  BY <1>0, <1>5 DEF Drops, UniqueSids
<1> QED
  BY <1>1, <1>3, <1>4, <1>5, RowStep

\* What the handler at r holds after its own step.
LEMMA BindingsOwn ==
  ASSUME ExclusiveInv, BindingsInv, NEW r \in Reqs, Step(r)
  PROVE  BindingsKnown(req[r])'
<1> DEFINE h == req[r]
           g == req'[r]
<1>0. h \in Handler /\ g \in Handler /\ TypeInv /\ TypeInv' /\ HandlerOK(h) /\ Owned(h)
  BY StepKeeps DEF Keeps, ExclusiveInv, TypeInv, TypeOK
<1>1. /\ h.pc \in EntPcs => h.ent \in Entity /\ h.ent.id \in Ids /\ h.ent.sid \in Sids /\ h.ent.ports \in Seq(Ports)
      /\ h.pc \in SpecPcs => h.in \in SpecType
  BY <1>0 DEF HandlerOK, Entity
<1>2. BindingsKnown(h)
  BY DEF BindingsInv
<1>3. h.pc \in OwnerPcs \ {"insert", "keep", "replace", "persist", "syncSave", "save", "deleting", "dropRow"} => UNCHANGED rows
  BY RowStep DEF Inserts, Saves, Drops
<1>4. CASE Outside(h, g)
  BY <1>4, Phases DEF Outside, BindingsKnown
<1>5. CASE Finds(h, g)
  <2>1. UNCHANGED rows
    BY <1>5, RowStep DEF Finds, Inserts, Saves, Drops
  <2>2. rows[g.ent.id] = g.ent
    BY <1>0, <1>5, RowById DEF Finds
  <2> QED
    BY <1>5, <2>1, <2>2 DEF Finds, BindingsKnown
<1>6. CASE Creates(h, g)
  <2>1. Inserts(r)
    BY <1>6, IdleOwned, RowStep DEF Creates, Refused, Saves, Drops
  <2>2. rows'[g.ent.id] = g.ent
    BY <1>0, <2>1 DEF Inserts, TypeInv, TypeOK
  <2> QED
    BY <1>6, <2>2 DEF Creates, BindingsKnown
<1>7. CASE Proceeds(h, g)
  <2>1. rows'[h.ent.id].ports = rows[h.ent.id].ports
    <3>1. CASE UNCHANGED rows
      BY <3>1
    <3>2. CASE Inserts(r) \/ Drops(r)
      BY <1>7, <3>2, Phases DEF Inserts, Drops, Proceeds
    <3>3. ASSUME NEW e \in Entity, Saves(r, e) PROVE rows'[h.ent.id].ports = rows[h.ent.id].ports
      BY <1>0, <1>1, <1>2, <1>7, <3>3, Phases DEF Proceeds, Saves, BindingsKnown, TypeInv, TypeOK
    <3> QED
      BY <3>1, <3>2, <3>3, RowStep
  <2> QED
    BY <1>2, <1>7, <2>1 DEF Proceeds, SameRuntime, BindingsKnown
<1>8. CASE Allocates(h, g)
  <2>1. h.pc \in EntPcs /\ h.pc \in OwnerPcs /\ h.pc # "persist"
    BY <1>8, Phases DEF Allocates
  <2>2. rows'[h.ent.id].ports = h.ent.ports
    <3>1. CASE UNCHANGED rows
      BY <1>2, <2>1, <3>1 DEF BindingsKnown
    <3>2. CASE Inserts(r) \/ Drops(r)
      BY <1>8, <3>2 DEF Inserts, Drops, Allocates
    <3>3. ASSUME NEW e \in Entity, Saves(r, e) PROVE rows'[h.ent.id].ports = h.ent.ports
      BY <1>0, <1>1, <2>1, <3>3 DEF Saves, TypeInv, TypeOK
    <3> QED
      BY <3>1, <3>2, <3>3, RowStep
  <2>3. CASE g.pc = "lease2"
    BY <1>8, <2>2, <2>3 DEF Allocates, SameRuntime, BindingsKnown
  <2>4. CASE g.pc = "boot"
    <3>1. Len(h.in.ctr) \in 1 .. Len(h.ent.ports) /\ g.got = SubSeq(h.ent.ports, 1, Len(h.in.ctr))
      BY <1>8, <2>4 DEF Allocates
    <3>2. Agree(g.got, h.ent.ports)
      BY <1>1, <2>1, <3>1, CutAgrees
    <3> QED
      BY <1>8, <2>2, <2>4, <3>2 DEF Allocates, SameRuntime, BindingsKnown
  <2> QED
    BY <1>8, <2>3, <2>4 DEF Allocates
<1>9. CASE Tries(h, g)
  <2>1. UNCHANGED rows
    BY <1>3, <1>9, Phases DEF Tries
  <2> QED
    BY <1>2, <1>9, <2>1 DEF Tries, BindingsKnown
<1>10. CASE Binds(h, g)
  <2>1. UNCHANGED rows /\ h.ent \in Entity
    BY <1>1, <1>3, <1>10, Phases DEF Binds
  <2>2. Agree(h.ent.ports \o h.got, h.ent.ports)
    <3>1. h.got \in Seq(Ports) /\ h.ent.ports \in Seq(Ports)
      BY <1>0, <1>1, <2>1 DEF Handler, Entity
    <3> QED
      BY <3>1, LongerAgrees
  <2> QED
    BY <1>2, <1>10, <2>1, <2>2, Phases DEF Binds, BindingsKnown
<1>11. CASE Boots(h, g)
  <2>1. UNCHANGED rows /\ h.ent.sid \in Sids
    BY <1>1, <1>3, <1>11, Phases DEF Boots
  <2>2. vms'[h.ent.sid].ports = h.got
    <3>1. Replaces(r)
      BY <1>11, IdleOwned, VmStep DEF Boots, Spares, Toggles, Removes, CannotBoot
    <3> QED
      BY <1>0, <2>1, <3>1 DEF Replaces, TypeInv, TypeOK
  <2> QED
    BY <1>2, <1>11, <2>1, <2>2, Phases DEF Boots, BindingsKnown
<1>12. CASE Checks(h, g)
  <2>1. UNCHANGED <<rows, vms>>
    BY <1>3, <1>12, Phases, VmStep DEF Checks, Spares, Toggles, Replaces, Removes
  <2> QED
    BY <1>2, <1>12, <2>1 DEF Checks, BindingsKnown
<1> QED
  BY <1>4, <1>5, <1>6, <1>7, <1>8, <1>9, <1>10, <1>11, <1>12, HandlerStep

\* Every step keeps the bindings in step.
LEMMA BindingsNext ==
  Exclusive /\ ExclusiveInv /\ BindingsInv /\ [Next]_vars => BindingsInv'
<1> SUFFICES ASSUME Exclusive, ExclusiveInv, BindingsInv, [Next]_vars PROVE BindingsInv'
  OBVIOUS
<1>0. TypeInv
  BY DEF ExclusiveInv
<1>1. ASSUME NEW r \in Reqs, Step(r) PROVE BindingsInv'
  <2>1. ASSUME NEW q \in Reqs \ {r} PROVE BindingsKnown(req[q])'
    <3>1. Owned(req[q]) /\ BindingsKnown(req[q])
      BY DEF ExclusiveInv, BindingsInv
    <3> QED
      BY <1>1, <3>1, OthersKept, Phases DEF BindingsKnown
  <2>2. BindingsKnown(req[r])'
    BY <1>1, BindingsOwn
  <2>3. UniqueSids'
    BY <1>1, UniqueStep DEF BindingsInv
  <2> QED
    BY <2>1, <2>2, <2>3 DEF BindingsInv
<1>2. CASE \A r \in Reqs : ~Step(r)
  <2>1. ASSUME NEW q \in Reqs PROVE BindingsKnown(req[q])'
    <3>1. BindingsKnown(req[q]) /\ HandlerOK(req[q])
      BY <1>0 DEF BindingsInv, TypeInv
    <3>2. CASE req'[q] = req[q]
      BY <1>0, <1>2, <3>1, <3>2, OtherStep, Phases DEF BindingsKnown, HandlerOK, Entity
    <3>3. CASE req'[q].pc \in SearchPcs \/ req'[q] = Idle
      BY <3>3, IdleOwned, Phases DEF BindingsKnown
    <3> QED
      BY <1>0, <1>2, <3>2, <3>3, OtherStep
  <2>2. UniqueSids'
    BY <1>0, <1>2, OtherStep DEF BindingsInv, UniqueSids
  <2> QED
    BY <2>1, <2>2 DEF BindingsInv
<1> QED
  BY <1>1, <1>2

LEMMA BindingsInit == Init => BindingsInv
  BY IdleOwned, Phases DEF Init, BindingsInv, UniqueSids, BindingsKnown

LEMMA Bindings == Exclusive => (Spec => [](ExclusiveInv /\ BindingsInv))
<1> SUFFICES ASSUME Exclusive PROVE Spec => [](ExclusiveInv /\ BindingsInv)
  OBVIOUS
<1>1. ExclusiveInv /\ BindingsInv /\ [Next]_vars => BindingsInv'
  BY BindingsNext
<1> QED
  BY Ownership, BindingsInit, <1>1, PTL DEF Spec

\* A container port that keeps its place in the list of its runtime keeps its host port:
\* provision saves host ports that continue those of the row, and no other route saves
\* others.  Where a container port changes its place, as port 22 does when a port is
\* added, its host port changes with it.
THEOREM StableHostPorts == Exclusive => (Spec => HostPortsStable)
<1> SUFFICES ASSUME Exclusive PROVE Spec => HostPortsStable
  OBVIOUS
<1> DEFINE A == \A i \in Ids : rows[i] # NoRow /\ rows'[i] # NoRow =>
                  \A k \in DOMAIN rows[i].ports \cap DOMAIN rows'[i].ports :
                    rows'[i].ctr[k] = rows[i].ctr[k] => rows'[i].ports[k] = rows[i].ports[k]
<1>1. ExclusiveInv /\ BindingsInv /\ [Next]_vars => [A]_vars
  <2> SUFFICES ASSUME ExclusiveInv, BindingsInv, [Next]_vars,
                      NEW i \in Ids, rows[i] # NoRow, rows'[i] # NoRow
               PROVE  Agree(rows[i].ports, rows'[i].ports)
    BY DEF Agree
  <2>0. TypeInv /\ rows \in [Ids -> Entity \cup {NoRow}]
    BY DEF ExclusiveInv, TypeInv, TypeOK
  <2>1. CASE rows'[i] = rows[i]
    BY <2>1 DEF Agree
  <2>2. CASE \A r \in Reqs : ~Step(r)
    BY <2>0, <2>1, <2>2, OtherStep
  <2>3. ASSUME NEW r \in Reqs, Step(r), rows'[i] # rows[i] PROVE Agree(rows[i].ports, rows'[i].ports)
    <3> DEFINE h == req[r]
    <3>1. BindingsKnown(h) /\ HandlerOK(h)
      BY <2>0 DEF BindingsInv, TypeInv
    <3>2. ~Inserts(r) /\ ~Drops(r)
      BY <2>0, <2>3 DEF Inserts, Drops, Fresh
    <3>3. PICK e \in Entity : Saves(r, e)
      BY <2>3, <3>2, RowStep
    <3>4. h.pc \in OwnerPcs /\ i = h.ent.id /\ rows'[i].ports = h.ent.ports
      BY <2>0, <2>3, <3>3, Phases DEF Saves
    <3> QED
      BY <3>1, <3>4, AgreeSym DEF BindingsKnown, Agree
  <2> QED
    BY <2>1, <2>2, <2>3
<1>2. HostPortsStable <=> [][A]_vars
  BY DEF HostPortsStable
<1> HIDE DEF A
<1> QED
  BY <1>1, <1>2, Bindings, PTL DEF Spec

--------------------------------------------------------------------------------
(* Leases: a runtime holds the ports its row names, and those its handler has   *)
(* got.  Two behaviours of the code break this, and the theorems exclude them:  *)
(* leasePorts running short for a runtime that has bindings already, which      *)
(* gives those back too, and a crash between releasePorts and deleteRuntime.    *)

ShortGrowth == \E r \in Reqs : req[r].pc = "lease2" /\ req[r].ent.ports # <<>> /\ RunsShort(r)

CutDelete == Crash /\ \E r \in Reqs : req[r].pc = "dropRow"

Holds(i, ps) == \A k \in DOMAIN ps : leases[ps[k]] = i
\* The same after the step.
StillHolds(i, ps) == \A k \in DOMAIN ps : leases'[ps[k]] = i

\* What a handler has got it holds; one that is past marking its row as deleting has a
\* row so marked, unless it is undoing an insert.
LeaseKnown(h) ==
  /\ h.pc \in {"remove", "release", "dropRow"} => rows[h.ent.id].status = "deleting" \/ h.ent.ports = <<>>
  /\ h.pc \in {"lease1", "lease2", "boot", "health", "persist"} => Holds(h.ent.id, h.got)

Dropping(i) == \E r \in Reqs : req[r].pc = "dropRow" /\ req[r].ent.id = i

LeasedInv ==
  /\ \A r \in Reqs : LeaseKnown(req[r])
  /\ \A i \in Ids : rows[i] # NoRow => Holds(i, rows[i].ports) \/ Dropping(i)

\* Two handlers never work on the same row.
LEMMA OneWorker ==
  ASSUME ExclusiveInv, NEW r \in Reqs, NEW q \in Reqs,
         req[r].pc \in OwnerPcs, req[q].pc \in OwnerPcs, req[r].ent.id = req[q].ent.id
  PROVE  q = r
<1>1. req[r].ent.sid \in req[r].foot /\ req[q].ent.sid \in req[q].foot /\ req[r].ent.sid = req[q].ent.sid
  BY Phases DEF ExclusiveInv, Owned
<1> QED
  BY <1>1 DEF ExclusiveInv, Separate

\* A row whose handler is not dropping it holds its ports.
LEMMA HoldsItsPorts ==
  ASSUME ExclusiveInv, LeasedInv, NEW r \in Reqs, req[r].pc \in OwnerPcs \ {"dropRow"}
  PROVE  Holds(req[r].ent.id, rows[req[r].ent.id].ports)
<1>1. req[r].ent.id \in Ids /\ rows[req[r].ent.id] # NoRow
  BY Phases DEF ExclusiveInv, TypeInv, HandlerOK, Owned, Entity
<1>2. ~Dropping(req[r].ent.id)
  BY OneWorker, Phases DEF Dropping
<1> QED
  BY <1>1, <1>2 DEF LeasedInv

\* Ports are kept by all but the handler of the runtime.
LEMMA KeptPorts ==
  ASSUME ExclusiveInv, NEW r \in Reqs, Step(r), NEW i \in Ids, ~(Frees(r) /\ req[r].ent.id = i),
         NEW p \in Ports, leases[p] = i
  PROVE  leases'[p] = i
<1>1. leases \in [Ports -> Ids \cup {NoId}]
  BY DEF ExclusiveInv, TypeInv, TypeOK
<1>2. CASE Takes(r)
  BY <1>1, <1>2, NullsAssumption DEF Takes
<1>3. CASE Frees(r)
  BY <1>1, <1>3 DEF Frees, Unlease
<1> QED
  BY <1>2, <1>3, LeaseStep

\* What the handler at r holds after its own step.
LEMMA LeasedOwn ==
  ASSUME ExclusiveInv, BindingsInv, LeasedInv, NEW r \in Reqs, Step(r)
  PROVE  LeaseKnown(req[r])'
<1> DEFINE h == req[r]
           g == req'[r]
<1>0. h \in Handler /\ HandlerOK(h) /\ Owned(h) /\ TypeInv /\ rows \in [Ids -> Entity \cup {NoRow}]
      /\ leases \in [Ports -> Ids \cup {NoId}]
  BY DEF ExclusiveInv, TypeInv, TypeOK
<1>1. h.pc \in OwnerPcs => h.ent \in Entity /\ h.ent.id \in Ids /\ h.ent.ports \in Seq(Ports)
  BY <1>0, Phases DEF HandlerOK, Entity
<1>2. LeaseKnown(h) /\ BindingsKnown(h) /\ h.got \in Seq(Ports)
  BY <1>0 DEF LeasedInv, BindingsInv, Handler
<1>3. ASSUME h.pc \in OwnerPcs, ~Frees(r), NEW ps \in Seq(Ports), Holds(h.ent.id, ps) PROVE StillHolds(h.ent.id, ps)
  BY <1>1, <1>3, KeptPorts DEF Holds, StillHolds
<1>4. CASE Outside(h, g)
  BY <1>4, Phases DEF Outside, LeaseKnown
<1>5. CASE Finds(h, g) \/ Creates(h, g)
  BY <1>5 DEF Finds, Creates, LeaseKnown, Holds, StillHolds
<1>6. CASE Proceeds(h, g)
  <2>1. CASE g.pc = "remove"
    <3>1. PICK e \in Entity : Saves(r, e)
      BY <1>6, <2>1, IdleOwned, RowStep DEF Proceeds, Inserts, Drops, Refused
    <3>2. rows'[h.ent.id].status = "deleting"
      BY <1>0, <1>1, <1>6, <2>1, <3>1 DEF Saves, Proceeds
    <3> QED
      BY <1>6, <2>1, <3>2 DEF Proceeds, SameRuntime, LeaseKnown
  <2>2. CASE g.pc \in {"release", "dropRow"}
    <3>1. UNCHANGED rows /\ h.pc \in {"remove", "lease1", "release"}
      BY <1>6, <2>2, RowStep DEF Proceeds, Inserts, Saves, Drops
    <3> QED
      BY <1>2, <1>6, <2>2, <3>1 DEF Proceeds, SameRuntime, LeaseKnown, BindingsKnown
  <2> QED
    BY <1>6, <2>1, <2>2 DEF Proceeds, LeaseKnown
<1>7. CASE Allocates(h, g)
  <2>1. CASE g.pc = "lease2"
    BY <1>7, <2>1 DEF Allocates, LeaseKnown, Holds, StillHolds
  <2>2. CASE g.pc = "boot"
    <3>1. h.pc \in OwnerPcs \ {"dropRow", "persist"} /\ ~Frees(r)
      BY <1>7, <2>2, IdleOwned, Phases DEF Allocates, Frees, RunsShort
    <3>2. Holds(h.ent.id, h.ent.ports)
      BY <1>2, <3>1, HoldsItsPorts DEF BindingsKnown
    <3>3. StillHolds(h.ent.id, h.ent.ports)
      BY <1>1, <1>3, <3>1, <3>2
    <3>4. g.got = SubSeq(h.ent.ports, 1, Len(h.in.ctr)) /\ Len(h.in.ctr) \in 1 .. Len(h.ent.ports) /\ g.ent.id = h.ent.id
      BY <1>7, <2>2 DEF Allocates, SameRuntime
    <3>5. ASSUME NEW ps \in Seq(Ports), NEW n \in 1 .. Len(ps), NEW k \in DOMAIN SubSeq(ps, 1, n)
          PROVE  k \in DOMAIN ps /\ SubSeq(ps, 1, n)[k] = ps[k]
      OBVIOUS
    <3>6. StillHolds(h.ent.id, g.got)
      BY <1>1, <3>1, <3>3, <3>4, <3>5 DEF Holds, StillHolds
    <3> QED
      BY <2>2, <3>4, <3>6 DEF LeaseKnown, Holds, StillHolds
  <2> QED
    BY <1>7, <2>1, <2>2 DEF Allocates
<1>8. CASE Tries(h, g)
  <2>1. h.pc \in OwnerPcs /\ Holds(h.ent.id, h.got)
    BY <1>2, <1>8, Phases DEF Tries, LeaseKnown
  <2>2. CASE g.got = h.got /\ UNCHANGED leases
    BY <1>8, <2>1, <2>2 DEF Tries, LeaseKnown, Holds, StillHolds
  <2>3. CASE /\ h.scan \in Ports /\ leases[h.scan] = NoId /\ g.got = Append(h.got, h.scan)
             /\ leases' = [leases EXCEPT ![h.scan] = h.ent.id]
    <3>1. ~Frees(r)
      BY <1>8, IdleOwned DEF Tries, Frees
    <3>2. StillHolds(h.ent.id, h.got) /\ leases'[h.scan] = h.ent.id
      BY <1>0, <1>2, <1>3, <2>1, <2>3, <3>1
    <3>3. ASSUME NEW ps \in Seq(Ports), NEW p \in Ports, NEW k \in DOMAIN Append(ps, p)
          PROVE  Append(ps, p)[k] = p \/ (k \in DOMAIN ps /\ Append(ps, p)[k] = ps[k])
      OBVIOUS
    <3>4. StillHolds(h.ent.id, g.got)
      BY <1>2, <2>3, <3>2, <3>3 DEF Holds, StillHolds
    <3> QED
      BY <1>8, <3>4 DEF Tries, LeaseKnown, Holds, StillHolds
  <2> QED
    BY <1>8, <2>2, <2>3 DEF Tries
<1>9. CASE Binds(h, g)
  <2>1. h.pc \in OwnerPcs \ {"dropRow", "persist"} /\ ~Frees(r)
    BY <1>9, IdleOwned, Phases DEF Binds, Frees, RunsShort
  <2>2. StillHolds(h.ent.id, h.ent.ports) /\ StillHolds(h.ent.id, h.got)
    <3>1. Holds(h.ent.id, h.ent.ports) /\ Holds(h.ent.id, h.got)
      BY <1>2, <1>9, <2>1, HoldsItsPorts DEF BindingsKnown, LeaseKnown, Binds
    <3> QED
      BY <1>1, <1>2, <1>3, <2>1, <3>1
  <2>3. ASSUME NEW ps \in Seq(Ports), NEW qs \in Seq(Ports), NEW j, StillHolds(j, ps), StillHolds(j, qs)
        PROVE  StillHolds(j, ps \o qs)
    <3> SUFFICES ASSUME NEW k \in DOMAIN (ps \o qs) PROVE leases'[(ps \o qs)[k]] = j
      BY DEF StillHolds
    <3>1. \/ k \in DOMAIN ps /\ (ps \o qs)[k] = ps[k]
          \/ k - Len(ps) \in DOMAIN qs /\ (ps \o qs)[k] = qs[k - Len(ps)]
      OBVIOUS
    <3> QED
      BY <2>3, <3>1 DEF StillHolds
  <2>4. StillHolds(h.ent.id, h.ent.ports \o h.got)
    BY <1>1, <1>2, <2>1, <2>2, <2>3
  <2> QED
    BY <1>9, <2>4 DEF Binds, LeaseKnown, Holds, StillHolds
<1>10. CASE Boots(h, g) \/ Checks(h, g)
  <2>1. h.pc \in {"boot", "health"} /\ g.pc \notin {"remove", "release", "dropRow"} /\ g.ent.id = h.ent.id /\ g.got = h.got
    BY <1>10 DEF Boots, Checks
  <2>2. StillHolds(h.ent.id, h.got)
    BY <1>2, <1>3, <2>1, Phases DEF LeaseKnown, Frees, RunsShort
  <2> QED
    BY <2>1, <2>2 DEF LeaseKnown, Holds, StillHolds
<1> QED
  BY <1>4, <1>5, <1>6, <1>7, <1>8, <1>9, <1>10, HandlerStep

\* The row of runtime i after a step of the handler at r.
LEMMA LeasedRows ==
  ASSUME ExclusiveInv, BindingsInv, LeasedInv, ~ShortGrowth, NEW r \in Reqs, Step(r),
         NEW i \in Ids, rows'[i] # NoRow
  PROVE  StillHolds(i, rows'[i].ports) \/ Dropping(i)'
<1> DEFINE h == req[r]
<1>0. h \in Handler /\ HandlerOK(h) /\ Owned(h) /\ TypeInv /\ rows \in [Ids -> Entity \cup {NoRow}]
  BY DEF ExclusiveInv, TypeInv, TypeOK
<1>1. h.pc \in OwnerPcs => h.ent \in Entity /\ h.ent.id \in Ids
  BY <1>0, Phases DEF HandlerOK, Entity
<1>2. LeaseKnown(h) /\ BindingsKnown(h) /\ h.got \in Seq(Ports)
  BY <1>0 DEF LeasedInv, BindingsInv, Handler
<1>3. ASSUME ~(Frees(r) /\ h.ent.id = i), NEW ps \in Seq(Ports), Holds(i, ps) PROVE StillHolds(i, ps)
  BY <1>3, KeptPorts DEF Holds, StillHolds
<1>4. CASE Frees(r) /\ h.ent.id = i
  <2>0. UNCHANGED rows
    <3>1. h.pc \in {"lease1", "lease2", "release", "dropLeases"}
      BY <1>4 DEF Frees, RunsShort
    <3> QED
      BY <3>1, RowStep DEF Inserts, Saves, Drops
  <2>1. CASE h.pc \in {"lease1", "lease2"}
    <3>1. rows'[i].ports = <<>>
      BY <1>2, <1>4, <2>0, <2>1, Phases DEF BindingsKnown, ShortGrowth, Frees
    <3> QED
      BY <3>1 DEF StillHolds
  <2>2. CASE h.pc = "release"
    <3>1. req'[r].pc = "dropRow" /\ req'[r].ent.id = i
      BY <1>4, <2>2, HandlerStep, Phases DEF Frees, RunsShort, Outside, Finds, Creates, Proceeds, SameRuntime, Allocates,
                                     Tries, Binds, Boots, Checks
    <3> QED
      BY <3>1 DEF Dropping
  <2>3. CASE h.pc = "dropLeases"
    BY <1>0, <1>4, <2>0, <2>3 DEF Owned
  <2> QED
    BY <1>4, <2>1, <2>2, <2>3 DEF Frees, RunsShort
<1>5. CASE ~(Frees(r) /\ h.ent.id = i) /\ rows'[i] = rows[i]
  <2>0. rows[i].ports \in Seq(Ports)
    BY <1>0, <1>5 DEF Entity
  <2>1. CASE Holds(i, rows[i].ports)
    BY <1>3, <1>5, <2>0, <2>1
  <2>2. ASSUME NEW q \in Reqs \ {r}, req[q].pc = "dropRow", req[q].ent.id = i PROVE Dropping(i)'
    BY <2>2, OthersKept DEF Dropping
  <2>3. CASE h.pc = "dropRow" /\ h.ent.id = i
    <3>1. Drops(r)
      BY <2>3, RowStep DEF Inserts, Saves, Refused
    <3> QED
      BY <1>0, <2>3, <3>1 DEF Drops
  <2> QED
    BY <1>5, <2>1, <2>2, <2>3 DEF LeasedInv, Dropping
<1>6. CASE ~(Frees(r) /\ h.ent.id = i) /\ rows'[i] # rows[i]
  <2>1. CASE Inserts(r) \/ Drops(r)
    BY <1>0, <1>6, <2>1 DEF Inserts, Drops, StillHolds
  <2>2. ASSUME NEW e \in Entity, Saves(r, e) PROVE StillHolds(i, rows'[i].ports)
    <3>1. h.pc \in OwnerPcs \ {"dropRow"} /\ i = h.ent.id /\ rows'[i].ports = h.ent.ports /\ h.ent.ports \in Seq(Ports)
      BY <1>0, <1>1, <1>6, <2>2, Phases DEF Saves, Entity
    <3>2. Holds(i, h.ent.ports)
      BY <1>2, <3>1, HoldsItsPorts DEF BindingsKnown, LeaseKnown
    <3> QED
      BY <1>3, <1>6, <3>1, <3>2
  <2> QED
    BY <1>6, <2>1, <2>2, RowStep
<1> QED
  BY <1>4, <1>5, <1>6

\* Every step but those two keeps the leases.
LEMMA LeasedNext ==
  Exclusive /\ ExclusiveInv /\ BindingsInv /\ LeasedInv /\ ~ShortGrowth /\ [Next]_vars /\ [~CutDelete]_vars
    => LeasedInv'
<1> SUFFICES ASSUME Exclusive, ExclusiveInv, BindingsInv, LeasedInv, ~ShortGrowth, [Next]_vars, [~CutDelete]_vars
             PROVE  LeasedInv'
  OBVIOUS
<1>0. TypeInv
  BY DEF ExclusiveInv
<1>1. ASSUME NEW r \in Reqs, Step(r) PROVE LeasedInv'
  <2>1. ASSUME NEW q \in Reqs \ {r} PROVE LeaseKnown(req[q])'
    <3>1. LeaseKnown(req[q]) /\ req[q] \in Handler
      BY <1>0 DEF LeasedInv, TypeInv, TypeOK
    <3>2. req[q].pc \in OwnerPcs => \A k \in DOMAIN req[q].got : req[q].got[k] \in Ports
      BY <3>1 DEF Handler
    <3> QED
      BY <1>1, <3>1, <3>2, OthersKept, Phases DEF LeaseKnown, Holds
  <2>2. LeaseKnown(req[r])'
    BY <1>1, LeasedOwn
  <2>3. ASSUME NEW i \in Ids, rows'[i] # NoRow PROVE Holds(i, rows[i].ports)' \/ Dropping(i)'
    BY <1>1, <2>3, LeasedRows DEF Holds, StillHolds
  <2> QED
    BY <2>1, <2>2, <2>3 DEF LeasedInv
<1>2. CASE \A r \in Reqs : ~Step(r)
  <2>1. ASSUME NEW q \in Reqs PROVE LeaseKnown(req[q])'
    <3>1. LeaseKnown(req[q])
      BY DEF LeasedInv
    <3>2. CASE req'[q] = req[q]
      BY <1>0, <1>2, <3>1, <3>2, OtherStep DEF LeaseKnown, Holds
    <3>3. CASE req'[q].pc \in SearchPcs \/ req'[q] = Idle
      BY <3>3, IdleOwned, Phases DEF LeaseKnown, SearchPcs
    <3> QED
      BY <1>0, <1>2, <3>2, <3>3, OtherStep
  <2>2. ASSUME NEW i \in Ids, rows'[i] # NoRow PROVE Holds(i, rows[i].ports)' \/ Dropping(i)'
    <3>1. UNCHANGED <<rows, leases>>
      BY <1>0, <1>2, OtherStep
    <3>2. ASSUME NEW q \in Reqs, req[q].pc = "dropRow" PROVE req'[q] = req[q]
      <4>1. CASE Crash /\ ~CutDelete
        BY <3>2, <4>1 DEF CutDelete
      <4>2. CASE UNCHANGED vars
        BY <4>2 DEF vars
      <4> QED
        BY <1>0, <1>2, <3>2, <4>1, <4>2, OtherStep
    <3> QED
      BY <2>2, <3>1, <3>2 DEF LeasedInv, Holds, Dropping
  <2> QED
    BY <2>1, <2>2 DEF LeasedInv
<1> QED
  BY <1>1, <1>2

LEMMA LeasedInit == Init => LeasedInv
  BY IdleOwned DEF Init, LeasedInv, LeaseKnown

LEMMA Leases ==
  Exclusive => (Spec /\ []~ShortGrowth /\ [][~CutDelete]_vars => [](ExclusiveInv /\ BindingsInv /\ LeasedInv))
<1> SUFFICES ASSUME Exclusive
             PROVE  Spec /\ []~ShortGrowth /\ [][~CutDelete]_vars => [](ExclusiveInv /\ BindingsInv /\ LeasedInv)
  OBVIOUS
<1>1. ExclusiveInv /\ BindingsInv /\ LeasedInv /\ ~ShortGrowth /\ [Next]_vars /\ [~CutDelete]_vars => LeasedInv'
  BY LeasedNext
<1> QED
  BY Bindings, LeasedInit, <1>1, PTL DEF Spec

LEMMA BoundHeld ==
  ASSUME ExclusiveInv, BindingsInv, LeasedInv
  PROVE  BoundPortsLeased
<1> SUFFICES ASSUME NEW i \in Ids, rows[i] # NoRow, rows[i].status # "deleting" PROVE Holds(i, rows[i].ports)
  BY DEF BoundPortsLeased, Holds
<1>1. ASSUME NEW r \in Reqs, req[r].pc = "dropRow", req[r].ent.id = i PROVE rows[i].ports = <<>>
  BY <1>1, Phases DEF LeasedInv, LeaseKnown, BindingsInv, BindingsKnown
<1> QED
  BY <1>1 DEF LeasedInv, Dropping, Holds

\* A host port that a runtime's bindings name is leased to that runtime unless it is
\* being deleted, whatever boots, health checks and removals fail: while leasePorts never
\* runs short for a runtime that has bindings (it gives those up too), and the process
\* does not die between releasePorts and deleteRuntime (the row keeps its bindings).
THEOREM LeasedBindings ==
  Exclusive => (Spec /\ []~ShortGrowth /\ [][~CutDelete]_vars => []BoundPortsLeased)
<1> SUFFICES ASSUME Exclusive
             PROVE  Spec /\ []~ShortGrowth /\ [][~CutDelete]_vars => []BoundPortsLeased
  OBVIOUS
<1>1. ExclusiveInv /\ BindingsInv /\ LeasedInv => BoundPortsLeased
  BY BoundHeld
<1> QED
  BY Leases, <1>1, PTL

\* Under the same conditions no two runtimes name the same host port, so the proxy
\* reaches the right sandbox.
THEOREM HostPortsDisjoint ==
  Exclusive => (Spec /\ []~ShortGrowth /\ [][~CutDelete]_vars => []NoSharedHostPort)
<1> SUFFICES ASSUME Exclusive
             PROVE  Spec /\ []~ShortGrowth /\ [][~CutDelete]_vars => []NoSharedHostPort
  OBVIOUS
<1>1. TypeInv /\ BoundPortsLeased => NoSharedHostPort
  <2> SUFFICES ASSUME TypeInv, BoundPortsLeased, NEW e \in Rows, NEW f \in Rows, e.id # f.id,
                      e.status # "deleting", f.status # "deleting",
                      NEW j \in DOMAIN e.ports, NEW k \in DOMAIN f.ports
               PROVE  e.ports[j] # f.ports[k]
    BY DEF NoSharedHostPort
  <2>1. /\ e.id \in Ids /\ rows[e.id] = e /\ e # NoRow
        /\ f.id \in Ids /\ rows[f.id] = f /\ f # NoRow
    BY RowById
  <2>2. leases[e.ports[j]] = e.id /\ leases[f.ports[k]] = f.id
    BY <2>1 DEF BoundPortsLeased
  <2> QED
    BY <2>2
<1>2. ExclusiveInv => TypeInv
  BY DEF ExclusiveInv
<1> QED
  BY Ownership, LeasedBindings, <1>1, <1>2, PTL

--------------------------------------------------------------------------------
(* What a VM publishes: ports that its runtime has leased, whatever fails and   *)
(* whenever the process dies.  leasePorts must not run short for a runtime that *)
(* has a VM either, as a boot that failed may leave one to a row without        *)
(* bindings.                                                                    *)

ShortReplacement ==
  \E r \in Reqs : /\ req[r].pc = "lease2" /\ RunsShort(r)
                  /\ req[r].ent.ports # <<>> \/ vms[req[r].ent.sid].st # "absent"

VmHolds(i) == vms[rows[i].sid].st # "absent" => Holds(i, vms[rows[i].sid].ports)

VmsLeased == \A i \in Ids : rows[i] # NoRow => VmHolds(i)

\* The VM of another runtime is left alone, and its leases are.
LEMMA OtherVmHolds ==
  ASSUME ExclusiveInv, BindingsInv, VmsLeased, NEW r \in Reqs, Step(r),
         NEW i \in Ids, rows[i] # NoRow, rows'[i] # NoRow, ~(req[r].pc \in OwnerPcs /\ req[r].ent.id = i)
  PROVE  VmHolds(i)'
<1> DEFINE h == req[r]
           s == rows[i].sid
<1>0. /\ HandlerOK(h) /\ Owned(h) /\ s \in Sids /\ rows \in [Ids -> Entity \cup {NoRow}]
      /\ vms \in [Sids -> Vm] /\ vms[s].ports \in Seq(Ports)
  BY DEF ExclusiveInv, TypeInv, TypeOK, Entity, Vm
<1>1. rows'[i] = rows[i]
  BY <1>0, RowStep, Phases DEF Inserts, Saves, Drops, Fresh
<1>2. vms'[s] = vms[s]
  <2>1. CASE h.pc \in OwnerPcs
    <3>1. h.ent.id \in Ids /\ rows[h.ent.id] # NoRow /\ rows[h.ent.id].sid = h.ent.sid
      BY <1>0, <2>1, Phases DEF HandlerOK, Owned, Entity
    <3>2. h.ent.sid # s
      BY <2>1, <3>1 DEF BindingsInv, UniqueSids
    <3> QED
      BY <1>0, <3>2, VmStep DEF Spares, Toggles, Replaces, Removes
  <2>2. CASE h.pc \notin OwnerPcs
    BY <1>0, <2>2, VmStep, Phases DEF Spares, Toggles, Replaces, Removes
  <2> QED
    BY <2>1, <2>2
<1>3. ~(Frees(r) /\ h.ent.id = i)
  BY <1>0, Phases DEF Frees, RunsShort, Owned
<1>4. Holds(i, vms[s].ports) => StillHolds(i, vms[s].ports)
  BY <1>0, <1>3, KeptPorts DEF Holds, StillHolds
<1> QED
  BY <1>1, <1>2, <1>4 DEF VmsLeased, VmHolds, Holds, StillHolds

\* A handler replaces its VM by one on ports it holds, and gives up leases only without
\* a VM.
LEMMA OwnVmHolds ==
  ASSUME ExclusiveInv, LeasedInv, VmsLeased, ~ShortReplacement, ~MayMiss, NEW r \in Reqs, Step(r),
         NEW i \in Ids, req[r].pc \in OwnerPcs, req[r].ent.id = i, rows'[i] # NoRow
  PROVE  VmHolds(i)'
<1> DEFINE h == req[r]
           s == h.ent.sid
<1>0. /\ HandlerOK(h) /\ Owned(h) /\ s \in Sids /\ rows \in [Ids -> Entity \cup {NoRow}]
      /\ vms \in [Sids -> Vm] /\ vms[s].ports \in Seq(Ports) /\ rows[i] # NoRow /\ rows[i].sid = s
  BY Phases DEF ExclusiveInv, TypeInv, TypeOK, HandlerOK, Owned, Entity, Vm
<1>1. rows'[i].sid = s
  BY <1>0, RowStep DEF Inserts, Saves, Drops, Fresh
<1> SUFFICES ASSUME vms'[s].st # "absent" PROVE StillHolds(i, vms'[s].ports)
  BY <1>1 DEF VmHolds, Holds, StillHolds
<1>2. vms[s].st # "absent" => Holds(i, vms[s].ports)
  BY <1>0 DEF VmsLeased, VmHolds
<1>3. CASE Spares(r)
  <2>1. ~Frees(r)
    BY <1>0, <1>3, Phases DEF Spares, Frees, RunsShort, Owned, ShortReplacement
  <2> QED
    BY <1>0, <1>2, <1>3, <2>1, KeptPorts DEF Spares, Holds, StillHolds
<1>4. CASE Toggles(r) /\ UNCHANGED leases
  <2>1. vms[s].st # "absent" /\ vms'[s].ports = vms[s].ports
    BY <1>0, <1>4 DEF Toggles
  <2> QED
    BY <1>2, <1>4, <2>1 DEF Holds, StillHolds
<1>5. CASE Replaces(r) /\ UNCHANGED leases
  BY <1>0, <1>5 DEF Replaces, LeasedInv, LeaseKnown, Holds, StillHolds
<1>6. CASE Removes(r)
  BY <1>0, <1>6 DEF Removes, NoVm
<1> QED
  BY <1>3, <1>4, <1>5, <1>6, VmStep

\* A runtime that has just been inserted has no VM.
LEMMA NewVmHolds ==
  ASSUME ExclusiveInv, ~MayMiss, NEW r \in Reqs, Step(r), NEW i \in Ids, rows[i] = NoRow, rows'[i] # NoRow
  PROVE  vms'[rows'[i].sid].st = "absent"
<1>0. rows \in [Ids -> Entity \cup {NoRow}]
  BY DEF ExclusiveInv, TypeInv, TypeOK
<1> DEFINE e == req'[r].ent
<1>1. Inserts(r) /\ i = NewId /\ e.sid \in Sids /\ rows'[i] = e /\ UNCHANGED vms
  <2>1. ASSUME NEW x \in Entity, Saves(r, x) PROVE rows[req[r].ent.id] # NoRow
    BY <1>0, <2>1, Phases DEF Saves, ExclusiveInv, Owned
  <2>2. Inserts(r)
    BY <1>0, <2>1, RowStep DEF Saves, Drops
  <2> QED
    BY <1>0, <2>2 DEF Inserts, Entity
<1>2. \A j \in Ids : rows[j] # NoRow => rows[j].sid # e.sid
  BY <1>1 DEF Inserts, Savable
<1> QED
  BY <1>1, <1>2, OrphanVm DEF ExclusiveInv

LEMMA VmsLeasedNext ==
  ExclusiveInv /\ BindingsInv /\ LeasedInv /\ VmsLeased /\ ~ShortReplacement /\ ~MayMiss /\ [Next]_vars => VmsLeased'
<1> SUFFICES ASSUME ExclusiveInv, BindingsInv, LeasedInv, VmsLeased, ~ShortReplacement, ~MayMiss, [Next]_vars,
                    NEW i \in Ids, rows'[i] # NoRow
             PROVE  VmHolds(i)'
  BY DEF VmsLeased
<1>1. ASSUME NEW r \in Reqs, Step(r) PROVE VmHolds(i)'
  BY <1>1, OtherVmHolds, OwnVmHolds, NewVmHolds DEF VmHolds
<1>2. CASE \A r \in Reqs : ~Step(r)
  <2>1. TypeInv /\ UNCHANGED <<rows, leases>>
    BY <1>2, OtherStep DEF ExclusiveInv
  <2>2. rows[i].sid \in Sids /\ VmHolds(i)
    BY <2>1 DEF TypeInv, TypeOK, Entity, VmsLeased
  <2>3. /\ vms'[rows[i].sid].st = "absent" <=> vms[rows[i].sid].st = "absent"
        /\ vms'[rows[i].sid].ports = vms[rows[i].sid].ports
    BY <1>2, <2>1, <2>2, OtherStep
  <2> QED
    BY <2>1, <2>2, <2>3 DEF VmHolds, Holds
<1> QED
  BY <1>1, <1>2

\* The ports a VM publishes stay leased to its runtime.
LEMMA PublishedLeased ==
  Exclusive /\ ~MayMiss =>
    (Spec /\ []~ShortReplacement /\ [][~CutDelete]_vars => [](ExclusiveInv /\ BindingsInv /\ LeasedInv /\ VmsLeased))
<1> SUFFICES ASSUME Exclusive, ~MayMiss
             PROVE  Spec /\ []~ShortReplacement /\ [][~CutDelete]_vars
                      => [](ExclusiveInv /\ BindingsInv /\ LeasedInv /\ VmsLeased)
  OBVIOUS
<1>1. Init => VmsLeased
  BY DEF Init, VmsLeased
<1>2. ExclusiveInv /\ BindingsInv /\ LeasedInv /\ VmsLeased /\ ~ShortReplacement /\ [Next]_vars => VmsLeased'
  BY VmsLeasedNext
<1>3. ~ShortReplacement => ~ShortGrowth
  BY DEF ShortReplacement, ShortGrowth
<1> QED
  BY Leases, <1>1, <1>2, <1>3, PTL DEF Spec

--------------------------------------------------------------------------------
(* What a VM runs is what its row records, but for the time a handler takes to  *)
(* replace it.  Nothing but a replacement that is interrupted breaks this: one  *)
(* that ends, or dies with the process, between saving the new configuration    *)
(* and saving the new bindings.  Other calls may fail, and the process may die  *)
(* anywhere else.                                                               *)

Replacing == {"lease2", "boot", "health", "persist"}

Interrupted ==
  \E r \in Reqs : req[r].pc \in Replacing /\ req'[r] = Idle /\ (req[r].pc = "persist" => Crash)

\* No two rows have the same name.
UniqueNames ==
  \A i, j \in Ids : rows[i] # NoRow /\ rows[j] # NoRow /\ rows[i].name # NoName /\ rows[i].name = rows[j].name => i = j

\* The handler's entity has the name, configuration and container ports of its row, and
\* those asked for once the VM is known to be kept or has been replaced.
ConfigKnown(h) ==
  /\ h.pc \in OwnerPcs => h.ent.name = rows[h.ent.id].name /\ h.ent.cfg = rows[h.ent.id].cfg
  /\ h.pc \in OwnerPcs \ {"persist"} => h.ent.ctr = rows[h.ent.id].ctr
  /\ h.pc \in {"probe", "syncFiles", "keep", "lease1", "lease2", "boot", "health", "persist"} =>
       h.ent.name = h.in.name /\ h.ent.cfg = h.in.cfg
  /\ h.pc \in {"probe", "syncFiles", "keep", "persist"} => h.ent.ctr = h.in.ctr
  /\ h.pc \in {"health", "persist"} => vms[h.ent.sid].cfg = h.in.cfg /\ vms[h.ent.sid].ctr = h.in.ctr

Working(i, pcs) == \E r \in Reqs : req[r].pc \in pcs /\ req[r].ent.id = i

\* VM v is the one entity e describes.
Describes(e, v) == v.cfg = e.cfg /\ v.ctr = e.ctr /\ v.ports = e.ports

VmFollowsRow(i) ==
  vms[rows[i].sid].st # "absent" => Working(i, Replacing) \/ Describes(rows[i], vms[rows[i].sid])

HandlersKnow == \A r \in Reqs : ConfigKnown(req[r])

ConfigInv ==
  /\ UniqueNames
  /\ HandlersKnow
  /\ \A i \in Ids : rows[i] # NoRow => VmFollowsRow(i)

\* What has been shown so far, in one name.
RowInv == ExclusiveInv /\ BindingsInv

\* The UNIQUE key on name.
LEMMA UniqueNamesStep ==
  ASSUME ExclusiveInv, UniqueNames, NEW r \in Reqs, Step(r)
  PROVE  UniqueNames'
<1>0. rows \in [Ids -> Entity \cup {NoRow}]
  BY DEF ExclusiveInv, TypeInv, TypeOK
<1>1. CASE UNCHANGED rows
  BY <1>1 DEF UniqueNames
<1>2. ASSUME NEW i \in Ids, NEW e \in Entity, e.id = i, Savable(e), rows' = [rows EXCEPT ![i] = e] PROVE UniqueNames'
  BY <1>0, <1>2 DEF UniqueNames, Savable
<1>3. CASE Inserts(r)
  BY <1>2, <1>3 DEF Inserts
<1>4. CASE \E e \in Entity : Saves(r, e)
  <2>1. PICK e \in Entity : Saves(r, e)
    BY <1>4
  <2>2. e.id \in Ids
    BY DEF Entity
  <2> QED
    BY <1>2, <2>1, <2>2 DEF Saves
<1>5. CASE Drops(r)
  BY <1>0, <1>5 DEF Drops, UniqueNames
<1> QED
  BY <1>1, <1>3, <1>4, <1>5, RowStep

\* The bindings a handler saves are never refused.
LEMMA PersistAccepted ==
  ASSUME RowInv, ConfigInv, NEW r \in Reqs, req[r].pc = "persist"
  PROVE  Savable(req[r].ent)
<1> DEFINE e == req[r].ent
<1>1. e.id \in Ids /\ rows[e.id] # NoRow /\ rows[e.id].sid = e.sid /\ rows[e.id].name = e.name
  BY Phases DEF RowInv, ExclusiveInv, TypeInv, HandlerOK, Owned, Entity, ConfigInv, HandlersKnow, ConfigKnown
<1> QED
  BY <1>1 DEF Savable, RowInv, BindingsInv, UniqueSids, ConfigInv, UniqueNames

\* What the handler at r knows after its own step.
LEMMA ConfigOwn ==
  ASSUME RowInv, HandlersKnow, NEW r \in Reqs, Step(r)
  PROVE  ConfigKnown(req[r])'
<1> DEFINE h == req[r]
           g == req'[r]
           Row(e) == rows'[h.ent.id].name = e.name /\ rows'[h.ent.id].cfg = e.cfg /\ rows'[h.ent.id].ctr = e.ctr
<1>0. ExclusiveInv /\ TypeInv /\ h \in Handler /\ HandlerOK(h) /\ rows \in [Ids -> Entity \cup {NoRow}]
      /\ vms \in [Sids -> Vm]
  BY DEF RowInv, ExclusiveInv, TypeInv, TypeOK
<1>1. h.pc \in OwnerPcs => h.ent \in Entity /\ h.ent.id \in Ids /\ h.ent.sid \in Sids
  BY <1>0, Phases DEF HandlerOK, Entity
<1>2. ConfigKnown(h)
  BY DEF HandlersKnow
<1>3. h.pc \in OwnerPcs \ {"keep", "replace", "persist", "syncSave", "save", "deleting", "dropRow"} => UNCHANGED rows
  BY <1>0, Phases, RowStep DEF Inserts, Saves, Drops
<1>4. CASE Outside(h, g)
  BY <1>4, Phases DEF Outside, ConfigKnown
<1>5. CASE Finds(h, g)
  <2>1. UNCHANGED rows
    BY <1>0, <1>5, RowStep DEF Finds, Inserts, Saves, Drops
  <2>2. rows[g.ent.id] = g.ent
    BY <1>0, <1>5, RowById DEF Finds
  <2> QED
    BY <1>5, <2>1, <2>2 DEF Finds, ConfigKnown, RequiresRecreate, PortsDiffer
<1>6. CASE Creates(h, g)
  <2>1. Inserts(r)
    BY <1>0, <1>6, IdleOwned, RowStep DEF Creates, Refused, Saves, Drops
  <2>2. rows'[g.ent.id] = g.ent
    BY <1>0, <2>1 DEF Inserts
  <2> QED
    BY <1>6, <2>2 DEF Creates, ConfigKnown
<1>7. CASE Proceeds(h, g)
  <2>1. h.pc \in OwnerPcs \ {"persist"} /\ g.pc \in OwnerPcs \ {"persist"} /\ g.ent.id = h.ent.id
    BY <1>7, Phases DEF Proceeds, SameRuntime
  <2>2. Row(h.ent)
    <3>1. CASE UNCHANGED rows
      BY <1>2, <2>1, <3>1 DEF ConfigKnown
    <3>2. CASE Inserts(r) \/ Drops(r)
      BY <1>7, <3>2, Phases DEF Inserts, Drops, Proceeds
    <3>3. ASSUME NEW e \in Entity, Saves(r, e) PROVE Row(h.ent)
      <4>1. rows'[h.ent.id] = e /\ e.name = h.ent.name /\ e.cfg = h.ent.cfg /\ e.ctr = h.ent.ctr
        BY <1>0, <1>1, <1>7, <2>1, <3>3 DEF Proceeds, Saves
      <4> QED
        BY <4>1
    <3> QED
      BY <1>0, <3>1, <3>2, <3>3, RowStep
  <2> QED
    BY <1>2, <1>7, <2>1, <2>2 DEF Proceeds, SameRuntime, SameConfig, ConfigKnown
<1>8. CASE Allocates(h, g)
  <2>1. /\ h.pc \in OwnerPcs \ {"persist", "dropRow"} /\ g.pc \in {"lease2", "boot"}
        /\ g.ent.id = h.ent.id /\ g.ent.ctr = h.ent.ctr /\ g.in = h.in
    BY <1>8, Phases DEF Allocates, SameRuntime
  <2>2. g.ent.name = h.in.name /\ g.ent.cfg = h.in.cfg /\ Row(g.ent)
    <3>1. CASE h.pc \in {"probe", "lease1"}
      BY <1>2, <1>3, <1>8, <2>1, <3>1 DEF Allocates, SameConfig, ConfigKnown
    <3>2. CASE h.pc = "replace"
      <4>1. PICK e \in Entity : Saves(r, e)
        BY <1>0, <1>8, <3>2, IdleOwned, RowStep DEF Inserts, Drops, Refused, Allocates
      <4>2. rows'[h.ent.id] = e /\ e.name = h.in.name /\ e.cfg = h.in.cfg /\ e.ctr = h.ent.ctr
        BY <1>0, <1>1, <2>1, <3>2, <4>1 DEF Saves
      <4> QED
        BY <1>8, <2>1, <3>2, <4>2 DEF Allocates
    <3> QED
      BY <1>8, <3>1, <3>2 DEF Allocates
  <2> QED
    BY <2>1, <2>2, Phases DEF ConfigKnown
<1>9. CASE Tries(h, g) \/ Binds(h, g)
  <2>1. UNCHANGED rows
    BY <1>3, <1>9, Phases DEF Tries, Binds
  <2> QED
    BY <1>2, <1>9, <2>1, Phases DEF Tries, Binds, ConfigKnown
<1>10. CASE Boots(h, g)
  <2>1. UNCHANGED rows /\ h.ent.sid \in Sids
    BY <1>1, <1>3, <1>10, Phases DEF Boots
  <2>2. vms'[h.ent.sid].cfg = h.in.cfg /\ vms'[h.ent.sid].ctr = h.in.ctr
    <3>1. Replaces(r)
      BY <1>0, <1>10, IdleOwned, VmStep DEF Boots, Spares, Toggles, Removes, CannotBoot
    <3> QED
      BY <1>0, <2>1, <3>1 DEF Replaces
  <2> QED
    BY <1>2, <1>10, <2>1, <2>2, Phases DEF Boots, ConfigKnown
<1>11. CASE Checks(h, g)
  <2>1. UNCHANGED <<rows, vms>>
    BY <1>0, <1>3, <1>11, Phases, VmStep DEF Checks, Spares, Toggles, Replaces, Removes
  <2> QED
    BY <1>2, <1>11, <2>1, Phases DEF Checks, ConfigKnown
<1> QED
  BY <1>0, <1>4, <1>5, <1>6, <1>7, <1>8, <1>9, <1>10, <1>11, HandlerStep

\* It needs no more than that nobody else works on the sandbox.
LEMMA HandlersKnowNext == RowInv /\ HandlersKnow /\ [Next]_vars => HandlersKnow'
<1> SUFFICES ASSUME RowInv, HandlersKnow, [Next]_vars PROVE HandlersKnow'
  OBVIOUS
<1>0. TypeInv /\ ExclusiveInv
  BY DEF RowInv, ExclusiveInv
<1>1. ASSUME NEW r \in Reqs, Step(r), NEW q \in Reqs PROVE ConfigKnown(req[q])'
  <2>1. CASE q # r
    <3>1. ConfigKnown(req[q])
      BY DEF HandlersKnow
    <3> QED
      BY <1>0, <1>1, <2>1, <3>1, OthersKept, Phases DEF ConfigKnown
  <2> QED
    BY <1>1, <2>1, ConfigOwn
<1>2. ASSUME \A r \in Reqs : ~Step(r), ~UNCHANGED vars, NEW q \in Reqs PROVE ConfigKnown(req[q])'
  <2>1. /\ UNCHANGED rows
        /\ req'[q] = req[q] \/ (req[q].pc = "idle" /\ req'[q].pc \in SearchPcs) \/ req'[q] = Idle
        /\ \A s \in Sids : vms'[s].cfg = vms[s].cfg /\ vms'[s].ctr = vms[s].ctr
    BY <1>0, <1>2, OtherStep
  <2>2. ConfigKnown(req[q]) /\ HandlerOK(req[q])
    BY <1>0 DEF HandlersKnow, TypeInv
  <2>3. CASE req'[q] = req[q]
    BY <2>1, <2>2, <2>3, Phases DEF ConfigKnown, HandlerOK, Entity
  <2>4. CASE req'[q].pc \in SearchPcs \/ req'[q] = Idle
    BY <2>4, IdleOwned, Phases DEF ConfigKnown, SearchPcs
  <2> QED
    BY <2>1, <2>3, <2>4
<1>3. CASE UNCHANGED vars
  BY <1>3 DEF vars, HandlersKnow, ConfigKnown
<1> QED
  BY <1>1, <1>2, <1>3 DEF HandlersKnow

\* A row another runtime has, after a step of the handler at r.
LEMMA OtherRow ==
  ASSUME RowInv, ConfigInv, NEW r \in Reqs, Step(r), NEW i \in Ids, rows[i] # NoRow, rows'[i] # NoRow,
         ~(req[r].pc \in OwnerPcs /\ req[r].ent.id = i)
  PROVE  VmFollowsRow(i)'
<1> DEFINE h == req[r]
           s == rows[i].sid
<1>0. /\ ExclusiveInv /\ HandlerOK(h) /\ Owned(h) /\ s \in Sids
      /\ rows \in [Ids -> Entity \cup {NoRow}] /\ vms \in [Sids -> Vm]
  BY DEF RowInv, ExclusiveInv, TypeInv, TypeOK, Entity
<1>1. rows'[i] = rows[i]
  BY <1>0, RowStep, Phases DEF Inserts, Saves, Drops, Fresh
<1>2. vms'[s] = vms[s]
  <2>1. CASE h.pc \in OwnerPcs
    <3>1. h.ent.id \in Ids /\ rows[h.ent.id] # NoRow /\ rows[h.ent.id].sid = h.ent.sid
      BY <1>0, <2>1, Phases DEF HandlerOK, Owned, Entity
    <3>2. h.ent.sid # s
      BY <2>1, <3>1 DEF RowInv, BindingsInv, UniqueSids
    <3> QED
      BY <1>0, <3>2, VmStep DEF Spares, Toggles, Replaces, Removes
  <2>2. CASE h.pc \notin OwnerPcs
    BY <1>0, <2>2, VmStep, Phases DEF Spares, Toggles, Replaces, Removes
  <2> QED
    BY <2>1, <2>2
<1>3. Replacing \subseteq OwnerPcs
  BY Phases DEF Replacing
<1>4. Working(i, Replacing) => Working(i, Replacing)'
  BY <1>0, <1>3, OthersKept DEF Working, Replacing
<1> QED
  BY <1>1, <1>2, <1>4 DEF ConfigInv, VmFollowsRow

\* A handler that is replacing its VM goes on doing so until it saves the bindings.
LEMMA GoesOn ==
  ASSUME ExclusiveInv, NEW r \in Reqs, Step(r), ~Interrupted, req[r].pc \in Replacing \ {"persist"}
  PROVE  req'[r].pc \in Replacing /\ req'[r].ent.id = req[r].ent.id
<1>1. req'[r] # Idle
  BY DEF Interrupted
<1> QED
  BY <1>1, HandlerStep DEF Replacing, Outside, Finds, Creates, Proceeds, Allocates, Tries, Binds, Boots, Checks

\* The row of the handler at r, after its step.
LEMMA OwnRow ==
  ASSUME RowInv, ConfigInv, ~MayMiss, ~Interrupted, NEW r \in Reqs, Step(r),
         NEW i \in Ids, req[r].pc \in OwnerPcs, req[r].ent.id = i, rows'[i] # NoRow
  PROVE  VmFollowsRow(i)'
<1> DEFINE h == req[r]
           g == req'[r]
           s == h.ent.sid
<1>0. /\ ExclusiveInv /\ Owned(h) /\ h.ent \in Entity /\ s \in Sids
      /\ rows \in [Ids -> Entity \cup {NoRow}] /\ vms \in [Sids -> Vm]
      /\ rows[i] # NoRow /\ rows[i].sid = s
  BY Phases DEF RowInv, ExclusiveInv, TypeInv, TypeOK, HandlerOK, Owned, Entity
<1>1. BindingsKnown(h) /\ ConfigKnown(h)
  BY DEF RowInv, BindingsInv, ConfigInv, HandlersKnow
<1>2. rows'[i].sid = s
  BY <1>0, RowStep DEF Inserts, Saves, Drops, Fresh
<1> SUFFICES ASSUME vms'[s].st # "absent", ~Working(i, Replacing)' PROVE Describes(rows'[i], vms'[s])
  BY <1>2 DEF VmFollowsRow
<1>3. ~(g.pc \in Replacing /\ g.ent.id = i)
  BY DEF Working
<1>4. h.pc \notin Replacing \ {"persist"}
  BY <1>0, <1>3, GoesOn
<1>5. CASE h.pc = "persist"
  <2>1. PICK e \in Entity : Saves(r, e)
    BY <1>0, <1>5, PersistAccepted, RowStep DEF Inserts, Drops, Refused
  <2>2. rows'[i] = e /\ UNCHANGED vms /\ e.cfg = h.ent.cfg /\ e.ctr = h.ent.ctr /\ e.ports = h.ent.ports
    BY <1>0, <1>5, <2>1 DEF Saves
  <2> QED
    BY <1>1, <1>5, <2>2 DEF ConfigKnown, BindingsKnown, Describes
<1>6. CASE h.pc \notin Replacing
  <2>1. UNCHANGED vms \/ Toggles(r)
    BY <1>0, <1>6, VmStep DEF Spares, Replaces, Removes, NoVm, Replacing
  <2>2. /\ vms[s].st # "absent" /\ vms'[s].cfg = vms[s].cfg
        /\ vms'[s].ctr = vms[s].ctr /\ vms'[s].ports = vms[s].ports
    BY <1>0, <2>1 DEF Toggles
  <2>3. ~Working(i, Replacing)
    BY <1>0, <1>6, OneWorker, Phases DEF Working, Replacing
  <2>4. Describes(rows[i], vms[s])
    BY <1>0, <2>2, <2>3 DEF ConfigInv, VmFollowsRow
  <2>5. rows'[i].cfg = rows[i].cfg /\ rows'[i].ctr = rows[i].ctr /\ rows'[i].ports = rows[i].ports
    <3>1. CASE UNCHANGED rows
      BY <3>1
    <3>2. CASE Inserts(r) \/ Drops(r)
      BY <1>0, <3>2, Phases DEF Inserts, Drops
    <3>3. ASSUME NEW e \in Entity, Saves(r, e), h.pc = "replace" PROVE FALSE
      <4>1. g.pc \in {"lease2", "boot"} /\ g.pc \in OwnerPcs
        BY <3>3, Phases DEF Saves
      <4>2. Allocates(h, g)
        BY <1>0, <3>3, <4>1, HandlerStep DEF Outside, Finds, Creates, Proceeds, Tries, Binds, Boots, Checks
      <4> QED
        BY <1>3, <4>1, <4>2 DEF Allocates, SameRuntime, Replacing
    <3>4. ASSUME NEW e \in Entity, Saves(r, e), h.pc # "replace"
          PROVE  rows'[i].cfg = rows[i].cfg /\ rows'[i].ctr = rows[i].ctr /\ rows'[i].ports = rows[i].ports
      <4>1. rows'[i] = e /\ e.cfg = h.ent.cfg /\ e.ctr = h.ent.ctr /\ e.ports = h.ent.ports
        BY <1>0, <3>4 DEF Saves
      <4> QED
        BY <1>1, <1>6, <4>1, Phases DEF ConfigKnown, BindingsKnown, Replacing
    <3> QED
      BY <1>0, <3>1, <3>2, <3>3, <3>4, RowStep
  <2> QED
    BY <2>2, <2>4, <2>5 DEF Describes
<1> QED
  BY <1>4, <1>5, <1>6

LEMMA ConfigNext ==
  ~MayMiss /\ RowInv /\ ConfigInv /\ [Next]_vars /\ [~Interrupted]_vars => ConfigInv'
<1> SUFFICES ASSUME ~MayMiss, RowInv, ConfigInv, [Next]_vars, [~Interrupted]_vars
             PROVE  ConfigInv'
  OBVIOUS
<1>0. TypeInv /\ ExclusiveInv
  BY DEF RowInv, ExclusiveInv
<1>1. HandlersKnow'
  BY HandlersKnowNext DEF ConfigInv
<1>2. ASSUME NEW r \in Reqs, Step(r), ~Interrupted PROVE ConfigInv'
  <2>1. UniqueNames'
    BY <1>0, <1>2, UniqueNamesStep DEF ConfigInv
  <2>2. ASSUME NEW i \in Ids, rows'[i] # NoRow PROVE VmFollowsRow(i)'
    BY <1>0, <1>2, <2>2, OtherRow, OwnRow, NewVmHolds DEF VmFollowsRow
  <2> QED
    BY <1>1, <2>1, <2>2 DEF ConfigInv
<1>3. CASE (\A r \in Reqs : ~Step(r)) /\ ~Interrupted
  <2>0. /\ UNCHANGED <<rows, leases>>
        /\ \A q \in Reqs : req'[q] = req[q] \/ (req[q].pc = "idle" /\ req'[q].pc \in SearchPcs) \/ req'[q] = Idle
    BY <1>0, <1>3, OtherStep
  <2>1. \A s \in Sids : /\ vms'[s].st = "absent" <=> vms[s].st = "absent"
                        /\ vms'[s].cfg = vms[s].cfg /\ vms'[s].ctr = vms[s].ctr /\ vms'[s].ports = vms[s].ports
    BY <1>0, <1>3, OtherStep
  <2>2. ASSUME NEW i \in Ids, rows'[i] # NoRow PROVE VmFollowsRow(i)'
    <3>1. rows[i].sid \in Sids /\ VmFollowsRow(i)
      BY <1>0, <2>0, <2>2 DEF TypeInv, TypeOK, Entity, ConfigInv
    <3>2. ASSUME NEW q \in Reqs, req[q].pc \in Replacing PROVE req'[q] = req[q]
      <4>1. req[q].pc # "idle"
        BY <3>2 DEF Replacing
      <4>2. req'[q] = Idle => Crash
        BY <1>0, <1>3, <3>2, <4>1, OtherStep, IdleOwned
      <4>3. req'[q] # Idle
        BY <1>3, <3>2, <4>2 DEF Interrupted
      <4> QED
        BY <2>0, <4>1, <4>3
    <3>3. Working(i, Replacing) => Working(i, Replacing)'
      BY <3>2 DEF Working
    <3> QED
      BY <2>0, <2>1, <3>1, <3>3 DEF VmFollowsRow, Describes
  <2>3. UniqueNames'
    BY <2>0 DEF ConfigInv, UniqueNames
  <2> QED
    BY <1>1, <2>2, <2>3 DEF ConfigInv
<1>4. CASE UNCHANGED vars
  BY <1>4, <1>1 DEF vars, ConfigInv, UniqueNames, VmFollowsRow, Working, Describes
<1> QED
  BY <1>2, <1>3, <1>4

LEMMA ConfigInit == Init => ConfigInv
  BY IdleOwned, Phases DEF Init, ConfigInv, UniqueNames, HandlersKnow, ConfigKnown

LEMMA Configurations == Exclusive /\ ~MayMiss => (Spec /\ [][~Interrupted]_vars => [](RowInv /\ ConfigInv))
<1> SUFFICES ASSUME Exclusive, ~MayMiss PROVE Spec /\ [][~Interrupted]_vars => [](RowInv /\ ConfigInv)
  OBVIOUS
<1>1. RowInv /\ ConfigInv /\ [Next]_vars /\ [~Interrupted]_vars => ConfigInv'
  BY ConfigNext
<1>2. RowInv <=> ExclusiveInv /\ BindingsInv
  BY DEF RowInv
<1>3. Spec => []RowInv
  BY Bindings, <1>2, PTL
<1> QED
  BY ConfigInit, <1>1, <1>3, PTL DEF Spec

\* A replacement that is answered leaves a row that describes the VM and is what was
\* asked for, whatever failed, was missed or crashed before: an earlier replacement that
\* was interrupted is repaired by the next one.
THEOREM RepairAfterFailure == Exclusive => (Spec => ReplacementRepairs)
<1> SUFFICES ASSUME Exclusive PROVE Spec => ReplacementRepairs
  OBVIOUS
<1> DEFINE R == \A r \in Reqs : LET h == req[r]
                                   v == vms'[h.ent.sid]
                                   e == rows'[h.ent.id] IN
                  h.pc = "persist" /\ req'[r].pc = "idle" /\ rows' # rows
                  => /\ e.cfg = h.in.cfg /\ e.ctr = h.in.ctr
                     /\ v.cfg = e.cfg /\ v.ctr = e.ctr /\ v.ports = e.ports
<1>1. RowInv /\ HandlersKnow /\ [Next]_vars => [R]_vars
  <2> SUFFICES ASSUME RowInv, HandlersKnow, [Next]_vars, NEW r \in Reqs,
                      req[r].pc = "persist", req'[r].pc = "idle", rows' # rows
               PROVE  LET h == req[r]
                          v == vms'[h.ent.sid]
                          e == rows'[h.ent.id] IN
                      /\ e.cfg = h.in.cfg /\ e.ctr = h.in.ctr
                      /\ v.cfg = e.cfg /\ v.ctr = e.ctr /\ v.ports = e.ports
    OBVIOUS
  <2> DEFINE h == req[r]
  <2>0. TypeInv /\ ExclusiveInv /\ rows \in [Ids -> Entity \cup {NoRow}] /\ h.ent.id \in Ids
    BY Phases DEF RowInv, ExclusiveInv, TypeInv, TypeOK, HandlerOK, Entity
  <2>1. PICK q \in Reqs : Step(q)
    BY <2>0, OtherStep DEF vars
  <2>2. q = r
    BY <2>0, <2>1, OthersKept
  <2>3. PICK e \in Entity : Saves(r, e)
    BY <2>0, <2>1, <2>2, RowStep DEF Inserts, Drops
  <2>4. rows'[h.ent.id] = e /\ UNCHANGED vms /\ e.cfg = h.ent.cfg /\ e.ctr = h.ent.ctr /\ e.ports = h.ent.ports
    BY <2>0, <2>3 DEF Saves
  <2>5. BindingsKnown(h) /\ ConfigKnown(h)
    BY DEF RowInv, BindingsInv, HandlersKnow
  <2> QED
    BY <2>4, <2>5 DEF BindingsKnown, ConfigKnown
<1>2. Init => HandlersKnow
  BY ConfigInit DEF ConfigInv
<1>3. ReplacementRepairs <=> [][R]_vars
  BY DEF ReplacementRepairs
<1>4. RowInv <=> ExclusiveInv /\ BindingsInv
  BY DEF RowInv
<1> HIDE DEF R
<1>5. Spec => []RowInv
  BY Bindings, <1>4, PTL
<1>6. Spec => [](RowInv /\ HandlersKnow)
  BY HandlersKnowNext, <1>2, <1>5, PTL DEF Spec
<1> QED
  BY <1>1, <1>3, <1>6, PTL DEF Spec

\* While nobody works on a sandbox its row describes its VM.
LEMMA Described ==
  ASSUME RowInv, ConfigInv, NEW e \in Rows, ~Busy(e.sid), vms[e.sid].st # "absent"
  PROVE  Describes(e, vms[e.sid])
<1>1. e.id \in Ids /\ rows[e.id] = e /\ e # NoRow
  BY RowById DEF RowInv, ExclusiveInv
<1>2. ASSUME NEW r \in Reqs, req[r].pc \in Replacing, req[r].ent.id = e.id PROVE FALSE
  BY <1>1, <1>2, Phases DEF RowInv, ExclusiveInv, Owned, Busy, Replacing
<1> QED
  BY <1>1, <1>2 DEF ConfigInv, VmFollowsRow, Working

\* A VM that nobody is working on leads the host ports of its row to the container ports
\* its row names for them: provision builds the VM from the list it writes to the row
\* afterwards.  Only an interrupted replacement leaves the two apart.
THEOREM RowFollowsVm == Exclusive /\ ~MayMiss => (Spec /\ [][~Interrupted]_vars => []BindingsFollowVm)
<1> SUFFICES ASSUME Exclusive, ~MayMiss PROVE Spec /\ [][~Interrupted]_vars => []BindingsFollowVm
  OBVIOUS
<1>1. RowInv /\ ConfigInv => BindingsFollowVm
  BY Described DEF BindingsFollowVm, Describes
<1> QED
  BY Configurations, <1>1, PTL

\* A VM that nobody is working on runs the configuration its row records, which provision
\* writes before it replaces the VM, or at all.  Calls may fail, restarts may happen: only
\* an interrupted replacement leaves the two apart.
THEOREM ConfiguredAsRecorded == Exclusive /\ ~MayMiss => (Spec /\ [][~Interrupted]_vars => []RunningAsConfigured)
<1> SUFFICES ASSUME Exclusive, ~MayMiss PROVE Spec /\ [][~Interrupted]_vars => []RunningAsConfigured
  OBVIOUS
<1>1. RowInv /\ ConfigInv => RunningAsConfigured
  BY Described DEF RunningAsConfigured, Describes
<1> QED
  BY Configurations, <1>1, PTL

\* ensure and update are answered when the VM runs what they asked for, whether they kept
\* it or replaced it, unless an earlier replacement has been interrupted: then the row
\* promises what the VM does not run, and they believe the row.
THEOREM NoFalseAnswer == Exclusive /\ ~MayMiss => (Spec /\ [][~Interrupted]_vars => AnsweredAsAsked)
<1> SUFFICES ASSUME Exclusive, ~MayMiss PROVE Spec /\ [][~Interrupted]_vars => AnsweredAsAsked
  OBVIOUS
<1> DEFINE A == \A r \in Reqs : LET h == req[r] IN
                  /\ h.pc \in {"keep", "persist"} /\ req'[r].pc = "idle" /\ rows' # rows
                  /\ vms[h.ent.sid].st = "running"
                  => vms[h.ent.sid].cfg = h.in.cfg /\ vms[h.ent.sid].ctr = h.in.ctr
<1>1. RowInv /\ ConfigInv => A
  <2> SUFFICES ASSUME RowInv, ConfigInv, NEW r \in Reqs, req[r].pc \in {"keep", "persist"},
                      vms[req[r].ent.sid].st = "running"
               PROVE  LET h == req[r] IN vms[h.ent.sid].cfg = h.in.cfg /\ vms[h.ent.sid].ctr = h.in.ctr
    OBVIOUS
  <2> DEFINE h == req[r]
             i == req[r].ent.id
  <2>1. ConfigKnown(h)
    BY DEF ConfigInv, HandlersKnow
  <2>2. CASE h.pc = "persist"
    BY <2>1, <2>2 DEF ConfigKnown
  <2>3. CASE h.pc = "keep"
    <3>1. i \in Ids /\ rows[i] # NoRow /\ rows[i].sid = h.ent.sid /\ h.pc \in OwnerPcs
      BY <2>3, Phases DEF RowInv, ExclusiveInv, TypeInv, HandlerOK, Owned, Entity
    <3>2. ~Working(i, Replacing)
      BY <2>3, <3>1, OneWorker, Phases DEF Working, Replacing, RowInv
    <3>3. Describes(rows[i], vms[h.ent.sid])
      BY <3>1, <3>2 DEF ConfigInv, VmFollowsRow
    <3> QED
      BY <2>1, <2>3, <3>1, <3>3 DEF ConfigKnown, Describes
  <2> QED
    BY <2>2, <2>3
<1>2. AnsweredAsAsked <=> [][A]_vars
  BY DEF AnsweredAsAsked
<1> HIDE DEF A
<1>3. RowInv /\ ConfigInv => [A]_vars
  BY <1>1
<1> QED
  BY <1>2, <1>3, Configurations, PTL

--------------------------------------------------------------------------------
(* The abstract lease table.                                                    *)

\* A step of a handler, seen from the two tables.
LEMMA StepMaps ==
  ASSUME ExclusiveInv, NEW r \in Reqs, Step(r)
  PROVE  Table!Next \/ UNCHANGED <<leases, aliveIds>>
<1> DEFINE h == req[r]
           i == h.ent.id
<1>0. rows \in [Ids -> Entity \cup {NoRow}] /\ HandlerOK(h) /\ Owned(h)
  BY DEF ExclusiveInv, TypeInv, TypeOK
<1>1. /\ h.pc \in EntPcs => i \in Ids
      /\ h.pc \in OwnerPcs => i \in aliveIds
  BY <1>0, Phases DEF HandlerOK, Owned, Entity, aliveIds
<1>2. CASE Takes(r)
  <2>1. h.scan \in Ports /\ h.pc \in OwnerPcs /\ UNCHANGED aliveIds
    BY <1>2, RowStep, Phases DEF Takes, Inserts, Saves, Drops, aliveIds
  <2>2. i \in Ids /\ Table!Lease(h.scan, i)
    BY <1>1, <1>2, <2>1, Phases DEF Takes, Table!Lease
  <2> QED
    BY <2>1, <2>2 DEF Table!Next
<1>3. CASE Frees(r) /\ UNCHANGED rows
  <2>1. i \in Ids /\ UNCHANGED aliveIds
    BY <1>1, <1>3, Phases DEF Frees, RunsShort, aliveIds
  <2>2. Table!Release(i)
    BY <1>3, <2>1 DEF Frees, Unlease, Table!Release
  <2> QED
    BY <2>1, <2>2 DEF Table!Next
<1>4. CASE Inserts(r)
  <2>1. req'[r].ent # NoRow /\ NewId \in Ids /\ Fresh(NewId) /\ UNCHANGED leases
        /\ rows' = [rows EXCEPT ![NewId] = req'[r].ent]
    BY <1>4, NullsAssumption DEF Inserts
  <2>2. Table!Create(NewId)
    BY <1>0, <2>1 DEF Table!Create, Table!OwnsNothing, aliveIds, Fresh
  <2> QED
    BY <2>1, <2>2 DEF Table!Next
<1>5. ASSUME NEW e \in Entity, Saves(r, e) PROVE UNCHANGED <<leases, aliveIds>>
  <2>1. i \in aliveIds /\ e # NoRow /\ UNCHANGED leases /\ rows' = [rows EXCEPT ![i] = e]
    BY <1>1, <1>5, NullsAssumption, Phases DEF Saves
  <2> QED
    BY <1>0, <2>1 DEF aliveIds
<1>6. CASE Drops(r)
  <2>1. i \in aliveIds /\ (\A p \in Ports : leases[p] # i) /\ UNCHANGED leases /\ rows' = [rows EXCEPT ![i] = NoRow]
    BY <1>0, <1>1, <1>6, Phases DEF Drops, Owned
  <2>2. i \in Ids /\ Table!Destroy(i)
    BY <1>0, <2>1 DEF Table!Destroy, Table!OwnsNothing, aliveIds
  <2> QED
    BY <2>2 DEF Table!Next
<1>7. CASE UNCHANGED <<rows, leases>>
  BY <1>7 DEF aliveIds
<1> QED
  BY <1>2, <1>3, <1>4, <1>5, <1>6, <1>7, RowStep, LeaseStep

\* RuntimeControl implements LeaseTable when clients serialise the requests for a
\* sandbox: whatever fails and whenever the process is restarted, the two tables change
\* only as the abstract ones may, for any number of runtimes, ports and handlers.
THEOREM LeaseTableRefinement == Exclusive => (Spec => ImplementsLeaseTable)
<1> SUFFICES ASSUME Exclusive PROVE Spec => ImplementsLeaseTable
  OBVIOUS
<1>1. Init => Table!Init
  BY DEF Init, Table!Init, aliveIds
<1>2. ExclusiveInv /\ [Next]_vars => [Table!Next]_(Table!vars)
  <2> SUFFICES ASSUME ExclusiveInv, [Next]_vars PROVE Table!Next \/ UNCHANGED <<leases, aliveIds>>
    BY DEF Table!vars
  <2>1. CASE \A r \in Reqs : ~Step(r)
    BY <2>1, OtherStep DEF ExclusiveInv, aliveIds
  <2> QED
    BY <2>1, StepMaps
<1> QED
  BY Ownership, <1>1, <1>2, PTL DEF Spec, ImplementsLeaseTable, Table!Spec
=============================================================================
