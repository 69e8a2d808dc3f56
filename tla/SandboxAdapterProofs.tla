------------------------- MODULE SandboxAdapterProofs -------------------------
(***************************************************************************)
(* For any calls and any number of attempts: the types, what a resolved    *)
(* launch has done, who may hold the registry login, how stop and remove   *)
(* settle, and how many copies of the command there may be.  A step        *)
(* changes one call, the VM or the host: StepInv says which changes keep   *)
(* the invariant, and the lemmas after it that the actions make no other.  *)
(***************************************************************************)
EXTENDS SandboxAdapter, FiniteSets, FiniteSetTheorems, TLAPS

CallType == [op : Ops \cup {"exec"}, pc : Pcs, cmd : BOOLEAN, stage : Stages, try : 1..Attempts,
             ok : BOOLEAN, late : BOOLEAN, here : BOOLEAN, blind : BOOLEAN]
VmType   == [st : {"absent", "running", "draining", "stopped"}, ran : BOOLEAN, copies : Nat,
             pending : Nat, launches : Nat]
HostType == [image : BOOLEAN, creds : BOOLEAN, leaked : BOOLEAN]

VmOK(v)  == v \in VmType /\ (v.st # "running" => v = [NoVm EXCEPT !.st = v.st])

Holding == {"authPull", "logout"}
Pulling == {"image", "pull", "login", "authPull", "logout", "check"}
Ending  == {"halt", "poll", "kill", "pause", "remove", "cli"}
Working == {"create", "get", "boot", "connect", "binary", "keys", "attempt", "waiting", "guest", "halt", "poll",
            "kill", "pause", "remove", "cli"}

\* What a call is doing it was called for.
OpOK(c) == /\ c.pc \in Working => c.op # "pull"
           /\ c.pc \in Pulling => c.op = "pull"
           /\ c.op \in {"stop", "remove", "exec"} => ~c.cmd
           /\ c.pc = "guest" => c.op = "exec"
           /\ c.pc \in Ending => c.op \in {"stop", "remove"}

\* A call whose launch has been answered, and that is about to report it.
Launching(c) == c.op # "pull" /\ c.cmd /\ (c.pc = "resolved" \/ (c.pc = "detach" /\ c.ok))

\* While the VM it launched in still runs, the script has run there.
LaunchOK(c, v) == Launching(c) /\ c.here /\ v.st = "running" => v.ran

\* TypeOK in the parts above.
Typed == /\ VmOK(vm)
         /\ host \in HostType /\ (host.leaked => host.creds)
         /\ call \in [Calls -> CallType]

Inv == /\ Typed
       /\ \A k \in Calls : OpOK(call[k]) /\ LaunchOK(call[k], vm)
       /\ NoCredentialsLeft

LEMMA TypedIsTypeOK == Typed <=> TypeOK
BY DEF Typed, TypeOK, VmOK, VmType, HostType, CallType, Alive, NoVm

LEMMA InitInv == Init => Inv
BY AdapterAssumption DEF Stages, Init, Idle, NoVm, Inv, Typed, VmOK, VmType, HostType, CallType, OpOK,
   LaunchOK, Launching, NoCredentialsLeft, Pcs, Working, Pulling, Ending

\* The VM runs as it did, and more of it may have run; or it does not run.
Grown(v, w) == v.st = "running" => w.st = "running" /\ (w.ran => v.ran)

\* Credentials that nobody used before the step are not there after it, but for the call
\* that steps.
HostStep(k, c) ==
  /\ host' \in HostType /\ (host'.leaked => host'.creds)
  /\ host'.creds => \/ host'.leaked
                    \/ c.pc \in Holding
                    \/ host.creds /\ ~host.leaked /\ call[k].pc \notin Holding

LEMMA StepInv ==
  ASSUME Inv, NEW k \in Calls, NEW c \in CallType, OpOK(c), LaunchOK(c, vm'), VmOK(vm'),
         HostStep(k, c),
         \/ Become(k, c) /\ Grown(vm', vm)
         \/ Boots(k, c) /\ c.here /\ (host' = host /\ call[k].pc \notin Holding)
  PROVE  Inv'
<1>1. call' \in [Calls -> CallType] /\ call'[k] = c
  <2>1. call \in [Calls -> CallType]
    BY DEF Inv, Typed
  <2>2. CASE Become(k, c)
    BY <2>1, <2>2 DEF Become
  <2>3. CASE Boots(k, c) /\ c.here
    <3>1. [c EXCEPT !.here = TRUE] = c
      BY <2>3 DEF CallType
    <3>2. ASSUME NEW j \in Calls PROVE [call[j] EXCEPT !.here = FALSE] \in CallType
      BY <2>1 DEF CallType
    <3>3. QED BY <2>3, <3>1, <3>2 DEF Boots
  <2>4. QED BY <2>2, <2>3
<1>2. Typed'
  BY <1>1 DEF Typed, HostStep
<1>3. ASSUME NEW j \in Calls PROVE OpOK(call'[j]) /\ LaunchOK(call'[j], vm')
  <2>1. CASE j = k
    BY <1>1, <2>1
  <2>2. CASE j # k /\ Become(k, c) /\ Grown(vm', vm)
    <3>1. call'[j] = call[j]
      BY <2>2 DEF Become, Inv, Typed
    <3>2. vm \in VmType /\ vm' \in VmType
      BY DEF Inv, Typed, VmOK
    <3>3. QED BY <2>2, <3>1, <3>2 DEF Inv, Grown, LaunchOK, VmType
  <2>3. CASE j # k /\ Boots(k, c)
    <3>1. call'[j] = [call[j] EXCEPT !.here = FALSE]
      BY <2>3 DEF Boots
    <3>2. call[j] \in CallType /\ OpOK(call[j])
      BY DEF Inv, Typed
    <3>3. QED BY <3>1, <3>2 DEF CallType, OpOK, LaunchOK
  <2>4. QED BY <2>1, <2>2, <2>3
<1>4. NoCredentialsLeft'
  <2>1. SUFFICES ASSUME host'.creds, ~host'.leaked
                 PROVE  \E j \in Calls : call'[j].pc \in Holding
    BY DEF NoCredentialsLeft, Holding
  <2>2. CASE c.pc \in Holding
    BY <1>1, <2>2
  <2>3. CASE c.pc \notin Holding
    <3>1. host.creds /\ ~host.leaked /\ call[k].pc \notin Holding
      BY <2>1, <2>3 DEF HostStep
    <3>2. PICK j \in Calls : call[j].pc \in Holding
      BY <3>1 DEF Inv, NoCredentialsLeft, Holding
    <3>3. j # k /\ call[j] \in CallType
      BY <3>1, <3>2 DEF Inv, Typed
    <3>4. call'[j].pc = call[j].pc
      BY <3>3 DEF Become, Boots, CallType, Inv, Typed
    <3>5. QED BY <3>2, <3>4
  <2>4. QED BY <2>2, <2>3
<1>5. QED BY <1>2, <1>3, <1>4 DEF Inv

\* A call that moves without touching anything, and does not report a launch of its own.
LEMMA MoveInv ==
  ASSUME Inv, NEW k \in Calls, NEW c \in CallType, OpOK(c), Become(k, c),
         UNCHANGED <<vm, host>>, call[k].pc \in Holding => c.pc \in Holding,
         Launching(c) => Launching(call[k]) /\ c.here = call[k].here
  PROVE  Inv'
<1>1. VmOK(vm') /\ Grown(vm', vm) /\ LaunchOK(c, vm')
  BY DEF Inv, Typed, VmOK, VmType, Grown, LaunchOK
<1>2. HostStep(k, c)
  BY DEF HostStep, Inv, Typed
<1>3. QED BY <1>1, <1>2, StepInv

\* The two ways a call is settled: a rejected one says nothing of a launch.
LEMMA RejectedHostInv ==
  ASSUME Inv, NEW k \in Calls, Reject(k), VmOK(vm'), Grown(vm', vm),
         HostStep(k, [Idle EXCEPT !.pc = "rejected"])
  PROVE  Inv'
<1> DEFINE c == [Idle EXCEPT !.pc = "rejected"]
<1>1. c \in CallType
  <2>1. Idle \in CallType
    BY AdapterAssumption DEF Idle, CallType, Pcs, Stages
  <2>2. QED BY <2>1 DEF CallType, Pcs
<1>2. c.pc = "rejected"
  BY DEF Idle
<1>3. OpOK(c) /\ LaunchOK(c, vm')
  BY <1>2 DEF OpOK, LaunchOK, Launching, Working, Pulling, Ending, Idle
<1>4. Become(k, c) /\ HostStep(k, c)
  BY DEF Reject
<1> HIDE DEF c
<1>5. QED BY <1>1, <1>3, <1>4, StepInv

LEMMA RejectedInv ==
  ASSUME Inv, NEW k \in Calls, Reject(k), VmOK(vm'), Grown(vm', vm), UNCHANGED host,
         call[k].pc \notin Holding
  PROVE  Inv'
<1>1. HostStep(k, [Idle EXCEPT !.pc = "rejected"])
  BY DEF HostStep, Inv, Typed
<1>2. QED BY <1>1, RejectedHostInv

LEMMA ResolvedInv ==
  ASSUME Inv, NEW k \in Calls, NEW blind \in BOOLEAN,
         Become(k, Resolved([call[k] EXCEPT !.blind = blind])), VmOK(vm'), Grown(vm', vm),
         UNCHANGED host, call[k].pc \notin Holding,
         call[k].op = "pull" \/ ~call[k].cmd \/ Launching(call[k]) \/ vm'.st # "running"
  PROVE  Inv'
<1> DEFINE c == Resolved([call[k] EXCEPT !.blind = blind])
<1>1. call[k] \in CallType
  BY DEF Inv, Typed
<1>2. c \in CallType /\ OpOK(c)
  <2>1. Idle \in CallType
    BY AdapterAssumption DEF Idle, CallType, Pcs, Stages
  <2>2. c \in CallType /\ c.pc = "resolved" /\ c.op = call[k].op /\ c.cmd = call[k].cmd
    BY <1>1, <2>1 DEF CallType, Pcs, Resolved
  <2>3. OpOK(call[k])
    BY DEF Inv
  <2>4. QED BY <2>2, <2>3 DEF OpOK, Working, Pulling, Ending
<1>3. LaunchOK(c, vm')
  <2>1. c.pc = "resolved" /\ c.op = call[k].op /\ c.cmd = call[k].cmd /\ c.here = call[k].here
    BY <1>1 DEF CallType, Resolved, Idle
  <2> HIDE DEF c
  <2>2. LaunchOK(call[k], vm)
    BY DEF Inv
  <2>3. QED BY <2>1, <2>2 DEF Grown, LaunchOK, Launching
<1>4. HostStep(k, c)
  BY DEF HostStep, Inv, Typed
<1> HIDE DEF c
<1>5. Become(k, c)
  BY DEF c
<1>6. QED BY <1>2, <1>3, <1>4, <1>5, StepInv

\* It keeps what it knows of its lookups.
LEMMA ResolveIsResolved ==
  ASSUME Inv, NEW k \in Calls, Resolve(k)
  PROVE  \E blind \in BOOLEAN : Become(k, Resolved([call[k] EXCEPT !.blind = blind]))
<1>1. call[k] \in CallType
  BY DEF Inv, Typed
<1>2. call[k].blind \in BOOLEAN /\ [call[k] EXCEPT !.blind = call[k].blind] = call[k]
  BY <1>1 DEF CallType
<1>3. QED BY <1>2 DEF Resolve

LEMMA ResolveInv ==
  ASSUME Inv, NEW k \in Calls, Resolve(k), VmOK(vm'), Grown(vm', vm), UNCHANGED host,
         call[k].pc \notin Holding,
         call[k].op = "pull" \/ ~call[k].cmd \/ Launching(call[k]) \/ vm'.st # "running"
  PROVE  Inv'
BY ResolveIsResolved, ResolvedInv

\* A call that goes from one await to the next.
LEMMA GotoInv ==
  ASSUME Inv, NEW k \in Calls, NEW pc, pc # "guest", Goto(k, pc), UNCHANGED vm,
         pc \in Ending => call[k].op \in {"stop", "remove"}, HostStep(k, [call[k] EXCEPT !.pc = pc]),
         \/ call[k].pc \in Working /\ pc \in Working
         \/ call[k].pc \in Pulling /\ pc \in Pulling
  PROVE  Inv'
<1> DEFINE c == [call[k] EXCEPT !.pc = pc]
<1>1. call[k] \in CallType /\ OpOK(call[k])
  BY DEF Inv, Typed
<1>2. pc \in Pcs /\ pc \notin {"resolved", "detach"}
  BY DEF Working, Pulling, Ending, Pcs
<1>3. /\ c \in CallType /\ c.pc = pc
      /\ c.op = call[k].op /\ c.cmd = call[k].cmd
  BY <1>1, <1>2 DEF CallType
<1>4. OpOK(c)
  BY <1>1, <1>3 DEF OpOK, Working, Pulling, Ending
<1>5. LaunchOK(c, vm')
  BY <1>2, <1>3 DEF LaunchOK, Launching
<1>6. VmOK(vm') /\ Grown(vm', vm)
  BY DEF Inv, Typed, VmOK, VmType, Grown
<1>7. Become(k, c)
  BY DEF Goto
<1>8. HostStep(k, c)
  OBVIOUS
<1> HIDE DEF c
<1>9. QED BY <1>3, <1>4, <1>5, <1>6, <1>7, <1>8, StepInv

LEMMA VmShapes ==
  /\ \A st \in {"absent", "draining", "stopped"} : VmOK([NoVm EXCEPT !.st = st])
  /\ \A n \in Nat : VmOK([NoVm EXCEPT !.st = "running", !.launches = n])
  /\ VmOK(NoVm) /\ NoVm.st = "absent"
BY DEF VmOK, VmType, NoVm

\* A call that has reached the VM does not report a launch yet.
LEMMA EnteredOK ==
  ASSUME NEW c \in CallType, OpOK(c), c.pc \in Working, NEW stage \in {"chmod", "launch"}
  PROVE  LET e == [Entered(c, stage) EXCEPT !.here = TRUE] IN
           e \in CallType /\ e.here /\ OpOK(e) /\ ~Launching(e)
<1>1. CASE c.op = "exec"
  BY <1>1 DEF Entered, CallType, OpOK, Launching, Working, Pulling, Ending, Pcs, Stages
<1>2. CASE c.op # "exec" /\ c.cmd
  <2> DEFINE pc == IF stage = "chmod" THEN "binary" ELSE "attempt"
             d == [c EXCEPT !.pc = pc, !.stage = stage]
             e == [d EXCEPT !.here = TRUE]
  <2>1. /\ pc \in Pcs /\ pc \in Working \ Ending /\ stage \in Stages
        /\ pc \notin Pulling \cup {"guest", "resolved", "detach"}
    BY DEF Pcs, Working, Ending, Pulling, Stages
  <2>2. Entered(c, stage) = d
    BY <1>2 DEF Entered
  <2> HIDE DEF pc
  <2>3. e \in CallType /\ e.here = TRUE /\ e.pc = pc /\ e.op = c.op /\ e.cmd = c.cmd
    BY <2>1 DEF CallType
  <2> HIDE DEF e
  <2>4. OpOK(e) /\ ~Launching(e)
    BY <1>2, <2>1, <2>3 DEF OpOK, Launching
  <2>5. QED BY <2>2, <2>3, <2>4 DEF e
<1>3. CASE c.op # "exec" /\ ~c.cmd
  BY <1>3 DEF Entered, CallType, OpOK, Launching, Working, Pulling, Ending, Pcs, Stages
<1>4. QED BY <1>1, <1>2, <1>3

LEMMA BootsInv ==
  ASSUME Inv, NEW k \in Calls, call[k].pc \in Working, NEW stage \in {"chmod", "launch"},
         Boots(k, Entered(call[k], stage)), UNCHANGED host, VmOK(vm')
  PROVE  Inv'
<1> DEFINE e == [Entered(call[k], stage) EXCEPT !.here = TRUE]
<1>1. e \in CallType /\ e.here /\ OpOK(e) /\ ~Launching(e)
  BY EnteredOK DEF Inv, Typed
<1>2. Boots(k, e)
  BY DEF Boots, Entered
<1>3. call[k].pc \notin Holding /\ HostStep(k, e)
  BY DEF HostStep, Inv, Typed, Working, Holding
<1>4. LaunchOK(e, vm')
  BY <1>1 DEF LaunchOK
<1> HIDE DEF e
<1>5. QED BY <1>1, <1>2, <1>3, <1>4, StepInv

LEMMA AttachInv ==
  ASSUME Inv, NEW k \in Calls, call[k].pc \in Working, NEW stage \in {"chmod", "launch"},
         Attach(k, Entered(call[k], stage)), UNCHANGED host, VmOK(vm'), Grown(vm', vm)
  PROVE  Inv'
<1> DEFINE e == [Entered(call[k], stage) EXCEPT !.here = TRUE]
<1>1. e \in CallType /\ OpOK(e) /\ ~Launching(e)
  BY EnteredOK DEF Inv, Typed
<1>2. Become(k, e)
  BY DEF Attach
<1>3. HostStep(k, e)
  BY DEF HostStep, Inv, Typed, Working, Holding
<1>4. LaunchOK(e, vm')
  BY <1>1 DEF LaunchOK
<1> HIDE DEF e
<1>5. QED BY <1>1, <1>2, <1>3, <1>4, StepInv

--------------------------------------------------------------------------------
(* The actions. *)

LEMMA NotHolding == ASSUME Inv, NEW k \in Calls, call[k].pc \notin Holding, UNCHANGED host, NEW c
                    PROVE  HostStep(k, c)
BY DEF HostStep, Inv, Typed

LEMMA SameVm == ASSUME Inv, UNCHANGED vm PROVE VmOK(vm') /\ Grown(vm', vm)
BY DEF Inv, Typed, VmOK, VmType, Grown

LEMMA EnterStep ==
  ASSUME Inv, NEW k \in Calls, Create(k) \/ Get(k) \/ Boot(k) \/ Connect(k)
  PROVE  Inv'
<1> USE DEF At
<1>1. call[k] \in CallType /\ OpOK(call[k]) /\ vm \in VmType /\ VmOK(vm)
  BY DEF Inv, Typed, VmOK
<1>2. CASE Create(k)
  <2>1. call[k].pc \in Working /\ call[k].pc \notin Holding
    BY <1>2 DEF Create, Working, Holding
  <2>2. CASE /\ vm' = [NoVm EXCEPT !.st = "running", !.launches = Counted(call[k], 0)]
             /\ \E stage \in {"chmod", "launch"} : Boots(k, Entered(call[k], stage))
    <3>1. Counted(call[k], 0) \in Nat
      BY DEF Counted
    <3>2. VmOK(vm')
      BY <2>2, <3>1, VmShapes
    <3>3. QED BY <1>2, <2>1, <2>2, <3>2, BootsInv DEF Create
  <2>3. CASE vm' \in {vm, NoVm} /\ Reject(k)
    <3>1. CASE vm' = vm
      BY <1>2, <2>1, <2>3, <3>1, SameVm, RejectedInv DEF Create
    <3>2. CASE vm' = NoVm
      <4>1. VmOK(vm') /\ Grown(vm', vm)
        BY <3>2, VmShapes DEF Grown
      <4>2. QED BY <1>2, <2>1, <2>3, <4>1, RejectedInv DEF Create
    <3>3. QED BY <2>3, <3>1, <3>2
  <2>4. QED BY <1>2, <2>2, <2>3 DEF Create
<1>3. CASE Get(k)
  <2>1. call[k].pc \in Working /\ call[k].pc \notin Holding /\ UNCHANGED <<vm, host>>
    BY <1>3 DEF Get, Working, Holding
  <2>2. CASE /\ Become(k, Resolved([call[k] EXCEPT !.blind = vm.st # "absent"]))
             /\ call[k].op = "remove"
    BY <1>1, <2>1, <2>2, SameVm, ResolvedInv DEF OpOK
  <2>3. CASE Reject(k)
    BY <2>1, <2>3, SameVm, RejectedInv
  <2>4. CASE \E pc \in {"halt", "connect", "boot"} :
               Goto(k, pc) /\ (pc = "halt" => call[k].op \in {"stop", "remove"})
    <3>1. PICK pc \in {"halt", "connect", "boot"} :
            Goto(k, pc) /\ (pc = "halt" => call[k].op \in {"stop", "remove"})
      BY <2>4
    <3>2. pc \in Working /\ (pc \in Ending => call[k].op \in {"stop", "remove"})
      BY <3>1 DEF Working, Ending
    <3>3. QED BY <2>1, <3>1, <3>2, NotHolding, GotoInv
  <2>5. QED BY <1>3, <2>2, <2>3, <2>4 DEF Get
<1>4. CASE Boot(k)
  <2>1. call[k].pc \in Working /\ call[k].pc \notin Holding /\ UNCHANGED host
    BY <1>4 DEF Boot, Working, Holding
  <2>2. CASE /\ vm.st = "running" /\ vm' = [vm EXCEPT !.launches = Counted(call[k], @)]
             /\ Attach(k, Entered(call[k], "launch"))
    <3>1. Counted(call[k], vm.launches) \in Nat
      BY <1>1 DEF Counted, VmType
    <3>2. VmOK(vm') /\ Grown(vm', vm)
      BY <1>1, <2>2, <3>1 DEF VmOK, VmType, Grown
    <3>3. QED BY <2>1, <2>2, <3>2, AttachInv
  <2>3. CASE /\ vm' = [NoVm EXCEPT !.st = "running", !.launches = Counted(call[k], 0)]
             /\ Boots(k, Entered(call[k], "launch"))
    <3>1. Counted(call[k], 0) \in Nat
      BY DEF Counted
    <3>2. VmOK(vm')
      BY <2>3, <3>1, VmShapes
    <3>3. QED BY <2>1, <2>3, <3>2, BootsInv
  <2>4. CASE Reject(k) /\ UNCHANGED vm
    BY <2>1, <2>4, SameVm, RejectedInv
  <2>5. QED BY <1>4, <2>2, <2>3, <2>4 DEF Boot
<1>5. CASE Connect(k)
  <2>1. call[k].pc \in Working /\ call[k].pc \notin Holding /\ UNCHANGED <<vm, host>>
    BY <1>5 DEF Connect, Working, Holding
  <2>2. CASE Attach(k, Entered(call[k], "launch"))
    BY <2>1, <2>2, SameVm, AttachInv
  <2>3. CASE Reject(k)
    BY <2>1, <2>3, SameVm, RejectedInv
  <2>4. QED BY <1>5, <2>2, <2>3 DEF Connect
<1>6. QED BY <1>2, <1>3, <1>4, <1>5

LEMMA FirstTry ==
  1 \in 1..Attempts /\ {"attempt", "keys", "detach"} \subseteq Pcs /\ {"keygen", "launch"} \subseteq Stages
BY AdapterAssumption DEF Pcs, Stages

\* A call that has not launched its command yet moves on, and its launch is still to come.
LEMMA UnlaunchedInv ==
  ASSUME Inv, NEW k \in Calls, NEW c \in CallType, Become(k, c), call[k].pc \in Working \ Ending,
         c.pc \in {"attempt", "keys"}, c.op = call[k].op, c.cmd = call[k].cmd,
         VmOK(vm'), Grown(vm', vm), UNCHANGED host
  PROVE  Inv'
<1>1. call[k].pc \notin Holding /\ OpOK(call[k])
  BY DEF Inv, Working, Holding
<1>2. OpOK(c) /\ LaunchOK(c, vm')
  BY <1>1 DEF OpOK, LaunchOK, Launching, Working, Pulling, Ending
<1>3. QED BY <1>1, <1>2, NotHolding, StepInv

\* What follows an injection, or the failure of one.
LEMMA LaunchNextStep ==
  ASSUME Inv, NEW k \in Calls, call[k].pc \in Working \ Ending, LaunchNext(k), VmOK(vm'),
         Grown(vm', vm), UNCHANGED host
  PROVE  Inv'
<1> DEFINE c == [call[k] EXCEPT !.pc = "attempt", !.stage = "launch", !.try = 1]
<1>1. c \in CallType /\ c.pc = "attempt" /\ c.op = call[k].op /\ c.cmd = call[k].cmd
  BY FirstTry DEF Inv, Typed, CallType
<1>2. Become(k, c)
  BY DEF LaunchNext
<1> HIDE DEF c
<1>3. QED BY <1>1, <1>2, UnlaunchedInv

\* Where a settled attempt leads: the keys, the launch after the injection, or detach.
LEMMA DoneStep ==
  ASSUME Inv, NEW k \in Calls, call[k].pc = "waiting", NEW ok \in BOOLEAN, Done(k, ok),
         VmOK(vm'), Grown(vm', vm), UNCHANGED host,
         ok /\ call[k].stage = "launch" => vm'.ran
  PROVE  Inv'
<1>1. call[k] \in CallType /\ OpOK(call[k]) /\ call[k].pc \notin Holding
  BY DEF Inv, Typed, Holding
<1>2. call[k].pc \in Working \ Ending
  BY DEF Working, Ending
<1>3. CASE call[k].stage = "launch"
  <2> DEFINE c == [call[k] EXCEPT !.pc = "detach", !.try = 1, !.ok = ok]
  <2>1. c \in CallType /\ c.pc = "detach" /\ c.ok = ok
    BY <1>1, FirstTry DEF CallType
  <2>2. OpOK(c) /\ LaunchOK(c, vm')
    BY <1>1, <1>3, <2>1 DEF OpOK, LaunchOK, Launching, Working, Pulling, Ending, CallType
  <2>3. Become(k, c) /\ HostStep(k, c)
    BY <1>1, <1>3, NotHolding DEF Done
  <2> HIDE DEF c
  <2>4. QED BY <2>1, <2>2, <2>3, StepInv
<1>4. CASE call[k].stage = "chmod" /\ ok
  <2> DEFINE c == [call[k] EXCEPT !.pc = "keys", !.stage = "keygen", !.try = 1]
  <2>1. c \in CallType /\ c.pc = "keys" /\ c.op = call[k].op /\ c.cmd = call[k].cmd
    BY <1>1, FirstTry DEF CallType
  <2>2. Become(k, c)
    BY <1>4 DEF Done
  <2> HIDE DEF c
  <2>3. QED BY <1>2, <2>1, <2>2, UnlaunchedInv
<1>5. CASE LaunchNext(k)
  BY <1>2, <1>5, LaunchNextStep
<1>6. QED BY <1>3, <1>4, <1>5 DEF Done

LEMMA AgainStep ==
  ASSUME Inv, NEW k \in Calls, call[k].pc = "waiting", Again(k), VmOK(vm'), Grown(vm', vm),
         UNCHANGED host
  PROVE  Inv'
<1>1. call[k] \in CallType /\ OpOK(call[k]) /\ call[k].pc \notin Holding
  BY DEF Inv, Typed, Holding
<1>2. CASE call[k].try < Attempts
  <2> DEFINE c == [call[k] EXCEPT !.pc = "attempt", !.try = @ + 1]
  <2>1. c \in CallType /\ c.pc = "attempt"
    <3>1. call[k].try + 1 \in 1..Attempts
      BY <1>1, <1>2, AdapterAssumption DEF CallType
    <3>2. QED BY <1>1, <3>1, FirstTry DEF CallType
  <2>2. OpOK(c) /\ LaunchOK(c, vm')
    BY <1>1, <2>1 DEF OpOK, LaunchOK, Launching, Working, Pulling, Ending, CallType
  <2>3. Become(k, c) /\ HostStep(k, c)
    BY <1>1, <1>2, NotHolding DEF Again
  <2> HIDE DEF c
  <2>4. QED BY <2>1, <2>2, <2>3, StepInv
<1>3. CASE ~(call[k].try < Attempts)
  BY <1>3, DoneStep DEF Again
<1>4. QED BY <1>2, <1>3

\* What an attempt may do to the VM: nothing, a run of the script with the command or
\* without, a run to come.
LEMMA AttemptVm ==
  ASSUME Inv, NEW k \in Calls, Alive(k)
  PROVE  /\ \A v \in Runs(k) : v \in VmType /\ v.st = "running" /\ (vm.ran => v.ran)
         /\ call[k].stage = "launch" => \A v \in Runs(k) : v.ran
         /\ LET p == [vm EXCEPT !.pending = @ + 1] IN
              p \in VmType /\ p.st = "running" /\ p.ran = vm.ran
<1>1. vm \in VmType /\ vm.st = "running"
  BY DEF Inv, Typed, VmOK, Alive
<1>2. /\ [vm EXCEPT !.ran = TRUE] \in VmType
      /\ [vm EXCEPT !.ran = TRUE].st = "running" /\ [vm EXCEPT !.ran = TRUE].ran
  BY <1>1 DEF VmType
<1> DEFINE c == [vm EXCEPT !.ran = TRUE, !.copies = @ + 1]
<1>3. c.st = "running" /\ c.ran /\ c \in VmType
  <2>1. vm.copies + 1 \in Nat
    BY <1>1 DEF VmType
  <2>2. c.ran = TRUE
    BY <1>1 DEF VmType
  <2>3. QED BY <1>1, <2>1, <2>2 DEF VmType
<1> DEFINE p == [vm EXCEPT !.pending = @ + 1]
<1>4. p.st = "running" /\ p.ran = vm.ran /\ p \in VmType
  <2>1. vm.pending + 1 \in Nat
    BY <1>1 DEF VmType
  <2>2. QED BY <1>1, <2>1 DEF VmType
<1>5. QED BY <1>1, <1>2, <1>3, <1>4 DEF Runs

\* In each of these cases the VM is what the invariant wants.
LEMMA AttemptedVm ==
  ASSUME Inv, NEW k \in Calls,
         \/ vm' = vm
         \/ Alive(k) /\ vm' \in Runs(k) \cup {[vm EXCEPT !.pending = @ + 1]}
  PROVE  VmOK(vm') /\ Grown(vm', vm)
<1>1. CASE vm' = vm
  BY <1>1, SameVm
<1>2. CASE Alive(k) /\ vm' \in Runs(k) \cup {[vm EXCEPT !.pending = @ + 1]}
  BY <1>2, AttemptVm DEF VmOK, Grown, Alive
<1>3. QED BY <1>1, <1>2

LEMMA AttemptStep ==
  ASSUME Inv, NEW k \in Calls,
         Written(k) \/ Attempt(k) \/ Answered(k) \/ EndsSilently(k) \/ TimesOut(k) \/ Fails(k)
  PROVE  Inv'
<1> USE DEF At
<1>1. CASE Attempt(k)
  <2>1. /\ call[k].pc \in Working /\ "waiting" \in Working \ Ending /\ call[k].pc \notin Holding
        /\ Goto(k, "waiting") /\ UNCHANGED <<vm, host>>
    BY <1>1 DEF Attempt, Working, Ending, Holding
  <2>2. QED BY <2>1, NotHolding, GotoInv
<1>2. CASE Written(k)
  <2>1. /\ call[k].pc \in Working \ Ending /\ "attempt" \in Working \ Ending
        /\ call[k].pc \notin Holding /\ UNCHANGED <<vm, host>>
    BY <1>2 DEF Written, Working, Ending, Holding
  <2>2. CASE Goto(k, "attempt")
    BY <2>1, <2>2, NotHolding, GotoInv
  <2>3. CASE LaunchNext(k)
    BY <2>1, <2>3, SameVm, LaunchNextStep
  <2>4. QED BY <1>2, <2>2, <2>3 DEF Written
<1>3. CASE Answered(k)
  <2>1. VmOK(vm') /\ Grown(vm', vm) /\ (call[k].stage = "launch" => vm'.ran)
    BY <1>3, AttemptedVm, AttemptVm DEF Answered
  <2>2. QED BY <1>3, <2>1, DoneStep DEF Answered
<1>4. CASE EndsSilently(k) \/ TimesOut(k) \/ Fails(k)
  <2>1. VmOK(vm') /\ Grown(vm', vm)
    BY <1>4, AttemptedVm DEF EndsSilently, TimesOut, Fails
  <2>2. QED BY <1>4, <2>1, AgainStep, DoneStep DEF EndsSilently, TimesOut, Fails
<1>5. QED BY <1>1, <1>2, <1>3, <1>4

LEMMA EndStep ==
  ASSUME Inv, NEW k \in Calls, Guest(k) \/ Detach(k) \/ DetachBestEffort(k) \/ Return(k) \/ Call(k)
  PROVE  Inv'
<1> USE DEF At
<1>1. call[k] \in CallType /\ OpOK(call[k])
  BY DEF Inv, Typed
<1>2. CASE Guest(k)
  <2>1. PICK ok \in BOOLEAN : Become(k, [call[k] EXCEPT !.pc = "detach", !.ok = ok])
    BY <1>2 DEF Guest
  <2> DEFINE c == [call[k] EXCEPT !.pc = "detach", !.ok = ok]
  <2>2. c \in CallType /\ c.pc = "detach" /\ c.op = call[k].op /\ c.cmd = call[k].cmd
    BY <1>1, FirstTry DEF CallType
  <2>3. OpOK(c) /\ ~Launching(c)
    BY <1>1, <1>2, <2>2 DEF Guest, OpOK, Launching, Working, Pulling, Ending
  <2>4. Become(k, c) /\ UNCHANGED <<vm, host>> /\ call[k].pc \notin Holding
    BY <1>2, <2>1 DEF Guest, Holding
  <2> HIDE DEF c
  <2>5. QED BY <2>2, <2>3, <2>4, MoveInv
<1>3. CASE Detach(k) \/ DetachBestEffort(k)
  <2>1. call[k].pc \notin Holding /\ UNCHANGED <<vm, host>>
    BY <1>3 DEF Detach, DetachBestEffort, Holding
  <2>2. CASE Reject(k)
    BY <2>1, <2>2, SameVm, RejectedInv
  <2>3. CASE call[k].ok /\ Resolve(k)
    <3>1. call[k].op = "pull" \/ ~call[k].cmd \/ Launching(call[k])
      BY <1>3, <2>3 DEF Detach, DetachBestEffort, Launching
    <3>2. QED BY <2>1, <2>3, <3>1, SameVm, ResolveInv
  <2>4. QED BY <1>3, <2>2, <2>3 DEF Detach, DetachBestEffort
<1>4. CASE Return(k)
  <2>1. Idle \in CallType /\ OpOK(Idle) /\ ~Launching(Idle)
    BY AdapterAssumption DEF Idle, CallType, Pcs, Stages, OpOK, Launching, Working, Pulling, Ending
  <2>2. call[k].pc \notin Holding
    BY <1>4 DEF Return, Holding
  <2>3. QED BY <1>4, <2>1, <2>2, MoveInv DEF Return
<1>5. CASE Call(k)
  <2>1. PICK op \in Ops, cmd \in BOOLEAN, pc \in {"create", "image", "get"} :
          /\ cmd => op \in {"create", "start", "pull"}
          /\ pc = "image" <=> op = "pull"
          /\ Become(k, [Idle EXCEPT !.op = op, !.cmd = cmd, !.pc = pc])
    BY <1>5 DEF Call
  <2> DEFINE c == [Idle EXCEPT !.op = op, !.cmd = cmd, !.pc = pc]
  <2>2. Idle \in CallType /\ pc \in Pcs
    BY AdapterAssumption DEF Idle, CallType, Pcs, Stages
  <2>3. c \in CallType /\ c.op = op /\ c.cmd = cmd /\ c.pc = pc
    BY <2>2 DEF CallType
  <2>4. OpOK(c) /\ ~Launching(c)
    BY <2>1, <2>3 DEF OpOK, Launching, Working, Pulling, Ending
  <2>5. Become(k, c) /\ UNCHANGED <<vm, host>> /\ call[k].pc \notin Holding
    BY <1>5, <2>1 DEF Call, Holding
  <2> HIDE DEF c
  <2>6. QED BY <2>3, <2>4, <2>5, MoveInv
<1>6. QED BY <1>2, <1>3, <1>4, <1>5

LEMMA HaltVm ==
  ASSUME Inv, NEW st \in {"absent", "draining", "stopped"}, Halt(st)
  PROVE  VmOK(vm') /\ Grown(vm', vm)
BY VmShapes DEF Halt, Grown, NoVm

\* The end of a wait for the VM to stop.
LEMMA WaitedStep ==
  ASSUME Inv, NEW k \in Calls, call[k].pc \in {"poll", "kill", "pause"}, Waited(k),
         call[k].op \in {"stop", "remove"}, VmOK(vm'), Grown(vm', vm), UNCHANGED host
  PROVE  Inv'
<1>1. call[k] \in CallType /\ OpOK(call[k]) /\ call[k].pc \notin Holding
  BY DEF Inv, Typed, Holding
<1>2. CASE Resolve(k)
  BY <1>1, <1>2, ResolveInv DEF OpOK
<1>3. CASE call[k].op = "remove" /\ Become(k, [call[k] EXCEPT !.pc = "remove", !.late = FALSE])
  <2> DEFINE c == [call[k] EXCEPT !.pc = "remove", !.late = FALSE]
  <2>1. "remove" \in Pcs
    BY DEF Pcs
  <2>2. c \in CallType /\ c.pc = "remove" /\ c.op = "remove" /\ ~c.cmd
    BY <1>1, <1>3, <2>1 DEF CallType, OpOK
  <2>3. OpOK(c) /\ LaunchOK(c, vm')
    BY <2>2 DEF OpOK, LaunchOK, Launching, Pulling, Ending
  <2>4. Become(k, c) /\ HostStep(k, c)
    BY <1>1, <1>3, NotHolding
  <2> HIDE DEF c
  <2>5. QED BY <2>2, <2>3, <2>4, StepInv
<1>4. QED BY <1>2, <1>3 DEF Waited

LEMMA StopStep ==
  ASSUME Inv, NEW k \in Calls,
         \/ Stop(k) \/ Deadline(k) \/ Poll(k) \/ PollFails(k) \/ Kill(k) \/ Pause(k) \/ Remove(k)
         \/ ForceRemove(k)
  PROVE  Inv'
<1> USE DEF At
<1>1. call[k] \in CallType /\ OpOK(call[k])
  BY DEF Inv, Typed
<1>2. /\ call[k].pc \in Ending /\ call[k].pc \in Working /\ call[k].pc \notin Holding
      /\ call[k].op \in {"stop", "remove"} /\ ~call[k].cmd /\ UNCHANGED host
  <2>1. call[k].pc \in Ending /\ UNCHANGED host
    BY DEF Stop, Deadline, Poll, PollFails, Kill, Pause, Remove, ForceRemove, Ending
  <2>2. QED BY <1>1, <2>1 DEF OpOK, Ending, Working, Holding
<1>3. ASSUME NEW pc \in Ending, Goto(k, pc), VmOK(vm'), Grown(vm', vm) PROVE Inv'
  <2> DEFINE c == [call[k] EXCEPT !.pc = pc]
  <2>1. pc \in Pcs /\ pc \in Working /\ pc \notin Pulling \cup {"guest", "resolved", "detach"}
    BY DEF Ending, Pcs, Working, Pulling
  <2>2. c \in CallType /\ c.pc = pc /\ c.op = call[k].op /\ c.cmd = call[k].cmd
    BY <1>1, <2>1 DEF CallType
  <2>3. OpOK(c) /\ LaunchOK(c, vm')
    BY <1>1, <1>2, <2>1, <2>2 DEF OpOK, LaunchOK, Launching
  <2>4. Become(k, c) /\ HostStep(k, c)
    BY <1>2, <1>3, NotHolding DEF Goto
  <2> HIDE DEF c
  <2>5. QED BY <1>3, <2>2, <2>3, <2>4, StepInv
<1>4. CASE Stop(k)
  <2>1. VmOK(vm') /\ Grown(vm', vm)
    BY <1>4, HaltVm, SameVm DEF Stop
  <2>2. CASE Goto(k, "poll")
    BY <1>3, <2>1, <2>2 DEF Ending
  <2>3. CASE Reject(k)
    BY <1>2, <2>1, <2>3, RejectedInv
  <2>4. QED BY <1>4, <2>2, <2>3 DEF Stop
<1>5. CASE Deadline(k)
  <2> DEFINE c == [call[k] EXCEPT !.late = TRUE]
  <2>1. /\ c \in CallType /\ c.pc = call[k].pc /\ c.op = call[k].op /\ c.cmd = call[k].cmd
        /\ c.ok = call[k].ok /\ c.here = call[k].here
    BY <1>1 DEF CallType
  <2>2. OpOK(c) /\ ~Launching(c)
    BY <1>1, <1>2, <2>1 DEF OpOK, Launching
  <2>3. Become(k, c) /\ UNCHANGED <<vm, host>>
    BY <1>5 DEF Deadline
  <2> HIDE DEF c
  <2>4. QED BY <1>2, <2>1, <2>2, <2>3, MoveInv
<1>6. CASE Poll(k) \/ PollFails(k)
  <2>1. VmOK(vm') /\ Grown(vm', vm)
    BY <1>6, SameVm DEF Poll, PollFails
  <2>2. CASE Waited(k)
    BY <1>2, <1>6, <2>1, <2>2, WaitedStep DEF Poll, PollFails
  <2>3. CASE \E pc \in {"kill", "pause"} : Goto(k, pc)
    BY <1>3, <2>1, <2>3 DEF Ending
  <2>4. CASE Become(k, Resolved([call[k] EXCEPT !.blind = TRUE]))
    BY <1>2, <2>1, <2>4, ResolvedInv
  <2>5. QED BY <1>6, <2>2, <2>3, <2>4 DEF Poll, PollFails
<1>7. CASE Kill(k)
  <2>1. VmOK(vm') /\ Grown(vm', vm)
    BY <1>7, HaltVm, SameVm DEF Kill
  <2>2. QED BY <1>2, <1>7, <2>1, WaitedStep DEF Kill
<1>8. CASE Pause(k)
  <2>1. VmOK(vm') /\ Grown(vm', vm)
    BY <1>8, SameVm DEF Pause
  <2>2. CASE Waited(k)
    BY <1>2, <1>8, <2>1, <2>2, WaitedStep DEF Pause
  <2>3. CASE Goto(k, "poll")
    BY <1>3, <2>1, <2>3 DEF Ending
  <2>4. QED BY <1>8, <2>2, <2>3 DEF Pause
<1>9. CASE Remove(k) \/ ForceRemove(k)
  <2>1. VmOK(vm') /\ Grown(vm', vm)
    <3>1. CASE vm' = NoVm
      BY <3>1, VmShapes DEF Grown
    <3>2. CASE vm' = vm
      BY <3>2, SameVm
    <3>3. QED BY <1>9, <3>1, <3>2 DEF Remove, ForceRemove
  <2>2. CASE Resolve(k)
    BY <1>2, <2>1, <2>2, ResolveInv
  <2>3. CASE Reject(k)
    BY <1>2, <2>1, <2>3, RejectedInv
  <2>4. CASE Goto(k, "cli")
    BY <1>3, <2>1, <2>4 DEF Ending
  <2>5. QED BY <1>9, <2>2, <2>3, <2>4 DEF Remove, ForceRemove
<1>10. QED BY <1>4, <1>5, <1>6, <1>7, <1>8, <1>9

LEMMA PullStep ==
  ASSUME Inv, NEW k \in Calls,
         GetImage(k) \/ Pull(k) \/ Login(k) \/ AuthPull(k) \/ Logout(k) \/ Check(k)
  PROVE  Inv'
<1> USE DEF At
<1>1. call[k] \in CallType /\ OpOK(call[k]) /\ host \in HostType /\ (host.leaked => host.creds)
  BY DEF Inv, Typed
<1>2. call[k].pc \in Pulling /\ UNCHANGED vm /\ call[k].op = "pull"
  <2>1. call[k].pc \in Pulling /\ UNCHANGED vm
    BY DEF GetImage, Pull, Login, AuthPull, Logout, Check, Pulling
  <2>2. QED BY <1>1, <2>1 DEF OpOK
<1>3. VmOK(vm') /\ Grown(vm', vm)
  BY <1>2, SameVm
\* Wherever it goes, a pull reports no launch: the host decides.
<1>4. ASSUME NEW c \in CallType, Become(k, c), c.pc \in Pulling \cup {"resolved"}, c.op = "pull",
             HostStep(k, c)
      PROVE  Inv'
  <2>1. OpOK(c) /\ LaunchOK(c, vm')
    BY <1>4 DEF OpOK, LaunchOK, Launching, Pulling, Working, Ending
  <2>2. QED BY <1>3, <1>4, <2>1, StepInv
<1>5. ASSUME NEW pc \in Pulling, Goto(k, pc), HostStep(k, [call[k] EXCEPT !.pc = pc])
      PROVE  Inv'
  <2> DEFINE c == [call[k] EXCEPT !.pc = pc]
  <2>1. pc \in Pcs
    BY DEF Pulling, Pcs
  <2>2. c \in CallType /\ c.pc = pc /\ c.op = "pull"
    BY <1>1, <1>2, <2>1 DEF CallType
  <2>3. Become(k, c) /\ HostStep(k, c)
    BY <1>5 DEF Goto
  <2> HIDE DEF c
  <2>4. QED BY <1>4, <2>2, <2>3
<1>6. CASE GetImage(k) \/ Check(k) \/ Pull(k) \/ Login(k)
  <2>1. call[k].pc \notin Holding
    BY <1>6 DEF GetImage, Check, Pull, Login, Holding
  <2>2. CASE Resolve(k) /\ UNCHANGED host
    BY <1>2, <1>3, <2>1, <2>2, ResolveInv
  <2>3. CASE Reject(k) /\ UNCHANGED host
    BY <1>3, <2>1, <2>3, RejectedInv
  <2>4. CASE \E pc \in {"pull", "login"} : Goto(k, pc) /\ UNCHANGED host
    <3>1. PICK pc \in {"pull", "login"} : Goto(k, pc)
      BY <2>4
    <3>2. pc \in Pulling
      BY DEF Pulling
    <3>3. QED BY <1>5, <2>1, <2>4, <3>1, <3>2, NotHolding
  <2>5. CASE host' = [host EXCEPT !.image = TRUE] /\ Goto(k, "check")
    <3>1. HostStep(k, [call[k] EXCEPT !.pc = "check"])
      BY <1>1, <2>1, <2>5 DEF HostStep, HostType
    <3>2. QED BY <1>5, <2>5, <3>1 DEF Pulling
  <2>6. CASE host' = [host EXCEPT !.creds = TRUE] /\ Goto(k, "authPull")
    <3>1. HostStep(k, [call[k] EXCEPT !.pc = "authPull"])
      BY <1>1, <2>6 DEF HostStep, HostType, Holding, CallType
    <3>2. QED BY <1>5, <2>6, <3>1 DEF Pulling
  <2>7. QED BY <1>6, <2>2, <2>3, <2>4, <2>5, <2>6 DEF GetImage, Check, Pull, Login
<1>7. CASE AuthPull(k)
  <2>1. host' \in HostType /\ (host'.leaked => host'.creds)
    BY <1>1, <1>7 DEF AuthPull, HostType
  <2>2. PICK ok \in BOOLEAN : Become(k, [call[k] EXCEPT !.pc = "logout", !.ok = ok])
    <3>1. CASE Goto(k, "logout")
      <4>1. [call[k] EXCEPT !.pc = "logout"] = [call[k] EXCEPT !.pc = "logout", !.ok = call[k].ok]
        BY <1>1 DEF CallType
      <4>2. call[k].ok \in BOOLEAN
        BY <1>1 DEF CallType
      <4>3. QED BY <3>1, <4>1, <4>2 DEF Goto
    <3>2. QED BY <1>7, <3>1 DEF AuthPull
  <2> DEFINE c == [call[k] EXCEPT !.pc = "logout", !.ok = ok]
  <2>3. "logout" \in Pcs /\ "logout" \in Pulling /\ "logout" \in Holding
    BY DEF Pcs, Pulling, Holding
  <2>4. c \in CallType /\ c.pc = "logout" /\ c.op = "pull"
    BY <1>1, <1>2, <2>3 DEF CallType
  <2>5. Become(k, c) /\ HostStep(k, c)
    BY <2>1, <2>2, <2>3, <2>4 DEF HostStep
  <2> HIDE DEF c
  <2>6. QED BY <1>4, <2>3, <2>4, <2>5
<1>8. CASE Logout(k)
  <2>1. host' \in HostType /\ (host'.leaked => host'.creds) /\ (host'.creds => host'.leaked)
    BY <1>1, <1>8 DEF Logout, HostType
  <2>2. ASSUME NEW c PROVE HostStep(k, c)
    BY <2>1 DEF HostStep
  <2>3. CASE Goto(k, "check")
    BY <1>5, <2>2, <2>3 DEF Pulling
  <2>4. CASE Reject(k)
    BY <1>3, <2>2, <2>4, RejectedHostInv
  <2>5. QED BY <1>8, <2>3, <2>4 DEF Logout
<1>9. QED BY <1>6, <1>7, <1>8

\* What happens to the VM and the cache by itself.
LEMMA OutsideStep ==
  ASSUME Inv, RunsLate \/ VmStops \/ Evict
  PROVE  Inv'
<1>1. /\ call' = call /\ VmOK(vm) /\ vm \in VmType /\ host \in HostType
      /\ \A k \in Calls : call[k] \in CallType
  BY DEF Inv, Typed, VmOK, RunsLate, VmStops, Evict
<1>2. VmOK(vm') /\ Grown(vm', vm)
  <2>1. CASE RunsLate
    <3>1. PICK n \in {0, 1} : vm' = [vm EXCEPT !.ran = TRUE, !.copies = @ + n, !.pending = @ - 1]
      BY <2>1 DEF RunsLate
    <3>2. vm.copies + n \in Nat /\ vm.pending - 1 \in Nat /\ vm.st = "running"
      BY <1>1, <2>1 DEF RunsLate, VmType
    <3>3. vm' \in VmType /\ vm'.st = "running" /\ vm'.ran
      BY <1>1, <3>1, <3>2 DEF VmType
    <3>4. QED BY <3>2, <3>3 DEF VmOK, Grown
  <2>2. CASE VmStops
    BY <2>2, HaltVm DEF VmStops
  <2>3. CASE Evict
    BY <2>3, SameVm DEF Evict
  <2>4. QED BY <2>1, <2>2, <2>3
<1>3. /\ host' \in HostType /\ host'.creds = host.creds /\ host'.leaked = host.leaked
  BY <1>1 DEF RunsLate, VmStops, Evict, HostType
<1>4. \A k \in Calls : LaunchOK(call[k], vm')
  BY <1>1, <1>2 DEF Inv, LaunchOK, Grown, VmOK, VmType
<1>5. NoCredentialsLeft'
  BY <1>1, <1>3 DEF Inv, NoCredentialsLeft
<1>6. Typed'
  BY <1>1, <1>2, <1>3 DEF Inv, Typed
<1>7. QED BY <1>1, <1>4, <1>5, <1>6 DEF Inv

LEMMA Invariance == Spec => []Inv
<1>1. Inv /\ [Next]_vars => Inv'
  <2> SUFFICES ASSUME Inv, [Next]_vars PROVE Inv'
    OBVIOUS
  <2>1. CASE UNCHANGED vars
    BY <2>1 DEF vars, Inv, Typed, NoCredentialsLeft
  <2>2. ASSUME NEW k \in Calls,
               Call(k) \/ Return(k) \/ Step(k) \/ FromGuest(k) \/ TimesOut(k) \/ Deadline(k)
        PROVE  Inv'
    BY <2>2, EnterStep, AttemptStep, EndStep, StopStep, PullStep DEF Step, FromGuest
  <2>3. QED BY <2>1, <2>2, OutsideStep DEF Next
<1>2. QED BY <1>1, InitInv, PTL DEF Spec

\* Every variable has its type, for any calls and any number of attempts.
THEOREM AdapterTypeCorrect == Spec => []TypeOK
<1>1. Inv => TypeOK BY TypedIsTypeOK DEF Inv
<1>2. QED BY <1>1, Invariance, PTL

\* A create or start that resolves has had its launch script run in the VM that runs now.
THEOREM ResolvedLaunchHasRun == Spec => []ResolvedMeansLaunched
<1>1. Inv => ResolvedMeansLaunched
  BY DEF Inv, ResolvedMeansLaunched, LaunchOK, Launching, Alive, At
<1>2. QED BY <1>1, Invariance, PTL

\* Registry credentials outlive the pulls that use them only through a failed logout.
THEOREM CredentialsGoWithPulls == Spec => []NoCredentialsLeft
<1>1. Inv => NoCredentialsLeft BY DEF Inv
<1>2. QED BY <1>1, Invariance, PTL

--------------------------------------------------------------------------------
(* How a call is settled. *)

\* stop and remove never turn into anything else, and a VM is killed only after the
\* deadline.
RouteOK(c) ==
  /\ c.op \in {"stop", "remove"} => c.pc \in Ending \cup {"get", "resolved"}
  /\ c.pc = "connect" => c.op = "exec"
  /\ c.pc = "kill" => c.late
  /\ c.pc \in {"binary", "keys"} => c.stage # "launch"

RouteInv == \A k \in Calls : RouteOK(call[k])

\* What StopSettles asks of a call that becomes resolved.
Settles(k) ==
  ~At(k, "resolved") /\ call'[k].pc = "resolved" =>
    /\ call[k].op = "stop" => call[k].late \/ vm'.st \in {"absent", "stopped"} \/ call'[k].blind
    /\ call[k].op = "remove" => vm'.st = "absent" \/ call'[k].blind

\* What becomes of the calls.
LEMMA NewCall ==
  ASSUME Inv, NEW k \in Calls, NEW c, Become(k, c)
  PROVE  call'[k] = c /\ \A j \in Calls \ {k} : call'[j] = call[j]
BY DEF Inv, Typed, Become

\* Settled, a call is out of the way.
LEMMA RejectRoute ==
  ASSUME Inv, NEW k \in Calls, Reject(k) PROVE RouteOK(call'[k]) /\ Settles(k)
BY NewCall DEF Reject, RouteOK, Settles, Idle

LEMMA ResolvedRoute ==
  ASSUME Inv, NEW k \in Calls, NEW c \in CallType, Become(k, Resolved(c))
  PROVE  RouteOK(call'[k]) /\ call'[k].pc = "resolved" /\ call'[k].blind = c.blind
<1> DEFINE d == Resolved(c)
<1>1. d.pc = "resolved" /\ d.blind = c.blind
  BY DEF Resolved, Idle
<1>2. Become(k, d)
  OBVIOUS
<1> HIDE DEF d
<1> QED
  BY <1>1, <1>2, NewCall DEF RouteOK, Ending

LEMMA GotoRoute ==
  ASSUME Inv, NEW k \in Calls, NEW pc, Goto(k, pc)
  PROVE  /\ call'[k].pc = pc /\ call'[k].op = call[k].op /\ call'[k].late = call[k].late
         /\ call'[k].stage = call[k].stage
<1>1. call[k] \in CallType
  BY DEF Inv, Typed
<1> DEFINE c == [call[k] EXCEPT !.pc = pc]
<1>2. c.pc = pc /\ c.op = call[k].op /\ c.late = call[k].late /\ c.stage = call[k].stage
  BY <1>1 DEF CallType
<1>3. Become(k, c)
  BY DEF Goto
<1> HIDE DEF c
<1> QED
  BY <1>2, <1>3, NewCall

\* Where a call goes once it has its sandbox object.
LEMMA EnteredRoute ==
  ASSUME Inv, NEW k \in Calls, call[k].op \notin {"stop", "remove"}, NEW stage,
         Boots(k, Entered(call[k], stage)) \/ Attach(k, Entered(call[k], stage))
  PROVE  RouteOK(call'[k]) /\ Settles(k)
<1> DEFINE e == Entered(call[k], stage)
<1>1. call[k] \in CallType
  BY DEF Inv, Typed
<1>2. /\ e.pc \in {"guest", "attempt", "detach"} \/ (e.pc = "binary" /\ e.stage = "chmod")
      /\ e.op = call[k].op /\ {"pc", "op", "stage"} \subseteq DOMAIN e
  BY <1>1 DEF CallType, Entered
<1>3. call'[k] = [e EXCEPT !.here = TRUE]
  BY DEF Boots, Attach, Become, Inv, Typed
<1> HIDE DEF e
<1>4. call'[k].pc = e.pc /\ call'[k].op = e.op /\ call'[k].stage = e.stage
  BY <1>2, <1>3
<1> QED
  BY <1>2, <1>4 DEF RouteOK, Settles, Ending

LEMMA OtherRoutes ==
  ASSUME Inv, NEW k \in Calls, (\E c : Become(k, c) \/ Boots(k, c)), NEW j \in Calls \ {k}
  PROVE  /\ call'[j].pc = call[j].pc /\ call'[j].op = call[j].op /\ call'[j].late = call[j].late
         /\ call'[j].stage = call[j].stage
<1>1. call[j] \in CallType
  BY DEF Inv, Typed
<1>2. call'[j] \in {call[j], [call[j] EXCEPT !.here = FALSE]}
  BY NewCall DEF Boots
<1> DEFINE d == [call[j] EXCEPT !.here = FALSE]
<1>3. d.pc = call[j].pc /\ d.op = call[j].op /\ d.late = call[j].late /\ d.stage = call[j].stage
  BY <1>1 DEF CallType
<1> HIDE DEF d
<1> QED
  BY <1>2, <1>3 DEF d

LEMMA RouteStep ==
  ASSUME Inv, RouteInv, NEW k \in Calls,
         Call(k) \/ Return(k) \/ Step(k) \/ FromGuest(k) \/ TimesOut(k) \/ Deadline(k)
  PROVE  RouteOK(call'[k]) /\ Settles(k) /\ \E c : Become(k, c) \/ Boots(k, c)
<1> USE DEF At
<1>0. call[k] \in CallType /\ OpOK(call[k]) /\ RouteOK(call[k])
  BY DEF Inv, Typed, RouteInv
<1>a. ASSUME Reject(k) PROVE RouteOK(call'[k]) /\ Settles(k) /\ \E c : Become(k, c)
  BY <1>a, RejectRoute DEF Reject
<1>b. ASSUME Resolve(k), call[k].op = "stop" => call[k].late \/ vm'.st \in {"absent", "stopped"},
             call[k].op = "remove" => vm'.st = "absent"
      PROVE  RouteOK(call'[k]) /\ Settles(k) /\ \E c : Become(k, c)
  BY <1>0, <1>b, ResolvedRoute DEF Resolve, Settles
<1>c. ASSUME NEW pc, Goto(k, pc), pc # "resolved", call[k].op \in {"stop", "remove"} => pc \in Ending,
             pc = "connect" => call[k].op = "exec", pc = "kill" => call[k].late,
             pc \notin {"binary", "keys"}
      PROVE  RouteOK(call'[k]) /\ Settles(k) /\ \E c : Become(k, c)
  BY <1>c, GotoRoute DEF Goto, RouteOK, Settles
<1>d. ASSUME NEW c, Become(k, c), RouteOK(c), c.pc # "resolved"
      PROVE  RouteOK(call'[k]) /\ Settles(k) /\ \E d : Become(k, d)
  BY <1>d, NewCall DEF Settles
<1>1. CASE Create(k)
  <2>1. call[k].op \notin {"stop", "remove"}
    BY <1>0, <1>1 DEF Create, RouteOK, Ending
  <2> QED
    BY <1>1, <1>a, <2>1, EnteredRoute DEF Create
<1>2. CASE Get(k)
  <2>1. CASE /\ Become(k, Resolved([call[k] EXCEPT !.blind = vm.st # "absent"]))
             /\ call[k].op = "remove"
    <3>1. PICK c \in CallType : Become(k, Resolved(c)) /\ c.blind = (vm.st # "absent")
      <4> DEFINE c == [call[k] EXCEPT !.blind = vm.st # "absent"]
      <4>1. c \in CallType /\ c.blind = (vm.st # "absent")
        BY <1>0 DEF CallType
      <4> QED
        BY <2>1, <4>1
    <3>2. RouteOK(call'[k]) /\ call'[k].blind = (vm.st # "absent")
      BY <3>1, ResolvedRoute
    <3> QED
      BY <1>2, <2>1, <3>1, <3>2 DEF Get, Settles
  <2>2. CASE \E pc \in {"halt", "connect", "boot"} :
               /\ Goto(k, pc) /\ (call[k].op \in {"stop", "remove"} => pc = "halt")
               /\ (pc = "connect" => call[k].op = "exec")
    <3>1. PICK pc \in {"halt", "connect", "boot"} :
             /\ Goto(k, pc) /\ (call[k].op \in {"stop", "remove"} => pc = "halt")
             /\ (pc = "connect" => call[k].op = "exec")
      BY <2>2
    <3> QED
      BY <1>c, <3>1 DEF Ending
  <2> QED
    BY <1>2, <1>a, <2>1, <2>2 DEF Get
<1>3. CASE Boot(k) \/ Connect(k)
  <2>1. call[k].op \notin {"stop", "remove"}
    BY <1>0, <1>3 DEF Boot, Connect, RouteOK, Ending
  <2>2. Attach(k, Entered(call[k], "launch")) => \E c : Become(k, c)
    BY DEF Attach
  <2> QED
    BY <1>3, <1>a, <2>1, <2>2, EnteredRoute DEF Boot, Connect
<1>4. CASE Guest(k)
  <2>1. PICK ok \in BOOLEAN : Become(k, [call[k] EXCEPT !.pc = "detach", !.ok = ok])
    BY <1>4 DEF Guest
  <2>2. RouteOK([call[k] EXCEPT !.pc = "detach", !.ok = ok])
    BY <1>0, <1>4 DEF Guest, RouteOK, CallType, Ending
  <2>3. [call[k] EXCEPT !.pc = "detach", !.ok = ok].pc = "detach"
    BY <1>0 DEF CallType
  <2> QED
    BY <1>d, <2>1, <2>2, <2>3
<1>5. CASE Detach(k) \/ DetachBestEffort(k)
  <2>1. call[k].op \notin {"stop", "remove"}
    BY <1>0, <1>5 DEF Detach, DetachBestEffort, RouteOK, Ending
  <2> QED
    BY <1>5, <1>a, <1>b, <2>1 DEF Detach, DetachBestEffort
<1>6. CASE Attempt(k)
  BY <1>0, <1>6, <1>c DEF Attempt, RouteOK, Ending
<1>7. CASE Written(k) \/ Answered(k) \/ EndsSilently(k) \/ TimesOut(k) \/ Fails(k)
  <2>1. call[k].op \notin {"stop", "remove"}
    BY <1>0, <1>7 DEF Written, Answered, EndsSilently, TimesOut, Fails, RouteOK, Ending
  <2>2. ASSUME NEW c, Become(k, c), c.op = call[k].op,
               c.pc \in {"attempt", "detach"} \/ (c.pc = "keys" /\ c.stage = "keygen")
        PROVE  RouteOK(call'[k]) /\ Settles(k) /\ \E d : Become(k, d)
    BY <1>d, <2>1, <2>2 DEF RouteOK
  <2>3. ASSUME LaunchNext(k) PROVE RouteOK(call'[k]) /\ Settles(k) /\ \E c : Become(k, c)
    <3>1. PICK c : Become(k, c) /\ c = [call[k] EXCEPT !.pc = "attempt", !.stage = "launch", !.try = 1]
      BY <2>3 DEF LaunchNext
    <3>2. c.pc = "attempt" /\ c.op = call[k].op
      BY <1>0, <3>1 DEF CallType
    <3> QED
      BY <2>2, <3>1, <3>2
  <2>4. ASSUME NEW ok \in BOOLEAN, Done(k, ok) PROVE RouteOK(call'[k]) /\ Settles(k) /\ \E c : Become(k, c)
    <3>1. CASE ~LaunchNext(k)
      <4>1. PICK c : /\ Become(k, c)
                     /\ \/ c = [call[k] EXCEPT !.pc = "keys", !.stage = "keygen", !.try = 1]
                        \/ c = [call[k] EXCEPT !.pc = "detach", !.try = 1, !.ok = ok]
        BY <2>4, <3>1 DEF Done
      <4>2. c.op = call[k].op /\ (c.pc = "detach" \/ (c.pc = "keys" /\ c.stage = "keygen"))
        BY <1>0, <4>1 DEF CallType
      <4> QED
        BY <2>2, <4>1, <4>2
    <3> QED
      BY <2>3, <3>1
  <2>5. ASSUME Again(k) PROVE RouteOK(call'[k]) /\ Settles(k) /\ \E c : Become(k, c)
    <3>1. CASE ~Done(k, FALSE)
      <4>1. PICK c : Become(k, c) /\ c = [call[k] EXCEPT !.pc = "attempt", !.try = @ + 1]
        BY <2>5, <3>1 DEF Again
      <4>2. c.pc = "attempt" /\ c.op = call[k].op
        BY <1>0, <4>1 DEF CallType
      <4> QED
        BY <2>2, <4>1, <4>2
    <3> QED
      BY <2>4, <3>1
  <2>6. CASE Written(k)
    BY <1>c, <2>1, <2>3, <2>6 DEF Written
  <2> QED
    BY <1>7, <2>4, <2>5, <2>6 DEF Answered, EndsSilently, TimesOut, Fails
<1>8. ASSUME Waited(k), call[k].op = "remove" \/ call[k].late \/ (Quiet /\ UNCHANGED vm),
             call[k].pc \in Ending
      PROVE  RouteOK(call'[k]) /\ Settles(k) /\ \E c : Become(k, c)
  <2>1. CASE call[k].op = "remove"
    <3>1. PICK c : Become(k, c) /\ c = [call[k] EXCEPT !.pc = "remove", !.late = FALSE]
      BY <1>8, <2>1 DEF Waited
    <3>2. c.pc = "remove"
      BY <1>0, <3>1 DEF CallType
    <3> QED
      BY <1>d, <3>1, <3>2 DEF RouteOK, Ending
  <2>2. CASE call[k].op # "remove"
    BY <1>8, <1>b, <2>2 DEF Waited, Quiet
  <2> QED
    BY <2>1, <2>2
<1>9. CASE Stop(k)
  BY <1>9, <1>a, <1>c DEF Stop, Ending
<1>10. CASE Deadline(k)
  <2> DEFINE c == [call[k] EXCEPT !.late = TRUE]
  <2>1. Become(k, c) /\ c.pc = call[k].pc /\ c.op = call[k].op /\ c.late /\ c.pc \in {"poll", "pause"}
    BY <1>0, <1>10 DEF Deadline, CallType
  <2> HIDE DEF c
  <2> QED
    BY <1>0, <1>d, <2>1 DEF RouteOK
<1>11. CASE Poll(k) \/ Pause(k) \/ PollFails(k)
  <2>1. CASE Become(k, Resolved([call[k] EXCEPT !.blind = TRUE])) /\ call[k].op # "remove"
    <3>1. PICK c \in CallType : Become(k, Resolved(c)) /\ c.blind
      <4> DEFINE c == [call[k] EXCEPT !.blind = TRUE]
      <4>1. c \in CallType /\ c.blind
        BY <1>0 DEF CallType
      <4> QED
        BY <2>1, <4>1
    <3>2. RouteOK(call'[k]) /\ call'[k].blind
      BY <3>1, ResolvedRoute
    <3> QED
      BY <2>1, <3>1, <3>2 DEF Settles
  <2> QED
    BY <1>0, <1>8, <1>11, <1>c, <2>1 DEF Poll, Pause, PollFails, Ending, OpOK
<1>12. CASE Kill(k)
  BY <1>0, <1>8, <1>12 DEF Kill, Ending, RouteOK
<1>13. CASE Remove(k) \/ ForceRemove(k)
  BY <1>13, <1>a, <1>b, <1>c DEF Remove, ForceRemove, Ending, NoVm
<1>14. CASE GetImage(k) \/ Pull(k) \/ Login(k) \/ AuthPull(k) \/ Logout(k) \/ Check(k)
  <2>1. call[k].op = "pull"
    BY <1>0, <1>14 DEF GetImage, Pull, Login, AuthPull, Logout, Check, OpOK, Pulling
  <2>2. ASSUME Become(k, [call[k] EXCEPT !.pc = "logout", !.ok = FALSE])
        PROVE  RouteOK(call'[k]) /\ Settles(k) /\ \E c : Become(k, c)
    <3>1. PICK c : Become(k, c) /\ c = [call[k] EXCEPT !.pc = "logout", !.ok = FALSE]
      BY <2>2
    <3>2. c.pc = "logout" /\ c.op = "pull"
      BY <1>0, <2>1, <3>1 DEF CallType
    <3> QED
      BY <1>d, <3>1, <3>2 DEF RouteOK
  <2> QED
    BY <1>14, <1>a, <1>b, <1>c, <2>1, <2>2 DEF GetImage, Pull, Login, AuthPull, Logout, Check
<1>15. CASE Call(k)
  <2>1. PICK op \in Ops, cmd \in BOOLEAN, pc \in {"create", "image", "get"} :
          /\ op \in {"stop", "remove"} => pc = "get"
          /\ Become(k, [Idle EXCEPT !.op = op, !.cmd = cmd, !.pc = pc])
    BY <1>15 DEF Call
  <2>2. PICK c : Become(k, c) /\ c = [Idle EXCEPT !.op = op, !.cmd = cmd, !.pc = pc]
    BY <2>1
  <2>3. c.op = op /\ c.pc = pc
    BY <2>2 DEF Idle
  <2> QED
    BY <1>d, <2>1, <2>2, <2>3 DEF RouteOK
<1>16. CASE Return(k)
  BY <1>16, <1>d DEF Return, Idle, RouteOK
<1> QED
  BY <1>1, <1>2, <1>3, <1>4, <1>5, <1>6, <1>7, <1>9, <1>10, <1>11, <1>12, <1>13, <1>14, <1>15, <1>16
     DEF Step, FromGuest

LEMMA RouteNext == Inv /\ RouteInv /\ [Next]_vars => RouteInv' /\ \A k \in Calls : Settles(k)
<1> SUFFICES ASSUME Inv, RouteInv, [Next]_vars PROVE RouteInv' /\ \A k \in Calls : Settles(k)
  OBVIOUS
<1>1. ASSUME NEW k \in Calls,
             Call(k) \/ Return(k) \/ Step(k) \/ FromGuest(k) \/ TimesOut(k) \/ Deadline(k)
      PROVE  RouteInv' /\ \A j \in Calls : Settles(j)
  <2>1. RouteOK(call'[k]) /\ Settles(k) /\ \E c : Become(k, c) \/ Boots(k, c)
    BY <1>1, RouteStep
  <2>2. ASSUME NEW j \in Calls \ {k} PROVE RouteOK(call'[j]) /\ Settles(j)
    BY <2>1, <2>2, OtherRoutes DEF RouteInv, RouteOK, Settles, At
  <2> QED
    BY <2>1, <2>2 DEF RouteInv
<1>2. CASE UNCHANGED call
  BY <1>2 DEF RouteInv, Settles, At
<1> QED
  BY <1>1, <1>2 DEF Next, RunsLate, VmStops, Evict, vars

LEMMA Routing == Spec => [](Inv /\ RouteInv)
<1>1. Init => RouteInv
  <2>1. RouteOK(Idle)
    BY DEF Idle, RouteOK
  <2> QED
    BY <2>1 DEF Init, RouteInv
<1> QED
  BY <1>1, RouteNext, Invariance, PTL DEF Spec

\* stop resolves when the VM has stopped or after its deadline, remove only without a VM:
\* through status reads that fail or not, the kill and the two ways to remove, whatever
\* other calls boot, stop and remove meanwhile.  A stop that could not read the status and a
\* remove whose first lookup failed are excused, and nothing else.
THEOREM StopAndRemoveSettle == Spec => StopSettles
<1> DEFINE A == \A k \in Calls : Settles(k)
<1>1. Inv /\ RouteInv /\ [Next]_vars => [A]_vars
  BY RouteNext
<1> HIDE DEF A
<1>2. Spec => [][A]_vars
  BY <1>1, Routing, PTL DEF Spec
<1>3. [][A]_vars => StopSettles
  BY DEF A, Settles, StopSettles
<1> QED
  BY <1>2, <1>3

--------------------------------------------------------------------------------
(* Copies of the command. *)

\* The attempts a call has left to launch the command in the VM it has reached,
Launchers == {"binary", "keys", "attempt", "waiting"}
Left(c) == {j \in 1..Attempts : /\ c.here /\ c.pc \in Launchers
                                /\ c.stage = "launch" => j >= c.try}
\* and those of all calls: each launch that was counted has come with Attempts of them.
Credits == {p \in Calls \X (1..Attempts) : vm.st = "running" /\ p[2] \in Left(call[p[1]])}

CreditInv == IsFiniteSet(Credits) /\ vm.copies + vm.pending + Cardinality(Credits) <= Attempts * vm.launches

Lot(k) == {k} \X (1..Attempts)

LEMMA LotSize == ASSUME NEW k PROVE IsFiniteSet(Lot(k)) /\ Cardinality(Lot(k)) = Attempts
<1>1. IsFiniteSet(1..Attempts) /\ Cardinality(1..Attempts) = Attempts
  BY FS_Interval, AdapterAssumption
<1>2. IsFiniteSet({k}) /\ Cardinality({k}) = 1
  BY FS_Singleton
<1>3. IsFiniteSet(Lot(k)) /\ Cardinality(Lot(k)) = Cardinality({k}) * Cardinality(1..Attempts)
  BY <1>1, <1>2, FS_Product DEF Lot
<1> QED
  BY <1>1, <1>2, <1>3, AdapterAssumption

\* No VM, no copies.
LEMMA CountStopped == ASSUME VmOK(vm'), vm'.st # "running" PROVE CreditInv'
<1>1. vm'.copies = 0 /\ vm'.pending = 0 /\ vm'.launches = 0
  BY DEF VmOK, VmType, NoVm
<1>2. Credits' = {}
  BY DEF Credits
<1> QED
  BY <1>1, <1>2, FS_EmptySet, AdapterAssumption DEF CreditInv

\* Nothing more is launched, and no call is given more attempts.
LEMMA CountNoMore ==
  ASSUME CreditInv, VmOK(vm), VmOK(vm'), vm'.copies + vm'.pending <= vm.copies + vm.pending,
         vm'.launches = vm.launches, Credits' \subseteq Credits
  PROVE  CreditInv'
<1>1. IsFiniteSet(Credits') /\ Cardinality(Credits') <= Cardinality(Credits)
  BY FS_Subset DEF CreditInv
<1>2. Cardinality(Credits') \in Nat /\ Cardinality(Credits) \in Nat
  BY <1>1, FS_CardinalityType DEF CreditInv
<1>3. Attempts * vm.launches \in Nat
  BY AdapterAssumption DEF VmOK, VmType
<1> QED
  BY <1>1, <1>2, <1>3 DEF CreditInv, VmOK, VmType

LEMMA CountSame ==
  ASSUME CreditInv, VmOK(vm), VmOK(vm'), vm'.copies + vm'.pending = vm.copies + vm.pending,
         vm'.launches = vm.launches, Credits' \subseteq Credits
  PROVE  CreditInv'
<1>1. vm'.copies + vm'.pending <= vm.copies + vm.pending
  BY DEF VmOK, VmType
<1> QED
  BY <1>1, CountNoMore

\* An attempt is used up, by a copy or not.
LEMMA CountUsed ==
  ASSUME CreditInv, VmOK(vm), VmOK(vm'), vm'.copies + vm'.pending <= vm.copies + vm.pending + 1,
         vm'.launches = vm.launches, NEW p \in Credits, Credits' \subseteq Credits \ {p}
  PROVE  CreditInv'
<1>1. IsFiniteSet(Credits \ {p}) /\ Cardinality(Credits \ {p}) = Cardinality(Credits) - 1
  BY FS_RemoveElement DEF CreditInv
<1>2. IsFiniteSet(Credits') /\ Cardinality(Credits') <= Cardinality(Credits \ {p})
  BY <1>1, FS_Subset
<1>3. Cardinality(Credits') \in Nat /\ Cardinality(Credits) \in Nat
  BY <1>2, FS_CardinalityType DEF CreditInv
<1>4. Attempts * vm.launches \in Nat
  BY AdapterAssumption DEF VmOK, VmType
<1> QED
  BY <1>1, <1>2, <1>3, <1>4 DEF CreditInv, VmOK, VmType

\* A launch is counted, in the VM that runs,
LEMMA CountAdded ==
  ASSUME CreditInv, VmOK(vm), VmOK(vm'), vm'.copies + vm'.pending = vm.copies + vm.pending,
         vm'.launches = vm.launches + 1, NEW k, Credits' \subseteq Credits \cup Lot(k)
  PROVE  CreditInv'
<1>1. IsFiniteSet(Credits \cup Lot(k)) /\ Cardinality(Credits \cup Lot(k)) =
        Cardinality(Credits) + Attempts - Cardinality(Credits \cap Lot(k))
  BY LotSize, FS_Union DEF CreditInv
<1>2. IsFiniteSet(Credits') /\ Cardinality(Credits') <= Cardinality(Credits \cup Lot(k))
  BY <1>1, FS_Subset
<1>3. /\ Cardinality(Credits') \in Nat /\ Cardinality(Credits) \in Nat
      /\ Cardinality(Credits \cap Lot(k)) \in Nat
  BY <1>2, FS_Intersection, FS_CardinalityType DEF CreditInv
<1>4. vm.launches \in Nat /\ Attempts \in Nat
  BY AdapterAssumption DEF VmOK, VmType
<1>5. Attempts * (vm.launches + 1) = Attempts * vm.launches + Attempts /\ Attempts * vm.launches \in Nat
  BY <1>4
<1> QED
  BY <1>1, <1>2, <1>3, <1>4, <1>5 DEF CreditInv, VmOK, VmType

\* or in a fresh one.
LEMMA CountFresh ==
  ASSUME vm'.copies = 0, vm'.pending = 0, NEW k,
         \/ vm'.launches = 0 /\ Credits' = {}
         \/ vm'.launches = 1 /\ Credits' \subseteq Lot(k)
  PROVE  CreditInv'
<1>1. CASE vm'.launches = 0 /\ Credits' = {}
  BY <1>1, FS_EmptySet, AdapterAssumption DEF CreditInv
<1>2. CASE vm'.launches = 1 /\ Credits' \subseteq Lot(k)
  <2>1. IsFiniteSet(Credits') /\ Cardinality(Credits') <= Attempts
    BY <1>2, LotSize, FS_Subset
  <2>2. Cardinality(Credits') \in Nat
    BY <2>1, FS_CardinalityType
  <2> QED
    BY <1>2, <2>1, <2>2, AdapterAssumption DEF CreditInv
<1> QED
  BY <1>1, <1>2

\* A call moves on: only its own attempts change.
LEMMA CreditsMove ==
  ASSUME Inv, NEW k \in Calls, NEW c, Become(k, c), vm'.st = "running" => vm.st = "running"
  PROVE  /\ Left(c) \subseteq Left(call[k]) => Credits' \subseteq Credits
         /\ \A j : Left(c) \subseteq Left(call[k]) \ {j} => Credits' \subseteq Credits \ {<<k, j>>}
         /\ Credits' \subseteq Credits \cup Lot(k)
<1>1. call'[k] = c /\ \A j \in Calls \ {k} : call'[j] = call[j]
  BY NewCall
<1>2. ASSUME NEW p \in Credits'
      PROVE  /\ p \in Calls \X (1..Attempts) /\ vm.st = "running"
             /\ p[1] # k => p \in Credits
             /\ p[1] = k => p[2] \in Left(c) /\ p = <<k, p[2]>> /\ p \in Lot(k)
  <2>1. p \in Calls \X (1..Attempts) /\ vm'.st = "running" /\ p[2] \in Left(call'[p[1]])
    BY <1>2 DEF Credits, Left
  <2> QED
    BY <1>1, <2>1 DEF Credits, Lot
<1>3. ASSUME Left(c) \subseteq Left(call[k]), NEW p \in Credits' PROVE p \in Credits
  BY <1>2, <1>3 DEF Credits
<1> QED
  BY <1>2, <1>3

\* A call that is not launching anything has no attempts.
LEMMA QuietCredit ==
  ASSUME Inv, Inv', CreditInv, NEW k \in Calls, NEW c, Become(k, c), c.pc \notin Launchers,
         vm' = vm \/ vm'.st # "running"
  PROVE  CreditInv'
<1>1. VmOK(vm) /\ VmOK(vm')
  BY DEF Inv, Typed
<1>2. Left(c) \subseteq Left(call[k])
  BY DEF Left
<1> QED
  BY <1>1, <1>2, CreditsMove, CountSame, CountStopped

LEMMA SettledCredit ==
  ASSUME Inv, Inv', CreditInv, NEW k \in Calls, vm' = vm \/ vm'.st # "running",
         \/ Reject(k) \/ (\E c : Become(k, Resolved(c))) \/ \E pc \in Pcs \ Launchers : Goto(k, pc)
  PROVE  CreditInv'
<1>1. call[k] \in CallType
  BY DEF Inv, Typed
<1>2. PICK c : Become(k, c) /\ c.pc \notin Launchers
  <2>1. CASE Reject(k)
    BY <2>1 DEF Reject, Idle, Launchers
  <2>2. ASSUME NEW d, Become(k, Resolved(d))
        PROVE  \E c : Become(k, c) /\ c.pc \notin Launchers
    <3>1. Resolved(d).pc = "resolved"
      BY DEF Resolved, Idle
    <3> QED
      BY <2>2, <3>1 DEF Launchers
  <2>3. ASSUME NEW pc \in Pcs \ Launchers, Goto(k, pc)
        PROVE  \E c : Become(k, c) /\ c.pc \notin Launchers
    <3>1. PICK c : Become(k, c) /\ c = [call[k] EXCEPT !.pc = pc]
      BY <2>3 DEF Goto
    <3>2. c.pc = pc
      BY <1>1, <3>1 DEF CallType
    <3> QED
      BY <2>3, <3>1, <3>2
  <2> QED
    BY <2>1, <2>2, <2>3
<1> QED
  BY <1>2, QuietCredit

\* A fresh boot ends the attempts of the other calls.
LEMMA BootCredit ==
  ASSUME Inv, NEW k \in Calls, NEW stage \in {"chmod", "launch"}, Boots(k, Entered(call[k], stage)),
         vm' = [NoVm EXCEPT !.st = "running", !.launches = Counted(call[k], 0)]
  PROVE  CreditInv'
<1> DEFINE e == [Entered(call[k], stage) EXCEPT !.here = TRUE]
<1>1. call \in [Calls -> CallType]
  BY DEF Inv, Typed
<1>2. call'[k] = e /\ \A j \in Calls \ {k} : call'[j] = [call[j] EXCEPT !.here = FALSE]
  BY DEF Boots
<1>3. ASSUME NEW j \in Calls \ {k} PROVE ~call'[j].here
  <2> HIDE DEF e
  <2>1. call[j] \in CallType /\ call'[j] = [call[j] EXCEPT !.here = FALSE]
    BY <1>1, <1>2
  <2> QED
    BY <2>1 DEF CallType
<1>4. Credits' \subseteq Lot(k)
  BY <1>3 DEF Credits, Left, Lot
<1>5. vm'.copies = 0 /\ vm'.pending = 0 /\ vm'.launches = Counted(call[k], 0)
  BY DEF NoVm
<1>6. CASE call[k].op # "exec" /\ call[k].cmd
  BY <1>4, <1>5, <1>6, CountFresh DEF Counted
<1>7. CASE ~(call[k].op # "exec" /\ call[k].cmd)
  <2>1. e.pc \in {"guest", "detach"}
    BY <1>1, <1>7 DEF Entered, CallType
  <2> HIDE DEF e
  <2>2. Credits' = {}
    BY <1>2, <1>3, <2>1 DEF Credits, Left, Launchers
  <2> QED
    BY <1>5, <1>7, <2>2, CountFresh DEF Counted
<1> QED
  BY <1>6, <1>7

\* A step of the injection, or its end, gives no attempts away.
LEMMA LaunchNextCredit ==
  ASSUME Inv, NEW k \in Calls, LaunchNext(k), call[k].stage # "launch", call[k].pc \in Launchers
  PROVE  \E c : Become(k, c) /\ Left(c) \subseteq Left(call[k])
<1>1. PICK c : Become(k, c) /\ c = [call[k] EXCEPT !.pc = "attempt", !.stage = "launch", !.try = 1]
  BY DEF LaunchNext
<1>2. c.here = call[k].here
  BY <1>1 DEF Inv, Typed, CallType
<1> QED
  BY <1>1, <1>2 DEF Left

\* After an attempt: a launch has one less, an injection none more.
LEMMA WaitCredit ==
  ASSUME Inv, NEW k \in Calls, At(k, "waiting"), Again(k) \/ \E ok \in BOOLEAN : Done(k, ok)
  PROVE  \E c : /\ Become(k, c) /\ Left(c) \subseteq Left(call[k])
                /\ call[k].stage = "launch" => call[k].try \notin Left(c)
<1>1. call[k] \in CallType /\ call[k].pc \in Launchers
  BY DEF Inv, Typed, At, Launchers
<1>2. ASSUME NEW ok \in BOOLEAN, Done(k, ok)
      PROVE  \E c : /\ Become(k, c) /\ Left(c) \subseteq Left(call[k])
                    /\ call[k].stage = "launch" => call[k].try \notin Left(c)
  <2>1. CASE LaunchNext(k) /\ call[k].stage # "launch"
    BY <1>1, <2>1, LaunchNextCredit
  <2>2. CASE call[k].stage = "launch"
    <3>1. PICK c : Become(k, c) /\ c = [call[k] EXCEPT !.pc = "detach", !.try = 1, !.ok = ok]
      BY <1>2, <2>2 DEF Done
    <3>2. c.pc = "detach"
      BY <1>1, <3>1 DEF CallType
    <3>3. Left(c) = {}
      BY <3>2 DEF Left, Launchers
    <3> QED
      BY <3>1, <3>3
  <2>3. CASE call[k].stage = "chmod" /\ ok
    <3>1. PICK c : Become(k, c) /\ c = [call[k] EXCEPT !.pc = "keys", !.stage = "keygen", !.try = 1]
      BY <1>2, <2>3 DEF Done
    <3>2. c.here = call[k].here
      BY <1>1, <3>1 DEF CallType
    <3> QED
      BY <1>1, <2>3, <3>1, <3>2 DEF Left
  <2> QED
    BY <1>2, <2>1, <2>2, <2>3 DEF Done
<1>3. CASE Again(k) /\ ~Done(k, FALSE)
  <2>1. PICK c : Become(k, c) /\ c = [call[k] EXCEPT !.pc = "attempt", !.try = @ + 1]
    BY <1>3 DEF Again
  <2>2. c.here = call[k].here /\ c.stage = call[k].stage /\ c.try = call[k].try + 1 /\ call[k].try \in 1..Attempts
    BY <1>1, <2>1 DEF CallType
  <2>3. Left(c) \subseteq Left(call[k]) /\ (call[k].stage = "launch" => call[k].try \notin Left(c))
    BY <1>1, <2>2, AdapterAssumption DEF Left, At
  <2> QED
    BY <2>1, <2>3
<1> QED
  BY <1>2, <1>3

LEMMA CreditStep ==
  ASSUME Inv, Inv', RouteInv, CreditInv, NEW k \in Calls,
         Call(k) \/ Return(k) \/ Step(k) \/ FromGuest(k) \/ TimesOut(k) \/ Deadline(k)
  PROVE  CreditInv'
<1> USE DEF At, Launchers, Resolve
<1>0. call[k] \in CallType /\ RouteOK(call[k]) /\ VmOK(vm) /\ VmOK(vm') /\ vm \in VmType
  BY DEF Inv, Typed, RouteInv, VmOK
<1>1. CASE Create(k)
  <2>1. CASE vm' \in {vm, NoVm} /\ Reject(k)
    BY <2>1, SettledCredit DEF NoVm
  <2> QED
    BY <1>1, <2>1, BootCredit DEF Create
<1>2. CASE Get(k)
  BY <1>2, SettledCredit DEF Get, Pcs, Launchers
<1>3. CASE Boot(k)
  <2>1. CASE /\ vm.st = "running" /\ vm' = [vm EXCEPT !.launches = Counted(call[k], @)]
             /\ Attach(k, Entered(call[k], "launch"))
    <3> DEFINE e == [Entered(call[k], "launch") EXCEPT !.here = TRUE]
    <3>1. Become(k, e)
      BY <2>1 DEF Attach
    <3>2. /\ vm'.copies = vm.copies /\ vm'.pending = vm.pending /\ vm'.st = vm.st
          /\ vm'.launches = Counted(call[k], vm.launches)
      BY <1>0, <2>1 DEF VmType
    <3>3. CASE call[k].op # "exec" /\ call[k].cmd
      <4> HIDE DEF e
      <4>1. Credits' \subseteq Credits \cup Lot(k)
        BY <3>1, <3>2, CreditsMove
      <4> QED
        BY <1>0, <3>2, <3>3, <4>1, CountAdded DEF Counted
    <3>4. CASE ~(call[k].op # "exec" /\ call[k].cmd)
      <4>1. e.pc \in {"guest", "detach"}
        BY <1>0, <3>4 DEF Entered, CallType
      <4> HIDE DEF e
      <4>2. Left(e) = {}
        BY <4>1 DEF Left
      <4>3. Credits' \subseteq Credits
        BY <3>1, <3>2, <4>2, CreditsMove
      <4> QED
        BY <1>0, <3>2, <3>4, <4>3, CountSame DEF Counted
    <3> QED
      BY <3>3, <3>4
  <2>2. CASE Reject(k) /\ UNCHANGED vm
    BY <2>2, SettledCredit
  <2> QED
    BY <1>3, <2>1, <2>2, BootCredit DEF Boot
<1>4. CASE Connect(k)
  <2>1. CASE Attach(k, Entered(call[k], "launch"))
    <3>1. PICK c : Become(k, c) /\ c = [Entered(call[k], "launch") EXCEPT !.here = TRUE]
      BY <2>1 DEF Attach
    <3>2. c.pc = "guest"
      BY <1>0, <1>4, <3>1 DEF Connect, RouteOK, Entered, CallType
    <3> QED
      BY <1>4, <3>1, <3>2, QuietCredit DEF Connect
  <2> QED
    BY <1>4, <2>1, SettledCredit DEF Connect
<1>5. CASE Guest(k)
  <2>1. PICK c : \E ok \in BOOLEAN : Become(k, c) /\ c = [call[k] EXCEPT !.pc = "detach", !.ok = ok]
    BY <1>5 DEF Guest
  <2>2. c.pc = "detach"
    BY <1>0, <2>1 DEF CallType
  <2> QED
    BY <1>5, <2>1, <2>2, QuietCredit DEF Guest
<1>6. CASE Detach(k) \/ DetachBestEffort(k)
  BY <1>6, SettledCredit DEF Detach, DetachBestEffort
<1>7. CASE Attempt(k)
  <2>1. PICK c : Become(k, c) /\ c = [call[k] EXCEPT !.pc = "waiting"]
    BY <1>7 DEF Attempt, Goto
  <2>2. c.here = call[k].here /\ c.stage = call[k].stage /\ c.try = call[k].try
    BY <1>0, <2>1 DEF CallType
  <2>3. Left(c) \subseteq Left(call[k])
    BY <1>7, <2>2 DEF Attempt, Left
  <2>4. Credits' \subseteq Credits
    BY <1>7, <2>1, <2>3, CreditsMove DEF Attempt
  <2> QED
    BY <1>0, <1>7, <2>4, CountSame DEF Attempt
<1>8. CASE Answered(k) \/ EndsSilently(k) \/ TimesOut(k) \/ Fails(k)
  <2>1. PICK c : /\ Become(k, c) /\ Left(c) \subseteq Left(call[k])
                 /\ call[k].stage = "launch" => call[k].try \notin Left(c)
    BY <1>8, WaitCredit DEF Answered, EndsSilently, TimesOut, Fails
  <2>2. CASE vm' = vm
    <3>1. Credits' \subseteq Credits
      BY <2>1, <2>2, CreditsMove
    <3> QED
      BY <1>0, <2>2, <3>1, CountSame
  <2>3. CASE vm' # vm
    <3>1. /\ call[k].here /\ vm.st = "running" /\ call[k].stage = "launch" /\ call[k].pc = "waiting"
          /\ vm' \in {[vm EXCEPT !.ran = TRUE], [vm EXCEPT !.ran = TRUE, !.copies = @ + 1],
                       [vm EXCEPT !.pending = @ + 1]}
      BY <1>8, <2>3 DEF Answered, EndsSilently, TimesOut, Fails, Alive, Runs
    <3>2. /\ vm'.st = vm.st /\ vm'.launches = vm.launches
          /\ vm'.copies + vm'.pending <= vm.copies + vm.pending + 1
      <4>1. vm.copies \in Nat /\ vm.pending \in Nat
        BY <1>0 DEF VmType
      <4>2. CASE vm' = [vm EXCEPT !.ran = TRUE]
        BY <1>0, <4>1, <4>2 DEF VmType
      <4>3. CASE vm' = [vm EXCEPT !.ran = TRUE, !.copies = @ + 1]
        BY <1>0, <4>1, <4>3 DEF VmType
      <4>4. CASE vm' = [vm EXCEPT !.pending = @ + 1]
        BY <1>0, <4>1, <4>4 DEF VmType
      <4> QED
        BY <3>1, <4>2, <4>3, <4>4
    <3>3. <<k, call[k].try>> \in Credits
      BY <1>0, <3>1, AdapterAssumption DEF Credits, Left, CallType
    <3>4. Credits' \subseteq Credits \ {<<k, call[k].try>>}
      BY <2>1, <3>1, <3>2, CreditsMove
    <3> QED
      BY <1>0, <3>2, <3>3, <3>4, CountUsed
  <2> QED
    BY <2>2, <2>3
<1>9. ASSUME Waited(k), vm' = vm \/ vm'.st # "running" PROVE CreditInv'
  <2>1. CASE call[k].op = "remove"
    <3>1. PICK c : Become(k, c) /\ c = [call[k] EXCEPT !.pc = "remove", !.late = FALSE]
      BY <1>9, <2>1 DEF Waited
    <3>2. c.pc = "remove"
      BY <1>0, <3>1 DEF CallType
    <3> QED
      BY <1>9, <3>1, <3>2, QuietCredit
  <2> QED
    BY <1>9, <2>1, SettledCredit DEF Waited
<1>10. ASSUME NEW st \in {"draining", "stopped"}, Halt(st) PROVE vm'.st # "running"
  BY <1>10 DEF Halt, NoVm
<1>11. CASE Stop(k)
  BY <1>10, <1>11, SettledCredit DEF Stop, Pcs
<1>12. CASE Deadline(k)
  <2>1. PICK c : Become(k, c) /\ c = [call[k] EXCEPT !.late = TRUE]
    BY <1>12 DEF Deadline
  <2>2. c.pc = call[k].pc
    BY <1>0, <2>1 DEF CallType
  <2> QED
    BY <1>12, <2>1, <2>2, QuietCredit DEF Deadline
<1>13. CASE Poll(k) \/ Pause(k) \/ PollFails(k)
  BY <1>9, <1>13, SettledCredit DEF Poll, Pause, PollFails, Pcs
<1>14. CASE Kill(k)
  BY <1>9, <1>10, <1>14 DEF Kill
<1>15. CASE Remove(k) \/ ForceRemove(k)
  BY <1>15, SettledCredit DEF Remove, ForceRemove, NoVm, Pcs
<1>16. CASE GetImage(k) \/ Pull(k) \/ Login(k) \/ AuthPull(k) \/ Logout(k) \/ Check(k)
  <2>1. CASE Become(k, [call[k] EXCEPT !.pc = "logout", !.ok = FALSE]) /\ UNCHANGED vm
    <3>1. PICK c : Become(k, c) /\ c = [call[k] EXCEPT !.pc = "logout", !.ok = FALSE]
      BY <2>1
    <3>2. c.pc = "logout"
      BY <1>0, <3>1 DEF CallType
    <3> QED
      BY <2>1, <3>1, <3>2, QuietCredit
  <2> QED
    BY <1>16, <2>1, SettledCredit DEF GetImage, Pull, Login, AuthPull, Logout, Check, Pcs
<1>17. CASE Call(k)
  <2>1. PICK op \in Ops, cmd \in BOOLEAN, pc \in {"create", "image", "get"} :
          Become(k, [Idle EXCEPT !.op = op, !.cmd = cmd, !.pc = pc])
    BY <1>17 DEF Call
  <2> DEFINE c == [Idle EXCEPT !.op = op, !.cmd = cmd, !.pc = pc]
  <2>2. Become(k, c) /\ c.pc = pc
    BY <2>1 DEF Idle
  <2> HIDE DEF c
  <2> QED
    BY <1>17, <2>2, QuietCredit DEF Call
<1>18. CASE Return(k)
  BY <1>18, QuietCredit DEF Return, Idle
<1>19. CASE Written(k)
  <2>1. call[k].stage # "launch"
    BY <1>0, <1>19 DEF Written, RouteOK
  <2>2. \E c : Become(k, c) /\ Left(c) \subseteq Left(call[k])
    <3>1. CASE Goto(k, "attempt")
      <4>1. PICK c : Become(k, c) /\ c = [call[k] EXCEPT !.pc = "attempt"]
        BY <3>1 DEF Goto
      <4>2. c.here = call[k].here /\ c.stage = call[k].stage
        BY <1>0, <4>1 DEF CallType
      <4>3. Left(c) \subseteq Left(call[k])
        BY <1>19, <2>1, <4>2 DEF Written, Left
      <4> QED
        BY <4>1, <4>3
    <3> QED
      BY <1>19, <2>1, <3>1, LaunchNextCredit DEF Written
  <2>3. Credits' \subseteq Credits
    BY <1>19, <2>2, CreditsMove DEF Written
  <2> QED
    BY <1>0, <1>19, <2>3, CountSame DEF Written
<1> QED
  BY <1>1, <1>2, <1>3, <1>4, <1>5, <1>6, <1>7, <1>8, <1>11, <1>12, <1>13, <1>14, <1>15, <1>16, <1>17, <1>18, <1>19
     DEF Step, FromGuest

LEMMA CreditNext == Inv /\ Inv' /\ RouteInv /\ CreditInv /\ [Next]_vars => CreditInv'
<1> SUFFICES ASSUME Inv, Inv', RouteInv, CreditInv, [Next]_vars PROVE CreditInv'
  OBVIOUS
<1>0. VmOK(vm) /\ VmOK(vm') /\ vm \in VmType
  BY DEF Inv, Typed, VmOK
<1>1. CASE RunsLate
  <2>1. PICK n \in {0, 1} : vm' = [vm EXCEPT !.ran = TRUE, !.copies = @ + n, !.pending = @ - 1]
    BY <1>1 DEF RunsLate
  <2>2. /\ vm'.copies = vm.copies + n /\ vm'.pending = vm.pending - 1 /\ vm'.launches = vm.launches
        /\ vm'.st = vm.st /\ vm'.copies + vm'.pending <= vm.copies + vm.pending
    BY <1>0, <2>1 DEF VmType
  <2>3. Credits' \subseteq Credits
    BY <1>1, <2>2 DEF RunsLate, Credits
  <2> QED
    BY <1>0, <2>2, <2>3, CountNoMore
<1>2. CASE VmStops
  BY <1>0, <1>2, CountStopped DEF VmStops, Halt, NoVm
<1>3. CASE UNCHANGED <<vm, call>>
  <2>1. Credits' = Credits
    BY <1>3 DEF Credits
  <2> QED
    BY <1>0, <1>3, <2>1, CountSame
<1> QED
  BY <1>1, <1>2, <1>3, CreditStep DEF Next, Evict, vars

\* A launch leaves at most as many copies of the command as it makes attempts: what runs,
\* what may yet run late and what the calls in flight may still try come out of the
\* attempts of the launches counted since the boot.
THEOREM CopiesWithinAttempts == Spec => []CopiesBounded
<1>1. Init => CreditInv
  <2> SUFFICES ASSUME Init PROVE CreditInv
    OBVIOUS
  <2>1. Credits = {} /\ vm.copies = 0 /\ vm.pending = 0 /\ vm.launches = 0
    BY DEF Init, NoVm, Credits
  <2> QED
    BY <2>1, FS_EmptySet, AdapterAssumption DEF CreditInv
<1>2. Inv /\ CreditInv => CopiesBounded
  <2> SUFFICES ASSUME Inv, CreditInv PROVE CopiesBounded
    OBVIOUS
  <2>1. Cardinality(Credits) \in Nat
    BY FS_CardinalityType DEF CreditInv
  <2>2. vm.copies \in Nat /\ vm.pending \in Nat /\ Attempts * vm.launches \in Nat
    BY AdapterAssumption DEF Inv, Typed, VmOK, VmType
  <2> QED
    BY <2>1, <2>2 DEF CreditInv, CopiesBounded
<1> QED
  BY <1>1, <1>2, CreditNext, Routing, PTL DEF Spec
===============================================================================
