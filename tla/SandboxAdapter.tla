---------------------------- MODULE SandboxAdapter ----------------------------
(***************************************************************************)
(* MicrosandboxAdapterService: its calls for one sandbox, and its pulls    *)
(* from one registry, running side by side.  A call is a process; an       *)
(* action is the code up to the next awaited call on microsandbox, or on   *)
(* the msb command line, and what that call does (external).               *)
(*                                                                         *)
(* RuntimeControl takes each call as one step.  Here are the parts: the    *)
(* commands in the guest that are given up on and launched again, the wait *)
(* for a VM to stop, and the registry login that pulls share.              *)
(***************************************************************************)
EXTENDS Naturals

CONSTANTS
  Calls,        \* calls that may be in flight
  Ops,          \* what they call
  Attempts,     \* of execWithTransientRetry: 3
  MaxLaunches   \* bound: launches of the command in one boot of the VM

ASSUME AdapterAssumption ==
  /\ Ops \subseteq {"create", "start", "stop", "remove", "exec", "pull"}
  /\ Attempts \in Nat \ {0} /\ MaxLaunches \in Nat

VARIABLES
  vm,     \* the VM; whether its launch script has run, the copies of the command it has
          \* started, the scripts that may yet run
  host,   \* the image cache, the registry credentials, whether a logout has failed
  call    \* the calls in flight

vars == <<vm, host, call>>

\* `blind': a Sandbox.get of the call has failed, and it has taken the VM for gone.
Idle == [op |-> "exec", pc |-> "idle", cmd |-> FALSE, stage |-> "launch", try |-> 1,
         ok |-> TRUE, late |-> FALSE, here |-> FALSE, blind |-> FALSE]

Pcs == {"idle", "create", "get", "boot", "connect", "binary", "keys", "attempt", "waiting", "guest", "detach",
        "halt", "poll", "kill", "pause", "remove", "cli",
        "image", "pull", "login", "authPull", "logout", "check", "resolved", "rejected"}

Stages == {"chmod", "keygen", "launch"}

NoVm == [st |-> "absent", ran |-> FALSE, copies |-> 0, pending |-> 0, launches |-> 0]

Init == /\ vm = NoVm
        /\ host = [image |-> FALSE, creds |-> FALSE, leaked |-> FALSE]
        /\ call = [k \in Calls |-> Idle]

At(k, pc)     == call[k].pc = pc
Become(k, c)  == call' = [call EXCEPT ![k] = c]
Goto(k, pc)   == Become(k, [call[k] EXCEPT !.pc = pc])
\* The promise of the call is settled.
Reject(k)     == Become(k, [Idle EXCEPT !.pc = "rejected"])
Resolved(c)   == [Idle EXCEPT !.pc = "resolved", !.op = c.op, !.cmd = c.cmd, !.here = c.here,
                    !.blind = c.blind]
Resolve(k)    == Become(k, Resolved(call[k]))

\* A call that has booted the VM, or reached the one that runs, holds a sandbox object of
\* it; those of earlier boots are dead.
Attach(k, c) == Become(k, [c EXCEPT !.here = TRUE])
Boots(k, c)  == call' = [j \in Calls |-> IF j = k THEN [c EXCEPT !.here = TRUE]
                                         ELSE [call[j] EXCEPT !.here = FALSE]]

--------------------------------------------------------------------------------
(* create, start and exec, which end with detach. *)

\* Where a call goes once it has its sandbox object: launchManagedCommand has nothing to
\* do without a command and SSH.  `stage' is "chmod" when the daemon is injected first.
Entered(c, stage) ==
  IF c.op = "exec" THEN [c EXCEPT !.pc = "guest"]
  ELSE IF c.cmd THEN [c EXCEPT !.pc = IF stage = "chmod" THEN "binary" ELSE "attempt", !.stage = stage]
  ELSE [c EXCEPT !.pc = "detach"]
Counted(c, n) == IF c.op # "exec" /\ c.cmd THEN n + 1 ELSE n

\* builder.replace().create(), for a sandbox with SSH and a daemon to inject or without.
Create(k) ==
  /\ At(k, "create")
  /\ \/ /\ vm' = [NoVm EXCEPT !.st = "running", !.launches = Counted(call[k], 0)]
        /\ \E stage \in {"chmod", "launch"} : Boots(k, Entered(call[k], stage))
     \/ vm' \in {vm, NoVm} /\ Reject(k)
  /\ UNCHANGED host

\* Sandbox.get, and what its handle says of the VM.  It fails without a VM, and may fail
\* with one; remove takes a failure for a VM that is gone.
Get(k) ==
  /\ At(k, "get")
  /\ \/ /\ vm.st # "absent"
        /\ Goto(k, IF call[k].op \in {"stop", "remove"} THEN "halt"
                   ELSE IF call[k].op = "exec" /\ vm.st = "running" THEN "connect" ELSE "boot")
     \/ IF call[k].op = "remove"
        THEN Become(k, Resolved([call[k] EXCEPT !.blind = vm.st # "absent"]))
        ELSE Reject(k)
  /\ UNCHANGED <<vm, host>>

\* handle.startDetached: it may find the VM running.
Boot(k) ==
  /\ At(k, "boot")
  /\ \/ /\ vm.st = "running"
        /\ Counted(call[k], vm.launches) <= MaxLaunches
        /\ vm' = [vm EXCEPT !.launches = Counted(call[k], @)]
        /\ Attach(k, Entered(call[k], "launch"))
     \/ /\ vm.st \in {"draining", "stopped"}
        /\ vm' = [NoVm EXCEPT !.st = "running", !.launches = Counted(call[k], 0)]
        /\ Boots(k, Entered(call[k], "launch"))
     \/ Reject(k) /\ UNCHANGED vm
  /\ UNCHANGED host

\* handle.connect: the VM may have stopped since.
Connect(k) ==
  /\ At(k, "connect")
  /\ \/ vm.st = "running" /\ Attach(k, Entered(call[k], "launch"))
     \/ Reject(k)
  /\ UNCHANGED <<vm, host>>

\* exec's own command, which has no timeout.
Guest(k) ==
  /\ At(k, "guest")
  /\ \E ok \in BOOLEAN : Become(k, [call[k] EXCEPT !.pc = "detach", !.ok = ok])
  /\ UNCHANGED <<vm, host>>

\* After the work, or its failure.  create awaits detach for two seconds and ignores that
\* it throws;
DetachBestEffort(k) ==
  /\ At(k, "detach") /\ call[k].op = "create"
  /\ IF call[k].ok THEN Resolve(k) ELSE Reject(k)
  /\ UNCHANGED <<vm, host>>

\* start and exec await it for as long as it takes, and throw when it throws.
Detach(k) ==
  /\ At(k, "detach") /\ call[k].op # "create"
  /\ (call[k].ok /\ Resolve(k)) \/ Reject(k)
  /\ UNCHANGED <<vm, host>>

--------------------------------------------------------------------------------
(* injectSshBinary, and execWithTransientRetry for its chmod, its ssh-keygen and the      *)
(* launch script.                                                                         *)

\* The launch follows, after the injection or after its failure, which is a warning.
LaunchNext(k) == Become(k, [call[k] EXCEPT !.pc = "attempt", !.stage = "launch", !.try = 1])

\* fs.write of the daemon, and fs.mkdir and fs.write of its keys; none has a timeout.
Written(k) ==
  /\ call[k].pc \in {"binary", "keys"}
  /\ Goto(k, "attempt") \/ LaunchNext(k)
  /\ UNCHANGED <<vm, host>>

Attempt(k) == At(k, "attempt") /\ Goto(k, "waiting") /\ UNCHANGED <<vm, host>>

\* The exec runs: chmod and ssh-keygen, or the script, which starts the command unless its
\* cd fails or what it starts is not there.  Nobody looks at the exit code.
Runs(k) == IF call[k].stage # "launch" THEN {vm}
           ELSE {[vm EXCEPT !.ran = TRUE], [vm EXCEPT !.ran = TRUE, !.copies = @ + 1]}
Alive(k) == call[k].here /\ vm.st = "running"

\* What follows an exec that has been answered, or has failed for good; ssh-keygen may fail.
Done(k, ok) ==
  CASE call[k].stage = "launch" -> Become(k, [call[k] EXCEPT !.pc = "detach", !.try = 1, !.ok = ok])
    [] call[k].stage = "chmod" /\ ok -> Become(k, [call[k] EXCEPT !.pc = "keys", !.stage = "keygen", !.try = 1])
    [] OTHER -> LaunchNext(k)

Answered(k) ==
  /\ At(k, "waiting") /\ Alive(k)
  /\ vm' \in Runs(k)
  /\ Done(k, TRUE)
  /\ UNCHANGED host

\* Mutant of Again: the last attempt is not the last.
Again_Unbounded(k) == Become(k, [call[k] EXCEPT !.pc = "attempt", !.try = @ + 1])

\* Mutant of Again: after the last attempt the error is forgotten.
Again_Forgiving(k) ==
  IF call[k].try < Attempts THEN Become(k, [call[k] EXCEPT !.pc = "attempt", !.try = @ + 1])
  ELSE Done(k, TRUE)

Again(k) ==
  IF call[k].try < Attempts THEN Become(k, [call[k] EXCEPT !.pc = "attempt", !.try = @ + 1])
  ELSE Done(k, FALSE)

\* A retryable error: the session ended without an exit event, and the exec has run or has
\* not;
EndsSilently(k) ==
  /\ At(k, "waiting") /\ Alive(k)
  /\ vm' \in {vm} \cup Runs(k)
  /\ Again(k)
  /\ UNCHANGED host

\* Mutant of TimesOut: the answer is awaited without the race.
TimesOut_Never(k) == FALSE /\ UNCHANGED vars

\* or five seconds have passed, and it may also run later.
TimesOut(k) ==
  /\ At(k, "waiting")
  /\ vm' \in {vm} \cup (IF Alive(k) THEN Runs(k) ELSE {})
             \cup (IF Alive(k) /\ call[k].stage = "launch" THEN {[vm EXCEPT !.pending = @ + 1]} ELSE {})
  /\ Again(k)
  /\ UNCHANGED host

\* Any other error, whether it has run or not.
Fails(k) ==
  /\ At(k, "waiting")
  /\ vm' \in {vm} \cup (IF Alive(k) THEN Runs(k) ELSE {})
  /\ Done(k, FALSE)
  /\ UNCHANGED host

--------------------------------------------------------------------------------
(* stop and remove. *)

Halt(st) == vm' = [NoVm EXCEPT !.st = st]

\* handle.stop; remove ignores that it throws.
Stop(k) ==
  /\ At(k, "halt")
  /\ \/ vm.st \in {"running", "draining"} /\ (Halt("draining") \/ Halt("stopped")) /\ Goto(k, "poll")
     \/ UNCHANGED vm /\ (vm.st = "stopped" \/ call[k].op = "remove") /\ Goto(k, "poll")
     \/ UNCHANGED vm /\ call[k].op = "stop" /\ Reject(k)
  /\ UNCHANGED host

\* The deadline of waitForSandboxStop passes.
Deadline(k) ==
  /\ call[k].pc \in {"poll", "pause"} /\ ~call[k].late
  /\ Become(k, [call[k] EXCEPT !.late = TRUE])
  /\ UNCHANGED <<vm, host>>

\* The wait is over.
Waited(k) == IF call[k].op = "remove" THEN Become(k, [call[k] EXCEPT !.pc = "remove", !.late = FALSE])
             ELSE Resolve(k)

Quiet == vm.st \in {"absent", "stopped"}

\* One turn of its loop: the status is read, and the VM killed when that read has
\* outlasted the deadline.
Poll(k) ==
  /\ At(k, "poll")
  /\ IF Quiet THEN Waited(k) ELSE Goto(k, IF call[k].late THEN "kill" ELSE "pause")
  /\ UNCHANGED <<vm, host>>

\* getStatus takes a failure of Sandbox.get for a missing VM, and the wait is over too.
PollFails(k) ==
  /\ At(k, "poll") /\ vm.st # "absent"
  /\ IF call[k].op = "remove" THEN Waited(k)
     ELSE Become(k, Resolved([call[k] EXCEPT !.blind = TRUE]))
  /\ UNCHANGED <<vm, host>>

\* The handle may be missing, or kill may fail.
Kill(k) ==
  /\ At(k, "kill")
  /\ UNCHANGED vm \/ (vm.st # "absent" /\ Halt("stopped"))
  /\ Waited(k)
  /\ UNCHANGED host

\* When the deadline passes during the delay instead, the VM is not killed.
Pause(k) ==
  /\ At(k, "pause")
  /\ IF call[k].late THEN Waited(k) ELSE Goto(k, "poll")
  /\ UNCHANGED <<vm, host>>

\* handle.remove, which a VM that has not stopped may refuse,
Remove(k) ==
  /\ At(k, "remove")
  /\ \/ vm' = NoVm /\ Resolve(k)
     \/ UNCHANGED vm /\ Goto(k, "cli")
  /\ UNCHANGED host

\* Mutant of ForceRemove: its failure is ignored.
ForceRemove_Ignored(k) ==
  /\ At(k, "cli")
  /\ vm' \in {vm, NoVm} /\ Resolve(k)
  /\ UNCHANGED host

\* and then `msb remove --force'.
ForceRemove(k) ==
  /\ At(k, "cli")
  /\ \/ vm' = NoVm /\ Resolve(k)
     \/ UNCHANGED vm /\ Reject(k)
  /\ UNCHANGED host

--------------------------------------------------------------------------------
(* pullImage, with credentials when `cmd' is TRUE. *)

GetImage(k) ==
  /\ At(k, "image")
  /\ IF host.image THEN Resolve(k) ELSE Goto(k, "pull")
  /\ UNCHANGED <<vm, host>>

Pull(k) ==
  /\ At(k, "pull")
  /\ \/ host' = [host EXCEPT !.image = TRUE] /\ Goto(k, "check")
     \/ UNCHANGED host /\ IF call[k].cmd THEN Goto(k, "login") ELSE Reject(k)
  /\ UNCHANGED vm

Login(k) ==
  /\ At(k, "login")
  /\ \/ host' = [host EXCEPT !.creds = TRUE] /\ Goto(k, "authPull")
     \/ UNCHANGED host /\ Reject(k)
  /\ UNCHANGED vm

\* Mutant of AuthPull: no finally.
AuthPull_NoFinally(k) ==
  /\ At(k, "authPull")
  /\ \/ host.creds /\ host' = [host EXCEPT !.image = TRUE] /\ Goto(k, "logout")
     \/ UNCHANGED host /\ Reject(k)
  /\ UNCHANGED vm

\* The login may be gone: another pull has logged out since.
AuthPull(k) ==
  /\ At(k, "authPull")
  /\ \/ host.creds /\ host' = [host EXCEPT !.image = TRUE] /\ Goto(k, "logout")
     \/ UNCHANGED host /\ Become(k, [call[k] EXCEPT !.pc = "logout", !.ok = FALSE])
  /\ UNCHANGED vm

\* Best effort, after either outcome.
Logout(k) ==
  /\ At(k, "logout")
  /\ host' \in {[host EXCEPT !.creds = FALSE, !.leaked = FALSE], [host EXCEPT !.leaked = host.creds]}
  /\ IF call[k].ok THEN Goto(k, "check") ELSE Reject(k)
  /\ UNCHANGED vm

Check(k) ==
  /\ At(k, "check")
  /\ IF host.image THEN Resolve(k) ELSE Reject(k)
  /\ UNCHANGED <<vm, host>>

--------------------------------------------------------------------------------

Call(k) ==
  /\ At(k, "idle")
  /\ \E op \in Ops, cmd \in BOOLEAN :
       /\ cmd => op \in {"create", "start", "pull"}
       /\ Become(k, [Idle EXCEPT !.op = op, !.cmd = cmd,
                       !.pc = CASE op = "create" -> "create" [] op = "pull" -> "image" [] OTHER -> "get"])
  /\ UNCHANGED <<vm, host>>

\* The caller takes the result.
Return(k) == call[k].pc \in {"resolved", "rejected"} /\ Become(k, Idle) /\ UNCHANGED <<vm, host>>

\* A script that was given up on runs after all.
RunsLate ==
  /\ vm.st = "running" /\ vm.pending > 0
  /\ \E n \in {0, 1} : vm' = [vm EXCEPT !.ran = TRUE, !.copies = @ + n, !.pending = @ - 1]
  /\ UNCHANGED <<host, call>>

VmStops == vm.st \in {"running", "draining"} /\ Halt("stopped") /\ UNCHANGED <<host, call>>

\* The image is removed from the cache, by hand.
Evict == host.image /\ host' = [host EXCEPT !.image = FALSE] /\ UNCHANGED <<vm, call>>

\* What ends without the guest, or has a timeout.
Step(k) == \/ Create(k) \/ Get(k) \/ Boot(k) \/ Connect(k) \/ DetachBestEffort(k) \/ Attempt(k)
           \/ Poll(k) \/ PollFails(k) \/ Kill(k) \/ Pause(k) \/ Stop(k) \/ Remove(k) \/ ForceRemove(k)
           \/ GetImage(k) \/ Pull(k) \/ Login(k) \/ AuthPull(k) \/ Logout(k) \/ Check(k)
\* What the guest does, or does not do.
FromGuest(k) == Guest(k) \/ Written(k) \/ Detach(k) \/ Answered(k) \/ EndsSilently(k) \/ Fails(k)

Next == \/ \E k \in Calls : Call(k) \/ Return(k) \/ Step(k) \/ FromGuest(k) \/ TimesOut(k) \/ Deadline(k)
        \/ RunsLate \/ VmStops \/ Evict

Spec == Init /\ [][Next]_vars

\* Microsandbox and msb answer and time passes; the guest need not answer.
FairSpec == Spec /\ \A k \in Calls : WF_vars(Step(k)) /\ WF_vars(TimesOut(k)) /\ WF_vars(Deadline(k))
--------------------------------------------------------------------------------
(* Properties. *)

\* Every variable has its type; no credentials, no failed logout.
TypeOK ==
  /\ vm \in [st : {"absent", "running", "draining", "stopped"}, ran : BOOLEAN, copies : Nat, pending : Nat,
            launches : Nat]
  /\ host \in [image : BOOLEAN, creds : BOOLEAN, leaked : BOOLEAN]
  /\ call \in [Calls -> [op : Ops \cup {"exec"}, pc : Pcs, cmd : BOOLEAN, stage : Stages, try : 1..Attempts,
                         ok : BOOLEAN, late : BOOLEAN, here : BOOLEAN, blind : BOOLEAN]]
  /\ vm.st # "running" => vm = [NoVm EXCEPT !.st = vm.st] /\ \A k \in Calls : ~Alive(k)
  /\ host.leaked => host.creds

\* A launch leaves at most as many copies of the command as it makes attempts, those
\* that were given up on and run late among them; a boot starts with none.
CopiesBounded == vm.copies + vm.pending <= Attempts * vm.launches

\* A create or start that resolves has had its launch script run in the VM as it is now,
\* unless that has stopped since; not that the script has started anything, which nobody
\* looks at.
ResolvedMeansLaunched ==
  \A k \in Calls : At(k, "resolved") /\ call[k].cmd /\ call[k].op # "pull" /\ Alive(k) => vm.ran

\* stop resolves when the VM has stopped, or after its deadline; remove only without a VM,
\* though the wait may end too early and handle.remove may throw.  What no call can do
\* better is excluded: a stop that could not read the status, and a remove whose first
\* Sandbox.get failed, have taken an existing VM for gone.
StopSettles ==
  [][\A k \in Calls : ~At(k, "resolved") /\ call'[k].pc = "resolved" =>
       /\ call[k].op = "stop" => call[k].late \/ vm'.st \in {"absent", "stopped"} \/ call'[k].blind
       /\ call[k].op = "remove" => vm'.st = "absent" \/ call'[k].blind]_vars

\* Registry credentials are on the host only while a pull uses them, or after a logout
\* that failed (pulls of one registry share them).
NoCredentialsLeft ==
  host.creds => host.leaked \/ \E k \in Calls : call[k].pc \in {"authPull", "logout"}

Settled(k) == call[k].pc \in {"idle", "resolved", "rejected"}

\* The awaits without a timeout that the guest may never answer: the command of exec, the
\* files of the injection, and the detach of start and exec.
Unbounded(k) == call[k].pc \in {"guest", "binary", "keys"} \/ (At(k, "detach") /\ call[k].op # "create")

\* A call is settled or has reached one of these, over and over: nothing else can hang it,
\* though the guest may never answer an exec and the VM may never stop draining.
EveryCallSettles == \A k \in Calls : []<>(Settled(k) \/ Unbounded(k))
===============================================================================
