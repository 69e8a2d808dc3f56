------------------------------ MODULE SshChannel ------------------------------
(***************************************************************************)
(* One SSH channel through the gateway: the client, the four goroutines of *)
(* bridgeChannel (ssh-gateway), and the session handler of the daemon in   *)
(* the guest (inject-sshd) with the command it runs.                       *)
(*                                                                         *)
(* Data is counted in chunks.  A chunk of input goes from the client       *)
(* (typed) through the third goroutine (read, written) to the daemon       *)
(* (taken); a chunk of output from the command (made) through the daemon   *)
(* (sent) and the fourth goroutine (read, written) to the client.  The     *)
(* messages of a channel stay in order, so a channel is the counters at    *)
(* its two ends and whether its end has been announced behind them.        *)
(***************************************************************************)
EXTENDS Naturals

CONSTANTS
  MaxIn,    \* chunks the client sends
  MaxOut,   \* chunks the command writes to stdout
  MaxErr,   \* and to stderr
  Window,   \* chunks a sender may have outstanding on the sandbox's channel
  Modes     \* what the client asks for

ASSUME ChannelAssumption == /\ {MaxIn, MaxOut, MaxErr} \subseteq Nat /\ Window \in Nat \ {0}
                            /\ Modes \subseteq {"exec", "pty", "sftp"}

VARIABLES
  in,       \* the input, by place
  out,      \* the output, by place
  err,      \* stderr: made and sent; the gateway never reads it
  client,   \* the client's end: its request, its EOF, its CLOSE
  server,   \* the daemon's end: its command, its reading of input, its CLOSE
  exit,     \* the exit-status request
  go,       \* the goroutines that have not returned
  ends,     \* what the gateway has announced: EOF both ways, CLOSE both ways
  up,       \* the TCP connections: to the client, to the sandbox
  cut       \* history: what took a connection down first

vars == <<in, out, err, client, server, exit, go, ends, up, cut>>

Init ==
  /\ in = [typed |-> 0, read |-> 0, written |-> 0, taken |-> 0]
  /\ out = [made |-> 0, sent |-> 0, read |-> 0, written |-> 0]
  /\ err = [made |-> 0, sent |-> 0]
  /\ \E m \in Modes : client = [mode |-> m, asked |-> FALSE, eof |-> FALSE, closed |-> FALSE]
  /\ server = [cmd |-> "none", reading |-> TRUE, closed |-> FALSE]
  /\ exit = "none"
  /\ go = {"clientReqs", "sandboxReqs", "input", "output"}
  /\ ends = {}
  /\ up = {"client", "sandbox"}
  /\ cut = "none"

Bump(v, f) == [v EXCEPT ![f] = @ + 1]

\* bridgeChannel has returned: its deferred calls close both channels.
Done == go = {}

\* The gateway's view: no more comes from there behind what is in flight, and writes
\* there fail.
ClientGone  == client.closed \/ "client" \notin up
SandboxGone == server.closed \/ "sandbox" \notin up
--------------------------------------------------------------------------------
(* The client (external). *)

ClientUp == "client" \in up /\ ~client.closed

Ask == /\ ClientUp /\ ~client.asked
       /\ client' = [client EXCEPT !.asked = TRUE]
       /\ UNCHANGED <<in, out, err, server, exit, go, ends, up, cut>>

Type == /\ ClientUp /\ client.asked /\ ~client.eof /\ in.typed < MaxIn
        /\ in' = Bump(in, "typed")
        /\ UNCHANGED <<out, err, client, server, exit, go, ends, up, cut>>

\* Its standard input ends.
End == /\ ClientUp /\ client.asked /\ ~client.eof
       /\ client' = [client EXCEPT !.eof = TRUE]
       /\ UNCHANGED <<in, out, err, server, exit, go, ends, up, cut>>

\* It closes the channel when both directions have ended, or when the gateway has.
Close == /\ ClientUp
         /\ (client.eof /\ "outEof" \in ends) \/ Done
         /\ client' = [client EXCEPT !.closed = TRUE]
         /\ UNCHANGED <<in, out, err, server, exit, go, ends, up, cut>>

--------------------------------------------------------------------------------
(* The connections. *)

Lost(w, s) == /\ up' = up \ s
              /\ cut' = IF cut = "none" THEN w ELSE cut
              /\ UNCHANGED <<in, out, err, client, server, exit, go, ends>>

\* The client is killed or its network fails.
Disconnect == "client" \in up /\ Lost("client", {"client"})

\* The range over chans ends with the client's connection, and the deferred call
\* closes the sandbox's.
HangUp == up = {"sandbox"} /\ Lost("client", {"sandbox"})

\* The VM is stopped or removed.
VmDies == "sandbox" \in up /\ Lost("vm", {"sandbox"})

\* Mutant of CloseConns: the client's connection stays.
CloseConns_Sandbox == "client" \in up /\ Lost("limit", {"sandbox"}) /\ up' # up

\* enforceSessionLimits: the token or the idle time has run out.
CloseConns == "client" \in up /\ Lost("limit", {"client", "sandbox"})

--------------------------------------------------------------------------------
(* bridgeChannel. *)

Return(g) == go' = go \ {g}

\* clientReqs: the request is sent on, and the daemon starts its handler (SendRequest
\* waits for its reply); then the loop ends with the client's channel.
RelayRequest ==
  /\ "clientReqs" \in go /\ client.asked /\ server.cmd = "none" /\ ~SandboxGone
  /\ server' = [server EXCEPT !.cmd = "running"]
  /\ UNCHANGED <<in, out, err, client, exit, go, ends, up, cut>>

EndClientReqs ==
  /\ "clientReqs" \in go /\ ClientGone
  /\ client.asked /\ "client" \in up => server.cmd # "none" \/ SandboxGone
  /\ Return("clientReqs")
  /\ UNCHANGED <<in, out, err, client, server, exit, ends, up, cut>>

\* sandboxReqs: the exit status.
RelayExit ==
  /\ "sandboxReqs" \in go /\ exit = "sent"
  /\ exit' = IF ClientGone THEN "lost" ELSE "relayed"
  /\ UNCHANGED <<in, out, err, client, server, go, ends, up, cut>>

EndSandboxReqs ==
  /\ "sandboxReqs" \in go /\ SandboxGone
  /\ exit = "sent" => "sandbox" \notin up
  /\ Return("sandboxReqs")
  /\ UNCHANGED <<in, out, err, client, server, exit, ends, up, cut>>

\* io.Copy(sandboxChannel, clientChannel): a read,
ReadInput ==
  /\ "input" \in go /\ in.read = in.written /\ in.read < in.typed
  /\ in' = Bump(in, "read")
  /\ UNCHANGED <<out, err, client, server, exit, go, ends, up, cut>>

\* and a write, which waits for the window,
WriteInput ==
  /\ in.written < in.read /\ "input" \in go /\ ~SandboxGone
  /\ in.written - in.taken < Window
  /\ in' = Bump(in, "written")
  /\ UNCHANGED <<out, err, client, server, exit, go, ends, up, cut>>

\* Mutant of InputOver: what is still in the channel is not waited for.
InputOver_Early == client.eof \/ ClientGone

\* The read that finds the end: behind all data, or wherever the connection broke.
InputOver == \/ (client.eof \/ client.closed) /\ in.read = in.typed
             \/ "client" \notin up

\* Mutant of EndInput: no CloseWrite.
EndInput_Open ==
  /\ "input" \in go
  /\ IF in.written = in.read THEN InputOver ELSE SandboxGone
  /\ Return("input")
  /\ UNCHANGED <<in, out, err, client, server, exit, ends, up, cut>>

\* until the read finds the end, or the write fails; then CloseWrite.
EndInput ==
  /\ "input" \in go
  /\ IF in.written = in.read THEN InputOver ELSE SandboxGone
  /\ Return("input")
  /\ ends' = IF SandboxGone THEN ends ELSE ends \cup {"inEof"}
  /\ UNCHANGED <<in, out, err, client, server, exit, up, cut>>

\* io.Copy(clientChannel, sandboxChannel), which reads stdout alone.
ReadOutput ==
  /\ "output" \in go /\ out.read = out.written /\ out.read < out.sent
  /\ out' = Bump(out, "read")
  /\ UNCHANGED <<in, err, client, server, exit, go, ends, up, cut>>

WriteOutput ==
  /\ out.written < out.read /\ "output" \in go /\ ~ClientGone
  /\ out' = Bump(out, "written")
  /\ UNCHANGED <<in, err, client, server, exit, go, ends, up, cut>>

\* Mutant of OutputOver: the session is over with its exit status.
OutputOver_AtExit == exit = "relayed" \/ SandboxGone

OutputOver == \/ server.closed /\ out.read = out.sent
              \/ "sandbox" \notin up

EndOutput ==
  /\ "output" \in go
  /\ IF out.written = out.read THEN OutputOver ELSE ClientGone
  /\ Return("output")
  /\ ends' = IF ClientGone THEN ends ELSE ends \cup {"outEof"}
  /\ UNCHANGED <<in, out, err, client, server, exit, up, cut>>

Gateway == \/ RelayRequest \/ EndClientReqs \/ RelayExit \/ EndSandboxReqs
           \/ ReadInput \/ WriteInput \/ EndInput \/ ReadOutput \/ WriteOutput \/ EndOutput

--------------------------------------------------------------------------------
(* sessionHandler and sftpHandler. *)

\* The daemon's view of its channel.
Severed == "sandbox" \notin up \/ Done
Active  == server.cmd # "none" /\ ~server.closed

\* A copy of input to the command: a chunk, which a command that has exited refuses,
\* or the end.
TakeInput ==
  /\ Active /\ server.reading /\ in.taken < in.written
  /\ in' = Bump(in, "taken")
  /\ server' = [server EXCEPT !.reading = server.cmd = "running"]
  /\ UNCHANGED <<out, err, client, exit, go, ends, up, cut>>

TakeEof ==
  /\ Active /\ server.reading
  /\ \/ ("inEof" \in ends \/ Done) /\ in.taken = in.written
     \/ "sandbox" \notin up
  /\ server' = [server EXCEPT !.reading = FALSE]
  /\ UNCHANGED <<in, out, err, client, exit, go, ends, up, cut>>

\* Mutant of Room: stderr has a window of its own.
Room_Stdout == Severed \/ out.sent - out.read < Window

\* A copy of stdout or stderr, which share the window of the channel; after the end of
\* the channel it goes nowhere.
Room == Severed \/ (out.sent - out.read) + err.sent < Window

SendOutput ==
  /\ Active /\ out.sent < out.made /\ Room
  /\ out' = Bump(out, "sent")
  /\ UNCHANGED <<in, err, client, server, exit, go, ends, up, cut>>

SendError ==
  /\ Active /\ err.sent < err.made /\ Room
  /\ err' = Bump(err, "sent")
  /\ UNCHANGED <<in, out, client, server, exit, go, ends, up, cut>>

\* Mutant of Finished: the handler does not wait for the copies of output.
Finished_Undrained == server.cmd = "exited" /\ (client.mode = "exec" => ~server.reading)

\* cmd.Run waits for its copies, that of input too; with a terminal the handler waits
\* for the end of the output alone.
Finished == /\ server.cmd = "exited" /\ out.sent = out.made /\ err.sent = err.made
            /\ client.mode = "exec" => ~server.reading

\* The handler returns and the server closes the session with status 0.
CloseSession ==
  /\ Active /\ Finished
  /\ server' = [server EXCEPT !.closed = TRUE]
  /\ exit' = IF Severed THEN "lost" ELSE "sent"
  /\ UNCHANGED <<in, out, err, client, go, ends, up, cut>>

Daemon == TakeInput \/ TakeEof \/ SendOutput \/ SendError \/ CloseSession

--------------------------------------------------------------------------------
(* The command (external).  An SFTP server ends with its input; only a command *)
(* without a terminal has a stderr of its own.                                 *)

Write == /\ server.cmd = "running" /\ out.made < MaxOut
         /\ out' = Bump(out, "made")
         /\ UNCHANGED <<in, err, client, server, exit, go, ends, up, cut>>

Complain == /\ server.cmd = "running" /\ client.mode = "exec" /\ err.made < MaxErr
            /\ err' = Bump(err, "made")
            /\ UNCHANGED <<in, out, client, server, exit, go, ends, up, cut>>

Exit == /\ server.cmd = "running"
        /\ client.mode = "sftp" => ~server.reading
        /\ server' = [server EXCEPT !.cmd = "exited"]
        /\ UNCHANGED <<in, out, err, client, exit, go, ends, up, cut>>

--------------------------------------------------------------------------------

Next == \/ Ask \/ Type \/ End \/ Close
        \/ Disconnect \/ HangUp \/ VmDies \/ CloseConns
        \/ Gateway \/ Daemon
        \/ Write \/ Complain \/ Exit

Spec == Init /\ [][Next]_vars

\* Goroutines run; the daemon runs while its VM does; a client closes what has ended.
\* Nothing makes a client end its input, a command exit, or a limit come.
FairSpec == /\ Spec
            /\ WF_vars(Close) /\ WF_vars(HangUp)
            /\ WF_vars(RelayRequest) /\ WF_vars(EndClientReqs)
            /\ WF_vars(RelayExit) /\ WF_vars(EndSandboxReqs)
            /\ WF_vars(ReadInput \/ WriteInput \/ EndInput)
            /\ WF_vars(ReadOutput \/ WriteOutput \/ EndOutput)
            /\ WF_vars(TakeInput \/ TakeEof) /\ WF_vars(SendOutput) /\ WF_vars(SendError)
            /\ WF_vars(CloseSession)
--------------------------------------------------------------------------------
(* Properties. *)

\* Every counter is at most the one before it, a copy holds one chunk at most, and what
\* is outstanding on the sandbox's channel fits its window.
TypeOK ==
  /\ in \in [typed : 0..MaxIn, read : 0..MaxIn, written : 0..MaxIn, taken : 0..MaxIn]
  /\ in.taken <= in.written /\ in.written <= in.read /\ in.read <= in.typed
  /\ in.read <= in.written + 1
  /\ out \in [made : 0..MaxOut, sent : 0..MaxOut, read : 0..MaxOut, written : 0..MaxOut]
  /\ out.written <= out.read /\ out.read <= out.sent /\ out.sent <= out.made
  /\ out.read <= out.written + 1
  /\ err \in [made : 0..MaxErr, sent : 0..MaxErr] /\ err.sent <= err.made
  /\ Severed \/ (out.sent - out.read) + err.sent <= Window
  /\ client \in [mode : Modes, asked : BOOLEAN, eof : BOOLEAN, closed : BOOLEAN]
  /\ server \in [cmd : {"none", "running", "exited"}, reading : BOOLEAN, closed : BOOLEAN]
  /\ exit \in {"none", "sent", "relayed", "lost"}
  /\ go \subseteq {"clientReqs", "sandboxReqs", "input", "output"}
  /\ ends \subseteq {"inEof", "outEof"}
  /\ up \subseteq {"client", "sandbox"}
  /\ cut \in {"none", "client", "limit", "vm"}

\* A command that sees the end of its input has been given all of it, unless a
\* connection broke (bridgeChannel makes one half-close of the other, through a copy; a
\* broken connection looks like an end to it).
InputWhole ==
  server.cmd = "running" /\ ~server.reading /\ cut = "none" => client.eof /\ in.taken = in.typed

\* A client that sees the end of the output has been sent all that the command printed,
\* unless a connection broke: the end passes the daemon's copies, its CLOSE and the
\* gateway's copy.
OutputWhole == "outEof" \in ends /\ cut = "none" => out.written = out.made

\* Stderr that nobody reads has used up the window it shares with stdout.
Choked == err.sent = Window

\* When the command has exited and the client has ended its input, the channel closes
\* by itself: none of the four goroutines, the daemon's copies and the client waits for
\* one that waits for it.  (While the client keeps its input open the channel stays,
\* until a limit.)
SessionEnds ==
  server.cmd = "exited" /\ client.eof ~> Done \/ cut # "none" \/ Choked

\* Once the client is gone or the limits of the session are reached, bridgeChannel
\* returns: the wait group waits for no copy that is blocked on the other side.
BridgeEnds == ("client" \notin up \/ cut = "limit") ~> Done
================================================================================
