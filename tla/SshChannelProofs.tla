--------------------------- MODULE SshChannelProofs ---------------------------
(***************************************************************************)
(* InputWhole and OutputWhole hold for any number of chunks and any        *)
(* window.  Why: an end is announced only behind the data (EofInv), and    *)
(* with both connections up nothing else ends a copy (UncutInv).           *)
(***************************************************************************)
EXTENDS SshChannel, TLAPS

\* The phases of the handler, and what follows from its having closed.
SessionInv ==
  /\ server.cmd = "none" => server.reading
  /\ server.closed => server.cmd = "exited" /\ out.sent = out.made

\* With both connections up, the client closes last, and a copy that has ended had
\* copied everything.
UncutInv ==
  cut = "none" =>
    /\ up = {"client", "sandbox"}
    /\ "clientReqs" \notin go => client.closed
    /\ client.closed => client.eof
    /\ "input" \notin go /\ ~server.closed => client.eof /\ in.written = in.typed

EofInv ==
  /\ "inEof" \in ends => "input" \notin go
  /\ "outEof" \in ends => "output" \notin go
  /\ "outEof" \in ends /\ cut = "none" => server.closed /\ out.written = out.sent

Inv == TypeOK /\ SessionInv /\ UncutInv /\ EofInv /\ InputWhole

\* The output is whole: the daemon has closed, so all that was made was sent.
LEMMA InvImpliesOutputWhole == Inv => OutputWhole
BY DEF Inv, SessionInv, EofInv, OutputWhole

LEMMA InitInv == Init => Inv
BY ChannelAssumption DEF Init, Inv, TypeOK, SessionInv, UncutInv, EofInv, InputWhole, Severed, Done

USE DEF Bump, Return, Done, Severed

LEMMA ClientStep ==
  ASSUME Inv, Ask \/ Type \/ End \/ Close
  PROVE  Inv'
<1> USE ChannelAssumption DEF Inv, SessionInv, UncutInv, EofInv, InputWhole, ClientUp
<1>1. CASE Ask
  <2>1. client'.eof = client.eof /\ client'.closed = client.closed /\ client'.mode = client.mode
    BY <1>1 DEF Ask, TypeOK
  <2>2. TypeOK'
    BY <1>1 DEF Ask, TypeOK
  <2>3. SessionInv' /\ UncutInv'
    BY <1>1, <2>1 DEF Ask
  <2>4. EofInv' /\ InputWhole'
    BY <1>1, <2>1 DEF Ask
  <2>5. QED BY <2>2, <2>3, <2>4
<1>2. CASE Type
  <2>1. TypeOK'
    BY <1>2 DEF Type, TypeOK
  <2>2. SessionInv' /\ UncutInv'
    BY <1>2 DEF Type, TypeOK
  <2>3. EofInv' /\ InputWhole'
    BY <1>2 DEF Type, TypeOK
  <2>4. QED BY <2>1, <2>2, <2>3
<1>3. CASE End
  <2>1. TypeOK'
    BY <1>3 DEF End, TypeOK
  <2>2. SessionInv' /\ UncutInv'
    BY <1>3 DEF End, TypeOK
  <2>3. EofInv' /\ InputWhole'
    BY <1>3 DEF End, TypeOK
  <2>4. QED BY <2>1, <2>2, <2>3
<1>4. CASE Close
  <2>1. TypeOK'
    BY <1>4 DEF Close, TypeOK
  <2>2. SessionInv' /\ UncutInv'
    BY <1>4 DEF Close, TypeOK
  <2>3. EofInv' /\ InputWhole'
    BY <1>4 DEF Close, TypeOK
  <2>4. QED BY <2>1, <2>2, <2>3
<1>5. QED BY <1>1, <1>2, <1>3, <1>4

LEMMA ConnectionStep ==
  ASSUME Inv, Disconnect \/ HangUp \/ VmDies \/ CloseConns
  PROVE  Inv'
<1>1. PICK w \in {"client", "limit", "vm"}, s \in SUBSET {"client", "sandbox"} : Lost(w, s)
  BY DEF Disconnect, HangUp, VmDies, CloseConns
<1>2. cut' # "none" /\ cut' \in {"none", "client", "limit", "vm"}
  BY <1>1 DEF Lost, Inv, TypeOK
<1>3. QED BY <1>1, <1>2 DEF Lost, Inv, TypeOK, SessionInv, UncutInv, EofInv, InputWhole

LEMMA GatewayStep == ASSUME Inv, Gateway PROVE Inv'
<1> USE ChannelAssumption
        DEF Inv, SessionInv, UncutInv, EofInv, InputWhole, ClientGone, SandboxGone
<1>1. CASE RelayRequest
  <2>1. TypeOK'
    BY <1>1 DEF RelayRequest, TypeOK
  <2>2. SessionInv' /\ UncutInv'
    BY <1>1 DEF RelayRequest, TypeOK
  <2>3. EofInv' /\ InputWhole'
    BY <1>1 DEF RelayRequest, TypeOK
  <2>4. QED BY <2>1, <2>2, <2>3
<1>2. CASE EndClientReqs
  <2>1. TypeOK'
    BY <1>2 DEF EndClientReqs, TypeOK
  <2>2. SessionInv' /\ UncutInv'
    BY <1>2 DEF EndClientReqs, TypeOK
  <2>3. EofInv' /\ InputWhole'
    BY <1>2 DEF EndClientReqs, TypeOK
  <2>4. QED BY <2>1, <2>2, <2>3
<1>3. CASE RelayExit
  <2>1. TypeOK'
    BY <1>3 DEF RelayExit, TypeOK
  <2>2. SessionInv' /\ UncutInv'
    BY <1>3 DEF RelayExit, TypeOK
  <2>3. EofInv' /\ InputWhole'
    BY <1>3 DEF RelayExit, TypeOK
  <2>4. QED BY <2>1, <2>2, <2>3
<1>4. CASE EndSandboxReqs
  <2>1. TypeOK'
    BY <1>4 DEF EndSandboxReqs, TypeOK
  <2>2. SessionInv' /\ UncutInv'
    BY <1>4 DEF EndSandboxReqs, TypeOK
  <2>3. EofInv' /\ InputWhole'
    BY <1>4 DEF EndSandboxReqs, TypeOK
  <2>4. QED BY <2>1, <2>2, <2>3
<1>5. CASE ReadInput
  <2>1. TypeOK'
    BY <1>5 DEF ReadInput, TypeOK
  <2>2. SessionInv' /\ UncutInv'
    BY <1>5 DEF ReadInput, TypeOK
  <2>3. EofInv' /\ InputWhole'
    BY <1>5 DEF ReadInput, TypeOK
  <2>4. QED BY <2>1, <2>2, <2>3
<1>6. CASE WriteInput
  <2>1. TypeOK'
    BY <1>6 DEF WriteInput, TypeOK
  <2>2. SessionInv' /\ UncutInv'
    BY <1>6 DEF WriteInput, TypeOK
  <2>3. EofInv' /\ InputWhole'
    BY <1>6 DEF WriteInput, TypeOK
  <2>4. QED BY <2>1, <2>2, <2>3
<1>7. CASE EndInput
  <2>1. TypeOK'
    BY <1>7 DEF EndInput, InputOver, TypeOK
  <2>2. SessionInv' /\ UncutInv'
    BY <1>7 DEF EndInput, InputOver, TypeOK
  <2>3. EofInv' /\ InputWhole'
    BY <1>7 DEF EndInput, InputOver, TypeOK
  <2>4. QED BY <2>1, <2>2, <2>3
<1>8. CASE ReadOutput
  <2>1. TypeOK'
    BY <1>8 DEF ReadOutput, TypeOK
  <2>2. SessionInv' /\ UncutInv'
    BY <1>8 DEF ReadOutput, TypeOK
  <2>3. EofInv' /\ InputWhole'
    BY <1>8 DEF ReadOutput, TypeOK
  <2>4. QED BY <2>1, <2>2, <2>3
<1>9. CASE WriteOutput
  <2>1. TypeOK'
    BY <1>9 DEF WriteOutput, TypeOK
  <2>2. SessionInv' /\ UncutInv'
    BY <1>9 DEF WriteOutput, TypeOK
  <2>3. EofInv' /\ InputWhole'
    BY <1>9 DEF WriteOutput, TypeOK
  <2>4. QED BY <2>1, <2>2, <2>3
<1>10. CASE EndOutput
  <2>1. TypeOK'
    BY <1>10 DEF EndOutput, OutputOver, TypeOK
  <2>2. SessionInv' /\ UncutInv'
    BY <1>10 DEF EndOutput, OutputOver, TypeOK
  <2>3. EofInv' /\ InputWhole'
    BY <1>10 DEF EndOutput, OutputOver, TypeOK
  <2>4. QED BY <2>1, <2>2, <2>3
<1>11. QED
  BY <1>1, <1>2, <1>3, <1>4, <1>5, <1>6, <1>7, <1>8, <1>9, <1>10 DEF Gateway

LEMMA DaemonStep == ASSUME Inv, Daemon PROVE Inv'
<1> USE ChannelAssumption DEF Inv, SessionInv, UncutInv, EofInv, InputWhole, Active
<1>1. CASE TakeInput
  <2>1. TypeOK'
    BY <1>1 DEF TakeInput, TypeOK
  <2>2. SessionInv' /\ UncutInv'
    BY <1>1 DEF TakeInput, TypeOK
  <2>3. EofInv' /\ InputWhole'
    BY <1>1 DEF TakeInput, TypeOK
  <2>4. QED BY <2>1, <2>2, <2>3
<1>2. CASE TakeEof
  <2>1. TypeOK'
    BY <1>2 DEF TakeEof, TypeOK
  <2>2. SessionInv' /\ UncutInv'
    BY <1>2 DEF TakeEof, TypeOK
  <2>3. EofInv' /\ InputWhole'
    BY <1>2 DEF TakeEof, TypeOK
  <2>4. QED BY <2>1, <2>2, <2>3
<1>3. CASE SendOutput
  <2>1. TypeOK'
    BY <1>3 DEF SendOutput, Room, TypeOK
  <2>2. SessionInv' /\ UncutInv'
    BY <1>3 DEF SendOutput, Room, TypeOK
  <2>3. EofInv' /\ InputWhole'
    BY <1>3 DEF SendOutput, Room, TypeOK
  <2>4. QED BY <2>1, <2>2, <2>3
<1>4. CASE SendError
  <2>1. TypeOK'
    BY <1>4 DEF SendError, Room, TypeOK
  <2>2. SessionInv' /\ UncutInv'
    BY <1>4 DEF SendError, Room, TypeOK
  <2>3. EofInv' /\ InputWhole'
    BY <1>4 DEF SendError, Room, TypeOK
  <2>4. QED BY <2>1, <2>2, <2>3
<1>5. CASE CloseSession
  <2>1. TypeOK'
    BY <1>5 DEF CloseSession, Finished, TypeOK
  <2>2. SessionInv' /\ UncutInv'
    BY <1>5 DEF CloseSession, Finished, TypeOK
  <2>3. EofInv' /\ InputWhole'
    BY <1>5 DEF CloseSession, Finished, TypeOK
  <2>4. QED BY <2>1, <2>2, <2>3
<1>6. QED BY <1>1, <1>2, <1>3, <1>4, <1>5 DEF Daemon

LEMMA CommandStep ==
  ASSUME Inv, Write \/ Complain \/ Exit
  PROVE  Inv'
<1> USE ChannelAssumption DEF Inv, SessionInv, UncutInv, EofInv, InputWhole
<1>1. CASE Write
  <2>1. TypeOK'
    BY <1>1 DEF Write, TypeOK
  <2>2. SessionInv' /\ UncutInv'
    BY <1>1 DEF Write, TypeOK
  <2>3. EofInv' /\ InputWhole'
    BY <1>1 DEF Write, TypeOK
  <2>4. QED BY <2>1, <2>2, <2>3
<1>2. CASE Complain
  <2>1. TypeOK'
    BY <1>2 DEF Complain, TypeOK
  <2>2. SessionInv' /\ UncutInv'
    BY <1>2 DEF Complain, TypeOK
  <2>3. EofInv' /\ InputWhole'
    BY <1>2 DEF Complain, TypeOK
  <2>4. QED BY <2>1, <2>2, <2>3
<1>3. CASE Exit
  <2>1. TypeOK'
    BY <1>3 DEF Exit, TypeOK
  <2>2. SessionInv' /\ UncutInv'
    BY <1>3 DEF Exit, TypeOK
  <2>3. EofInv' /\ InputWhole'
    BY <1>3 DEF Exit, TypeOK
  <2>4. QED BY <2>1, <2>2, <2>3
<1>4. QED BY <1>1, <1>2, <1>3

LEMMA Invariance == Spec => []Inv
<1>1. Inv /\ [Next]_vars => Inv'
  <2> SUFFICES ASSUME Inv, [Next]_vars PROVE Inv'
    OBVIOUS
  <2>1. CASE UNCHANGED vars
    BY <2>1 DEF vars, Inv, TypeOK, SessionInv, UncutInv, EofInv, InputWhole
  <2>2. CASE Next
    BY <2>2, ClientStep, ConnectionStep, GatewayStep, DaemonStep, CommandStep DEF Next
  <2>3. QED BY <2>1, <2>2
<1>2. QED BY <1>1, InitInv, PTL DEF Spec

\* Types, order of the counters and the window of the sandbox's channel.
THEOREM ChannelTypeCorrect == Spec => []TypeOK
<1>1. Inv => TypeOK BY DEF Inv
<1>2. QED BY <1>1, Invariance, PTL

\* A command that sees the end of its input has been given all of it, for any number of
\* chunks and any window.
THEOREM InputIsWhole == Spec => []InputWhole
<1>1. Inv => InputWhole BY DEF Inv
<1>2. QED BY <1>1, Invariance, PTL

\* A client that sees the end of the output has been sent all of it.
THEOREM OutputIsWhole == Spec => []OutputWhole
BY Invariance, InvImpliesOutputWhole, PTL
=============================================================================
