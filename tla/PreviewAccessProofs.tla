------------------------ MODULE PreviewAccessProofs ------------------------
(***************************************************************************)
(* Preview URLs: the types, one token per port, tokens that go with their  *)
(* runtime, and proxied requests that reach their sandbox.  Every step is  *)
(* one of RuntimeControl or leaves it alone, so what is proved there holds *)
(* here.                                                                   *)
(***************************************************************************)
EXTENDS PreviewAccess, RuntimePortProofs

allvars == <<vars, pvars>>

\* Every step here is one of the lifecycle, or none of it.
LEMMA LifecycleSteps == [PNext]_allvars => [Next]_vars
<1>1. ASSUME Lifecycle PROVE Next
  BY <1>1 DEF Lifecycle, Next, Step
<1>2. ASSUME NEW r \in Reqs, Preview(r) PROVE Next
  BY <1>2 DEF Preview, Clear, Issue, ReadToken, ExpireToken, DropTokens, Next, Step
<1>3. ASSUME NEW x \in Proxied, Proxy(x) PROVE UNCHANGED vars
  BY <1>3 DEF Proxy, ReadSigned, Purge, LookupSigned, Direct, Done
<1>4. UNCHANGED allvars => UNCHANGED vars
  BY DEF allvars
<1> QED
  BY <1>1, <1>2, <1>3, <1>4 DEF PNext

LEMMA LifecycleSpec == PSpec => Spec
<1>1. PInit => Init
  BY DEF PInit
<1>2. PSpec <=> PInit /\ [][PNext]_allvars
  BY DEF PSpec, allvars
<1> QED
  BY <1>1, <1>2, LifecycleSteps, PTL DEF Spec

\* The lifecycle's own steps never come to the calls on the table of tokens.
LEMMA AwayFromTokens ==
  ASSUME TypeInv, NEW r \in Reqs, Accept(r) \/ Provision(r) \/ Command(r)
  PROVE  /\ req'[r].pc \notin {"issue", "expireToken"}
         /\ \A q \in Reqs \ {r} : req'[q] = req[q]
<1> DEFINE h == req[r]
           g == req'[r]
           Away(k) == k.pc \notin {"issue", "expireToken"}
<1>0. h \in Handler /\ req \in [Reqs -> Handler]
  BY DEF TypeInv, TypeOK
<1>1. ASSUME NEW k, Become(r, k), Away(k) PROVE Away(g) /\ \A q \in Reqs \ {r} : req'[q] = req[q]
  BY <1>0, <1>1 DEF Become
<1>2. ASSUME NEW k, NEW pc \in {"lease1", "lease2", "dropRow"}, NEW n, "pc" \in DOMAIN k PROVE Away(Leasing(k, pc, n))
  BY <1>2 DEF Leasing
<1>3. ASSUME NEW k, "pc" \in DOMAIN k PROVE Away(Allocate(k))
  <2>1. Away([k EXCEPT !.pc = "boot", !.got = SubSeq(k.ent.ports, 1, Len(k.in.ctr))])
    BY <1>3
  <2> QED
    BY <1>2, <1>3, <2>1 DEF Allocate
<1>4. ASSUME NEW e PROVE "pc" \in DOMAIN [h EXCEPT !.ent = e]
  BY <1>0 DEF Handler
<1>5. ASSUME NEW pc, pc \notin {"issue", "expireToken"}, NEW e, NEW k,
             k = [h EXCEPT !.pc = pc] \/ k = [h EXCEPT !.pc = pc, !.ent = e] \/ k = [h EXCEPT !.ent = e, !.pc = pc]
      PROVE  Away(k)
  BY <1>0, <1>5 DEF Handler
<1>6. Away(Idle) /\ "pc" \in DOMAIN h
  BY <1>0 DEF Idle, Handler
<1>7. ASSUME Finish(r) \/ \E pc : Goto(r, pc) /\ pc \notin {"issue", "expireToken"}
      PROVE  Away(g) /\ \A q \in Reqs \ {r} : req'[q] = req[q]
  BY <1>1, <1>5, <1>6, <1>7 DEF Finish, Goto
<1> HIDE DEF Away
<1>11. CASE CheckConflict(r) \/ CheckName(r) \/ SyncFiles(r) \/ Boot(r) \/ BootFails(r)
  BY <1>7, <1>11 DEF CheckConflict, CheckName, SyncFiles, Boot, BootFails, Away
<1>12. CASE KeepExisting(r) \/ Persist(r) \/ SaveStatus(r)
  BY <1>1, <1>6, <1>7, <1>12 DEF KeepExisting, Persist, SaveStatus, SaveThen, Away
<1>13. CASE Exec(r) \/ Remove(r) \/ ReleasePorts(r) \/ DropRow(r) \/ DropLeases(r)
  BY <1>7, <1>13 DEF Exec, Remove, ReleasePorts, DropRow, DropLeases, Away
<1>14. CASE LoadForUpdate(r)
  <2>1. ASSUME NEW s PROVE Away([h EXCEPT !.pc = "name", !.in = s])
    BY <1>0 DEF Handler, Away
  <2> QED
    BY <1>1, <1>7, <1>14, <2>1 DEF LoadForUpdate, Away
<1>15. CASE Lookup(r)
  <2>1. CASE ~Finish(r) /\ ~Goto(r, "insert")
    <3>1. PICK e \in BySandboxId(h.key), pc \in {"replace", "probe"} : Become(r, [h EXCEPT !.ent = e, !.pc = pc])
      BY <1>15, <2>1 DEF Lookup
    <3> QED
      BY <1>1, <1>5, <3>1 DEF Away
  <2> QED
    BY <1>7, <2>1 DEF Away
<1>16. CASE Find(r)
  <2>1. CASE ~Finish(r)
    <3>1. PICK e \in BySandboxIdOrName(h.key), pc \in {"deleting", "act", "readToken", "sync"} :
             Become(r, [h EXCEPT !.ent = e, !.pc = pc])
      BY <1>16, <2>1 DEF Find
    <3> QED
      BY <1>1, <1>5, <3>1 DEF Away
  <2> QED
    BY <1>7, <2>1 DEF Away
<1>17. CASE Probe(r) \/ Replace(r) \/ Insert(r)
  <2>1. CASE Probe(r)
    BY <1>1, <1>3, <1>6, <1>7, <2>1 DEF Probe, Away
  <2>2. CASE Replace(r)
    BY <1>1, <1>3, <1>4, <1>7, <2>2 DEF Replace, SaveThen, Away
  <2>3. CASE Insert(r)
    BY <1>1, <1>2, <1>4, <1>7, <2>3 DEF Insert, SaveThen, Away
  <2> QED
    BY <1>17, <2>1, <2>2, <2>3
<1>18. CASE TryPort(r)
  <2>1. /\ Away([h EXCEPT !.got = Append(h.got, h.scan), !.scan = h.scan + 1])
        /\ Away([h EXCEPT !.scan = h.scan + 1])
    BY <1>0, <1>18 DEF Handler, Away, TryPort
  <2> QED
    BY <1>1, <1>18, <2>1 DEF TryPort, Away
<1>19. CASE Leased(r) \/ LeaseShort(r)
  <2>1. Away([h EXCEPT !.pc = "boot", !.got = h.ent.ports \o h.got, !.want = 0, !.scan = PortStart])
    BY <1>0 DEF Handler, Away
  <2> QED
    BY <1>1, <1>2, <1>3, <1>6, <1>7, <1>19, <2>1 DEF Leased, LeaseShort, Away
<1>20. CASE Health(r)
  BY <1>1, <1>5, <1>20 DEF Health, Away
<1>21. CASE SyncStatus(r) \/ SyncSave(r)
  <2>1. ASSUME NEW st, Become(r, AfterSync(h, st)) PROVE Away(g) /\ \A q \in Reqs \ {r} : req'[q] = req[q]
    BY <1>7, <2>1 DEF AfterSync, Finish, Goto
  <2> QED
    BY <1>1, <1>5, <1>7, <1>21, <2>1 DEF SyncStatus, SyncSave, SaveThen, Away
<1>22. CASE Start(r) \/ Stop(r) \/ MarkDeleting(r)
  BY <1>1, <1>5, <1>7, <1>22 DEF Start, Stop, MarkDeleting, SaveThen, Away
<1>23. CASE Accept(r)
  BY <1>23, Arrival DEF Away
<1> QED
  BY <1>11, <1>12, <1>13, <1>14, <1>15, <1>16, <1>17, <1>18, <1>19, <1>20, <1>21, <1>22, <1>23
     DEF Provision, Command, Away

--------------------------------------------------------------------------------
(* Types *)

LEMMA ArgTypes ==
  /\ NoArg \in Arg /\ NoRequest \in Request
  /\ \A k \in CPorts : [NoArg EXCEPT !.port = k] \in Arg
  /\ \A c \in Record : [token |-> c.token, port |-> c.port] \in Arg /\ [NoArg EXCEPT !.port = c.port] \in Arg
  BY DEF NoArg, Arg, NoRequest, Request, Record

\* A handler of the token routes goes on with what it has found.
LEMMA PreviewType ==
  ASSUME TypeInv, PTypeOK, NEW r \in Reqs, Preview(r)
  PROVE  PTypeOK'
<1> DEFINE Kept(q) == req'[q].pc \in {"issue", "expireToken"} => arg'[q].port \in CPorts
<1>0. /\ req \in [Reqs -> Handler] /\ HandlerOK(req[r]) /\ signed \subseteq Record /\ arg \in [Reqs -> Arg]
      /\ \A q \in Reqs : req[q].pc \in {"issue", "expireToken"} => arg[q].port \in CPorts
  BY DEF TypeInv, TypeOK, PTypeOK
<1>1. TokenCall(r)
  BY DEF Preview, Clear, Issue, ReadToken, ExpireToken, DropTokens
<1>2. req'[r] \in {Idle} \cup {[req[r] EXCEPT !.pc = pc] : pc \in {"issue", "expireToken"}}
      /\ \A q \in Reqs \ {r} : req'[q] = req[q]
  BY <1>0, <1>1 DEF TokenCall, Finish, Goto, Become
<1>3. ASSUME NEW a \in Arg, Held(r, a), Idle = req'[r] \/ a.port \in CPorts
      PROVE  arg' \in [Reqs -> Arg] /\ \A q \in Reqs : Kept(q)
  BY <1>0, <1>2, <1>3 DEF Held, Idle
<1>4. ASSUME UNCHANGED arg, req'[r].pc = "idle" PROVE arg' \in [Reqs -> Arg] /\ \A q \in Reqs : Kept(q)
  BY <1>0, <1>2, <1>4
<1>5. ASSUME req[r].pc \in {"issue", "expireToken"} PROVE req'[r] = Idle
  BY <1>0, <1>1, <1>5 DEF TokenCall, At, Finish, Become
<1>6. req[r].pc = "dropTokens" => req'[r].pc = "idle"
  BY <1>0, <1>1 DEF TokenCall, At, Finish, Become, Idle
<1> HIDE DEF Kept
<1>7. signed' \subseteq Record /\ arg' \in [Reqs -> Arg] /\ \A q \in Reqs : Kept(q)
  <2>1. CASE Clear(r)
    <3>1. CASE req'[r].pc = "idle" /\ UNCHANGED pvars
      BY <1>0, <1>4, <3>1 DEF pvars
    <3>2. CASE \E k \in CPorts : signed' = ClearOld(req[r].ent.sid, k) /\ Held(r, [NoArg EXCEPT !.port = k])
      <4>1. PICK k \in CPorts : signed' = ClearOld(req[r].ent.sid, k) /\ Held(r, [NoArg EXCEPT !.port = k])
        BY <3>2
      <4>2. [NoArg EXCEPT !.port = k].port \in CPorts
        BY DEF NoArg
      <4> QED
        BY <1>0, <1>3, <4>1, <4>2, ArgTypes DEF ClearOld
    <3> QED
      BY <2>1, <3>1, <3>2 DEF Clear
  <2>2. CASE Issue(r)
    <3>1. req[r].pc = "issue" /\ Held(r, NoArg) /\ req[r].ent \in Entity /\ arg[r].port \in CPorts
      BY <1>0, <2>2, Phases DEF Issue, HandlerOK
    <3>2. PICK t \in Tokens : signed' = signed \cup {[token |-> t, sid |-> req[r].ent.sid, port |-> arg[r].port]}
      BY <2>2 DEF Issue
    <3>3. signed' \subseteq Record
      BY <1>0, <3>1, <3>2 DEF Record, Entity
    <3> QED
      BY <1>3, <1>5, <3>1, <3>3, ArgTypes
  <2>3. CASE ReadToken(r)
    <3>1. CASE req'[r].pc = "idle" /\ UNCHANGED pvars
      BY <1>0, <1>4, <3>1 DEF pvars
    <3>2. CASE \E c \in signed : Held(r, [token |-> c.token, port |-> c.port]) /\ UNCHANGED signed
      <4>1. PICK c \in signed : Held(r, [token |-> c.token, port |-> c.port]) /\ UNCHANGED signed
        BY <3>2
      <4>2. c \in Record /\ c.port \in CPorts
        BY <1>0 DEF Record
      <4> QED
        BY <1>0, <1>3, <4>1, <4>2, ArgTypes
    <3> QED
      BY <2>3, <3>1, <3>2 DEF ReadToken
  <2>4. CASE ExpireToken(r)
    BY <1>0, <1>3, <1>5, <2>4, ArgTypes DEF ExpireToken
  <2>5. CASE DropTokens(r)
    BY <1>0, <1>4, <1>6, <2>5 DEF DropTokens, WithoutSandbox
  <2> QED
    BY <2>1, <2>2, <2>3, <2>4, <2>5 DEF Preview
<1>8. UNCHANGED <<proxy, cut>>
  BY DEF Preview, Clear, Issue, ReadToken, ExpireToken, DropTokens, pvars
<1> QED
  BY <1>7, <1>8 DEF PTypeOK, Kept

LEMMA ProxyType ==
  ASSUME TypeInv, PTypeOK, NEW x \in Proxied, Proxy(x)
  PROVE  PTypeOK'
<1>0. /\ signed \subseteq Record /\ proxy \in [Proxied -> Request] /\ \A e \in Rows : e \in Entity
      /\ proxy[x].sid \in Sids \cup {NoName}
  BY RowById DEF PTypeOK, Request
<1>1. ASSUME NEW q \in Request, Advance(x, q), UNCHANGED <<vars, arg, cut>>, signed' \subseteq signed PROVE PTypeOK'
  BY <1>1 DEF Advance, PTypeOK, vars
<1>2. ASSUME NEW c \in signed
      PROVE  /\ [NoRequest EXCEPT !.pc = "purge", !.arg = [token |-> c.token, port |-> c.port]] \in Request
             /\ [NoRequest EXCEPT !.pc = "lookup", !.arg = [NoArg EXCEPT !.port = c.port], !.sid = c.sid] \in Request
  <2>1. c \in Record /\ c.sid \in Sids
    BY <1>0 DEF Record
  <2>2. ASSUME NEW a \in Arg
        PROVE  /\ [NoRequest EXCEPT !.pc = "purge", !.arg = a] \in Request
               /\ [NoRequest EXCEPT !.pc = "lookup", !.arg = a, !.sid = c.sid] \in Request
    BY <2>1, ArgTypes DEF NoRequest, Request
  <2> QED
    BY <2>1, <2>2, ArgTypes
<1>3. ASSUME NEW e \in Rows, NEW k, Forward(x, e, k), UNCHANGED <<vars, signed, arg, cut>> PROVE PTypeOK'
  <2>1. ASSUME NEW s \in Sids PROVE [NoRequest EXCEPT !.pc = "forwarded", !.sid = e.sid, !.peer = s] \in Request
    BY <1>0, ArgTypes DEF NoRequest, Request, Entity
  <2>2. \A p : Publishing(p) \subseteq Sids
    BY DEF Publishing
  <2>3. CASE Advance(x, NoRequest)
    BY <1>1, <1>3, <2>3, ArgTypes
  <2>4. CASE \E s \in Sids : Advance(x, [NoRequest EXCEPT !.pc = "forwarded", !.sid = e.sid, !.peer = s])
    BY <1>1, <1>3, <2>1, <2>4
  <2> QED
    BY <1>3, <2>2, <2>3, <2>4 DEF Forward
<1>4. CASE ReadSigned(x)
  BY <1>1, <1>2, <1>4 DEF ReadSigned
<1>5. CASE Purge(x)
  BY <1>1, <1>5, ArgTypes DEF Purge
<1>6. CASE LookupSigned(x)
  BY <1>1, <1>3, <1>6, ArgTypes DEF LookupSigned, BySandboxIdOrName
<1>7. CASE Direct(x)
  BY <1>3, <1>7 DEF Direct, BySandboxIdOrName
<1>8. CASE Done(x)
  BY <1>1, <1>8, ArgTypes DEF Done
<1> QED
  BY <1>4, <1>5, <1>6, <1>7, <1>8 DEF Proxy

\* Every variable has its type, whatever clients, failures and crashes do: a handler
\* about to save or to expire a token has its port.
THEOREM PreviewTypes == PSpec => []PTypeOK
<1>1. PInit => PTypeOK
  BY ArgTypes DEF PInit, PTypeOK, Init, Idle
<1>2. TypeInv /\ PTypeOK /\ [PNext]_allvars => PTypeOK'
  <2> SUFFICES ASSUME TypeInv, PTypeOK, [PNext]_allvars PROVE PTypeOK'
    OBVIOUS
  <2>1. ASSUME NEW r \in Reqs, Accept(r) \/ Provision(r) \/ Command(r), UNCHANGED pvars PROVE PTypeOK'
    BY <2>1, AwayFromTokens DEF pvars, PTypeOK
  <2>2. ASSUME NEW s \in Sids, VmStops(s), UNCHANGED pvars PROVE PTypeOK'
    BY <2>2 DEF VmStops, pvars, PTypeOK
  <2>3. CASE UNCHANGED allvars
    BY <2>3 DEF allvars, vars, pvars, PTypeOK
  <2>4. CASE Lifecycle
    <3>1. CASE UNCHANGED pvars /\ ((\E r \in Reqs : Accept(r) \/ Provision(r) \/ Command(r)) \/ (\E s \in Sids : VmStops(s)))
      BY <2>1, <2>2, <3>1
    <3>2. CASE /\ Crash /\ UNCHANGED signed
               /\ arg' = [r \in Reqs |-> NoArg] /\ proxy' = [x \in Proxied |-> NoRequest]
               /\ cut' = cut \cup {s \in Sids : \E r \in Reqs : Releasing(r, s)}
      <4>1. \A r \in Reqs : req'[r].pc = "idle"
        BY <3>2 DEF Crash, Idle
      <4> QED
        BY <3>2, <4>1, ArgTypes DEF PTypeOK
    <3> QED
      BY <2>4, <3>1, <3>2 DEF Lifecycle
  <2> QED
    BY <2>3, <2>4, PreviewType, ProxyType DEF PNext
<1>3. Spec => []TypeInv
  BY InitType, NextType, PTL DEF Spec
<1> QED
  BY <1>1, <1>2, <1>3, LifecycleSpec, PTL DEF PSpec, allvars

--------------------------------------------------------------------------------
(* One token per port, whatever clients do but for one thing: two handlers that *)
(* have both cleared the same port of a sandbox, and are both to save a token   *)
(* for it.  The table has no UNIQUE key to refuse the second.                   *)

RivalSigns ==
  \E q, r \in Reqs : /\ q # r /\ req[q].pc = "issue" /\ req[r].pc = "issue"
                     /\ req[q].ent.sid = req[r].ent.sid /\ arg[q].port = arg[r].port

\* A handler that is to save a token has cleared the port of its sandbox.
Cleared(r) ==
  req[r].pc = "issue" => \A c \in signed : ~(c.sid = req[r].ent.sid /\ c.port = arg[r].port)

SignInv == OneTokenPerPort /\ \A r \in Reqs : Cleared(r)

\* A step on the table leaves the other handlers alone, and its own the entity.
LEMMA PreviewStep ==
  ASSUME TypeInv, NEW r \in Reqs, Preview(r)
  PROVE  /\ UNCHANGED <<rows, leases, vms, proxy, cut>>
         /\ \A q \in Reqs \ {r} : req'[q] = req[q] /\ (PTypeOK => arg'[q] = arg[q])
         /\ \/ req'[r] = Idle
            \/ req'[r].ent = req[r].ent /\ \/ req[r].pc = "act" /\ req'[r].pc = "issue"
                                           \/ req[r].pc = "readToken" /\ req'[r].pc = "expireToken"
<1>0. req \in [Reqs -> Handler] /\ req[r] \in Handler
  BY DEF TypeInv, TypeOK
<1>1. TokenCall(r) /\ UNCHANGED <<proxy, cut>> /\ (UNCHANGED arg \/ \E a : Held(r, a))
  BY DEF Preview, Clear, Issue, ReadToken, ExpireToken, DropTokens, pvars
<1>2. \A q \in Reqs \ {r} : req'[q] = req[q] /\ (PTypeOK => arg'[q] = arg[q])
  BY <1>0, <1>1 DEF TokenCall, Finish, Goto, Become, Held, PTypeOK
<1>3. \/ req'[r] = Idle
      \/ req[r].pc = "act" /\ req'[r] = [req[r] EXCEPT !.pc = "issue"]
      \/ req[r].pc = "readToken" /\ req'[r] = [req[r] EXCEPT !.pc = "expireToken"]
  BY <1>0, <1>1 DEF TokenCall, At, Finish, Goto, Become
<1>4. \A pc : [req[r] EXCEPT !.pc = pc].ent = req[r].ent /\ [req[r] EXCEPT !.pc = pc].pc = pc
  BY <1>0 DEF Handler
<1>5. UNCHANGED <<rows, leases, vms, proxy, cut>>
  BY <1>1 DEF TokenCall
<1>6. \A pc : req'[r] = [req[r] EXCEPT !.pc = pc] => req'[r].ent = req[r].ent /\ req'[r].pc = pc
  BY <1>4
<1>7. \/ req'[r] = Idle
      \/ req'[r].ent = req[r].ent /\ \/ req[r].pc = "act" /\ req'[r].pc = "issue"
                                     \/ req[r].pc = "readToken" /\ req'[r].pc = "expireToken"
  BY <1>3, <1>6
<1> QED
  BY <1>2, <1>5, <1>7

LEMMA SignNext == ~RivalSigns /\ TypeInv /\ PTypeOK /\ SignInv /\ [PNext]_allvars => SignInv'
<1> SUFFICES ASSUME ~RivalSigns, TypeInv, PTypeOK, SignInv, [PNext]_allvars PROVE SignInv'
  OBVIOUS
\* Tokens only go, and nobody comes to save one.
<1>1. ASSUME signed' \subseteq signed, UNCHANGED arg,
             \A q \in Reqs : req'[q] = req[q] \/ req'[q].pc # "issue"
      PROVE  SignInv'
  BY <1>1 DEF SignInv, OneTokenPerPort, Cleared
<1>2. ASSUME NEW r \in Reqs, Accept(r) \/ Provision(r) \/ Command(r), UNCHANGED pvars PROVE SignInv'
  BY <1>1, <1>2, AwayFromTokens DEF pvars
<1>3. ASSUME Crash, UNCHANGED signed PROVE SignInv'
  BY <1>3 DEF Crash, Idle, SignInv, OneTokenPerPort, Cleared
<1>4. ASSUME UNCHANGED <<req, signed, arg>> PROVE SignInv'
  BY <1>1, <1>4
<1>5. ASSUME NEW x \in Proxied, Proxy(x) PROVE SignInv'
  BY <1>1, <1>5 DEF Proxy, ReadSigned, Purge, LookupSigned, Direct, Done, vars
<1>6. ASSUME NEW r \in Reqs, Preview(r) PROVE SignInv'
  <2> DEFINE e == req[r].ent
  <2>0. \A q \in Reqs \ {r} : req'[q] = req[q] /\ arg'[q] = arg[q]
    BY <1>6, PreviewStep
  <2>1. ASSUME signed' \subseteq signed, Cleared(r)' PROVE SignInv'
    BY <2>0, <2>1 DEF SignInv, OneTokenPerPort, Cleared
  <2>2. CASE Clear(r)
    <3>1. CASE req'[r].pc = "idle" /\ UNCHANGED pvars
      BY <2>1, <3>1 DEF pvars, Cleared
    <3>2. CASE \E k \in CPorts : signed' = ClearOld(e.sid, k) /\ Held(r, [NoArg EXCEPT !.port = k])
      <4>1. PICK k \in CPorts : signed' = ClearOld(e.sid, k) /\ Held(r, [NoArg EXCEPT !.port = k])
        BY <3>2
      <4>2. arg'[r].port = k
        BY <4>1 DEF Held, NoArg, PTypeOK
      <4>3. req'[r].pc = "issue" => req'[r].ent = e
        BY <1>6, PreviewStep DEF Idle
      <4> QED
        BY <2>1, <4>1, <4>2, <4>3 DEF ClearOld, Cleared
    <3> QED
      BY <2>2, <3>1, <3>2 DEF Clear
  <2>3. CASE Issue(r)
    <3>1. PICK t \in Tokens : signed' = signed \cup {[token |-> t, sid |-> e.sid, port |-> arg[r].port]}
      BY <2>3 DEF Issue
    <3>2. req[r].pc = "issue" /\ req'[r].pc # "issue"
      BY <1>6, <2>3, PreviewStep DEF Issue, Idle
    <3>3. OneTokenPerPort'
      BY <3>1, <3>2 DEF SignInv, OneTokenPerPort, Cleared
    <3>4. ASSUME NEW q \in Reqs \ {r}, req[q].pc = "issue" PROVE ~(req[q].ent.sid = e.sid /\ arg[q].port = arg[r].port)
      BY <3>2, <3>4 DEF RivalSigns
    <3> QED
      BY <2>0, <3>1, <3>2, <3>3, <3>4 DEF SignInv, Cleared
  <2>4. CASE ReadToken(r) \/ ExpireToken(r) \/ DropTokens(r)
    <3>1. signed' \subseteq signed
      BY <2>4 DEF ReadToken, ExpireToken, DropTokens, WithoutSandbox, pvars
    <3>2. req'[r].pc # "issue"
      BY <1>6, <2>4, PreviewStep DEF ReadToken, ExpireToken, DropTokens, Idle
    <3> QED
      BY <2>1, <3>1, <3>2 DEF Cleared
  <2> QED
    BY <1>6, <2>2, <2>3, <2>4 DEF Preview
<1>7. CASE Lifecycle
  BY <1>2, <1>3, <1>4, <1>7 DEF Lifecycle, VmStops, pvars
<1>8. CASE UNCHANGED allvars
  BY <1>4, <1>8 DEF allvars, vars, pvars
<1> QED
  BY <1>5, <1>6, <1>7, <1>8 DEF PNext

LEMMA PreviewOwnership == Exclusive => (PSpec => [](ExclusiveInv /\ PTypeOK))
<1> SUFFICES ASSUME Exclusive PROVE PSpec => [](ExclusiveInv /\ PTypeOK)
  OBVIOUS
<1> QED
  BY Ownership, LifecycleSpec, PreviewTypes, PTL

\* One signed token is live for a sandbox and port: createSignedPreviewToken deletes the
\* old one and saves the new one with an await between.  Nothing else that clients do,
\* serialised or not, comes in between: only a second handler that signs the same port.
THEOREM SingleToken == PSpec /\ []~RivalSigns => []OneTokenPerPort
<1>1. PInit => SignInv
  BY DEF PInit, Init, Idle, SignInv, OneTokenPerPort, Cleared
<1>2. TypeInv /\ ~RivalSigns /\ PTypeOK /\ SignInv /\ [PNext]_allvars => SignInv'
  BY SignNext
<1>3. SignInv => OneTokenPerPort
  BY DEF SignInv
<1>4. Spec => []TypeInv
  BY InitType, NextType, PTL DEF Spec
<1> QED
  BY PreviewTypes, LifecycleSpec, <1>1, <1>2, <1>3, <1>4, PTL DEF PSpec, allvars

--------------------------------------------------------------------------------
(* Tokens go with their runtime. *)

InTable(s) == \E i \in Ids : rows[i] # NoRow /\ rows[i].sid = s

GoInv ==
  \A c \in signed : c.sid \notin cut =>
    /\ InTable(c.sid) \/ \E r \in Reqs : Deleted(r, c.sid)
    /\ \A r \in Reqs : req[r].pc = "lease1" => c.sid # req[r].ent.sid

LEMMA FoundById == ASSUME NEW s PROVE BySandboxId(s) # {} <=> InTable(s)
  BY DEF BySandboxId, Rows, InTable

\* A sandbox stays in the table until the handler that deletes it has dropped its row,
\* and from then on that handler is there until it drops the tokens.
LEMMA StaysKnown ==
  ASSUME ExclusiveInv, NEW r \in Reqs, Step(r), NEW s,
         InTable(s) \/ \E q \in Reqs : Deleted(q, s)
  PROVE  \/ InTable(s)' \/ \E q \in Reqs : Deleted(q, s)'
         \/ req[r].pc = "dropTokens" /\ req[r].ent.sid = s
<1> DEFINE h == req[r]
           g == req'[r]
<1>0. /\ rows \in [Ids -> Entity \cup {NoRow}] /\ HandlerOK(h) /\ Owned(h)
      /\ h.pc \in OwnerPcs => h.ent.id \in Ids /\ rows[h.ent.id] # NoRow /\ rows[h.ent.id].sid = h.ent.sid
  BY Phases DEF ExclusiveInv, TypeInv, TypeOK, HandlerOK, Owned, Entity
<1>1. \/ Outside(h, g) \/ Finds(h, g) \/ Creates(h, g) \/ Proceeds(h, g) \/ Allocates(h, g)
      \/ Tries(h, g) \/ Binds(h, g) \/ Boots(h, g) \/ Checks(h, g)
  BY HandlerStep
<1>2. /\ h.pc = "dropRow" => g.pc = "dropLeases" /\ g.ent = h.ent
      /\ h.pc = "dropLeases" => g.pc = "dropTokens" /\ g.ent = h.ent
  BY <1>1, Phases DEF Outside, Finds, Creates, Proceeds, Allocates, Tries, Binds, Boots, Checks
<1>3. CASE InTable(s)
  <2>1. PICK i \in Ids : rows[i] # NoRow /\ rows[i].sid = s
    BY <1>3 DEF InTable
  <2>2. CASE UNCHANGED rows
    BY <2>1, <2>2 DEF InTable
  <2>3. CASE Inserts(r)
    <3>1. rows'[i] = rows[i]
      BY <1>0, <2>1, <2>3 DEF Inserts, Fresh
    <3> QED
      BY <2>1, <3>1 DEF InTable
  <2>4. ASSUME NEW e \in Entity, Saves(r, e) PROVE InTable(s)'
    <3>1. h.pc \in OwnerPcs /\ e.sid = h.ent.sid /\ rows' = [rows EXCEPT ![h.ent.id] = e]
      BY <2>4, Phases DEF Saves
    <3>2. rows'[i] # NoRow /\ rows'[i].sid = s
      BY <1>0, <2>1, <3>1, NullsAssumption
    <3> QED
      BY <3>2 DEF InTable
  <2>5. CASE Drops(r)
    <3>1. CASE i = h.ent.id
      BY <1>0, <1>2, <2>1, <2>5, <3>1, Phases DEF Drops, Deleted, Releasing
    <3>2. CASE i # h.ent.id
      BY <1>0, <2>1, <2>5, <3>2 DEF Drops, InTable
    <3> QED
      BY <3>1, <3>2
  <2> QED
    BY <2>2, <2>3, <2>4, <2>5, RowStep
<1>4. ASSUME NEW q \in Reqs, Deleted(q, s) PROVE Deleted(q, s)' \/ (h.pc = "dropTokens" /\ h.ent.sid = s)
  <2>1. CASE q = r
    BY <1>2, <1>4, <2>1 DEF Deleted, Releasing
  <2>2. CASE q # r
    BY <1>4, <2>2, OthersKept DEF Deleted, Releasing
  <2> QED
    BY <2>1, <2>2
<1> QED
  BY <1>3, <1>4

\* A handler that inserts the row of a sandbox finds none, and nobody deleting it.
LEMMA StartsUnknown ==
  ASSUME ExclusiveInv, NEW r \in Reqs, Step(r), req'[r].pc = "lease1", req[r].pc # "lease1"
  PROVE  LET s == req'[r].ent.sid IN ~InTable(s) /\ \A q \in Reqs : ~Deleted(q, s)
<1> DEFINE h == req[r]
           g == req'[r]
<1>1. h.pc = "insert"
  <2>1. \/ Outside(h, g) \/ Finds(h, g) \/ Creates(h, g) \/ Proceeds(h, g) \/ Allocates(h, g)
        \/ Tries(h, g) \/ Binds(h, g) \/ Boots(h, g) \/ Checks(h, g)
    BY HandlerStep
  <2> QED
    BY <2>1, Phases DEF Outside, Finds, Creates, Proceeds, Allocates, Tries, Binds, Boots, Checks
<1>2. Inserts(r)
  BY <1>1, RowStep DEF Refused, Idle, Saves, Drops
<1>3. ~InTable(g.ent.sid)
  BY <1>2 DEF Inserts, Savable, Fresh, InTable
<1>4. ASSUME NEW q \in Reqs, Deleted(q, g.ent.sid) PROVE FALSE
  <2>1. g.ent.sid \in h.foot
    BY <1>1, <1>2 DEF Inserts, ExclusiveInv, TypeInv, HandlerOK
  <2>2. g.ent.sid \in req[q].foot /\ q # r
    BY <1>1, <1>4, Phases DEF Deleted, Releasing, ExclusiveInv, Owned
  <2> QED
    BY <2>1, <2>2 DEF ExclusiveInv, Separate
<1> QED
  BY <1>3, <1>4

\* A step of a handler that adds no token.
LEMMA GoStep ==
  ASSUME ExclusiveInv, GoInv, NEW r \in Reqs, Step(r), signed' \subseteq signed, UNCHANGED cut,
         req[r].pc = "dropTokens" => signed' = WithoutSandbox(req[r].ent.sid)
  PROVE  GoInv'
<1> SUFFICES ASSUME NEW c \in signed', c.sid \notin cut
             PROVE  /\ InTable(c.sid)' \/ \E q \in Reqs : Deleted(q, c.sid)'
                    /\ \A q \in Reqs : req'[q].pc = "lease1" => c.sid # req'[q].ent.sid
  BY DEF GoInv
<1>1. /\ InTable(c.sid) \/ \E q \in Reqs : Deleted(q, c.sid)
      /\ \A q \in Reqs : req[q].pc = "lease1" => c.sid # req[q].ent.sid
  BY DEF GoInv
<1>2. ~(req[r].pc = "dropTokens" /\ req[r].ent.sid = c.sid)
  BY DEF WithoutSandbox
<1>3. ASSUME req'[r].pc = "lease1" PROVE c.sid # req'[r].ent.sid
  <2>1. CASE req[r].pc = "lease1"
    <3>1. req'[r].ent = req[r].ent
      BY <1>3, <2>1, HandlerStep, Phases
         DEF Outside, Finds, Creates, Proceeds, Allocates, Tries, Binds, Boots, Checks
    <3> QED
      BY <1>1, <2>1, <3>1
  <2>2. CASE req[r].pc # "lease1"
    BY <1>1, <1>3, <2>2, StartsUnknown
  <2> QED
    BY <2>1, <2>2
<1> QED
  BY <1>1, <1>2, <1>3, StaysKnown, OthersKept

LEMMA GoNext == Exclusive /\ ExclusiveInv /\ PTypeOK /\ GoInv /\ [PNext]_allvars => GoInv'
<1> SUFFICES ASSUME Exclusive, ExclusiveInv, PTypeOK, GoInv, [PNext]_allvars PROVE GoInv'
  OBVIOUS
<1>0. TypeInv
  BY DEF ExclusiveInv
<1>1. ASSUME NEW r \in Reqs, Provision(r) \/ Command(r), UNCHANGED pvars PROVE GoInv'
  <2>1. req[r].pc # "dropTokens"
    BY <1>1 DEF Provision, Command, At, CheckConflict, LoadForUpdate, CheckName, Lookup, Probe, SyncFiles,
       KeepExisting, Replace, Insert, TryPort, Leased, LeaseShort, Boot, BootFails, Health, Persist,
       Find, SyncStatus, SyncSave, Start, Stop, Exec, SaveStatus, MarkDeleting, Remove, ReleasePorts,
       DropRow, DropLeases
  <2> QED
    BY <1>1, <2>1, GoStep DEF Step, pvars
\* Nobody who is deleting or inserting comes or goes.
<1>2. ASSUME signed' \subseteq signed, UNCHANGED <<rows, cut>>,
             \A q \in Reqs : req'[q] = req[q] \/ (req[q].pc = "idle" /\ req'[q].pc \in SearchPcs)
      PROVE  GoInv'
  BY <1>2 DEF GoInv, InTable, Deleted, Releasing, SearchPcs
<1>3. ASSUME Crash, UNCHANGED signed, cut' = cut \cup {s \in Sids : \E r \in Reqs : Releasing(r, s)}
      PROVE  GoInv'
  <2>1. UNCHANGED rows /\ \A r \in Reqs : req'[r].pc = "idle"
    BY <1>3 DEF Crash, Idle
  <2>2. ASSUME NEW c \in signed, c.sid \notin cut' PROVE c.sid \notin cut /\ InTable(c.sid)
    BY <1>3, <2>2 DEF GoInv, Deleted, PTypeOK, Record
  <2> QED
    BY <1>3, <2>1, <2>2 DEF GoInv, InTable
<1>4. ASSUME NEW r \in Reqs, Accept(r), UNCHANGED pvars PROVE GoInv'
  BY <1>0, <1>2, <1>4, Arrival DEF pvars, SearchPcs
<1>5. ASSUME NEW x \in Proxied, Proxy(x) PROVE GoInv'
  BY <1>2, <1>5 DEF Proxy, ReadSigned, Purge, LookupSigned, Direct, Done, vars
<1>6. ASSUME NEW r \in Reqs, Preview(r) PROVE GoInv'
  <2>0. Step(r) /\ UNCHANGED <<rows, cut>>
    BY <1>0, <1>6, PreviewStep DEF Preview, Clear, Issue, ReadToken, ExpireToken, DropTokens, Step
  <2>1. CASE Clear(r) \/ ReadToken(r) \/ ExpireToken(r)
    <3>1. signed' \subseteq signed /\ req[r].pc # "dropTokens"
      BY <2>1 DEF Clear, ReadToken, ExpireToken, ClearOld, At, pvars
    <3> QED
      BY <2>0, <3>1, GoStep
  <2>2. CASE DropTokens(r)
    BY <2>0, <2>2, GoStep DEF DropTokens, WithoutSandbox
  <2>3. CASE Issue(r)
    <3> DEFINE e == req[r].ent
    <3>1. PICK t \in Tokens : signed' = signed \cup {[token |-> t, sid |-> e.sid, port |-> arg[r].port]}
      BY <2>3 DEF Issue
    <3>2. req[r].pc = "issue" /\ req'[r].pc \notin {"lease1", "issue"}
      BY <1>0, <1>6, <2>3, PreviewStep DEF Issue, Idle
    <3>3. e.sid \in req[r].foot /\ InTable(e.sid)
      BY <3>2, Phases DEF ExclusiveInv, TypeInv, HandlerOK, Owned, Entity, InTable
    <3>4. \A q \in Reqs \ {r} : req'[q] = req[q]
      BY <2>0, OthersKept
    <3>5. ASSUME NEW q \in Reqs, req'[q].pc = "lease1" PROVE req[q].pc = "lease1" /\ req'[q] = req[q] /\ e.sid # req[q].ent.sid
      <4>1. q # r /\ req'[q] = req[q] /\ req[q].ent.sid \in req[q].foot
        BY <3>2, <3>4, <3>5, Phases DEF ExclusiveInv, Owned
      <4> QED
        BY <3>3, <3>5, <4>1 DEF ExclusiveInv, Separate
    <3>6. ASSUME NEW c \in signed, c.sid \notin cut
          PROVE  /\ InTable(c.sid)' \/ \E q \in Reqs : Deleted(q, c.sid)'
                 /\ \A q \in Reqs : req'[q].pc = "lease1" => c.sid # req'[q].ent.sid
      <4>1. InTable(c.sid) \/ \E q \in Reqs \ {r} : Deleted(q, c.sid)
        BY <3>2, <3>6 DEF GoInv, Deleted, Releasing
      <4> QED
        BY <2>0, <3>4, <3>5, <3>6, <4>1 DEF GoInv, InTable, Deleted, Releasing
    <3>7. ASSUME NEW s, InTable(s) PROVE InTable(s)'
      BY <2>0, <3>7 DEF InTable
    <3>8. ASSUME NEW c, c.sid = e.sid
          PROVE  InTable(c.sid)' /\ \A q \in Reqs : req'[q].pc = "lease1" => c.sid # req'[q].ent.sid
      <4>1. InTable(c.sid)'
        BY <3>3, <3>7, <3>8
      <4>2. \A q \in Reqs : req'[q].pc = "lease1" => c.sid # req'[q].ent.sid
        BY <3>5, <3>8
      <4> QED
        BY <4>1, <4>2
    <3>9. ASSUME NEW c \in signed', c.sid \notin cut PROVE c \in signed \/ c.sid = e.sid
      BY <3>1, <3>9
    <3> HIDE DEF e
    <3> QED
      BY <2>0, <3>6, <3>8, <3>9 DEF GoInv
  <2> QED
    BY <1>6, <2>1, <2>2, <2>3 DEF Preview
<1>7. CASE Lifecycle
  <2>1. CASE UNCHANGED pvars /\ \E s \in Sids : VmStops(s)
    BY <1>2, <2>1 DEF VmStops, pvars
  <2> QED
    BY <1>1, <1>3, <1>4, <1>7, <2>1 DEF Lifecycle
<1>8. CASE UNCHANGED allvars
  BY <1>2, <1>8 DEF allvars, vars, pvars
<1> QED
  BY <1>5, <1>6, <1>7, <1>8 DEF PNext

\* A signed token opens the runtime it was signed for and no later one of the same
\* sandboxId: deleteRuntime drops it in its last call, after the row, and nobody can sign
\* or insert in between.  Only a process that dies between those calls leaves it behind.
THEOREM TokensFollowRuntime == Exclusive => (PSpec => []TokensGoWithRuntime)
<1> SUFFICES ASSUME Exclusive PROVE PSpec => []TokensGoWithRuntime
  OBVIOUS
<1>1. PInit => GoInv
  BY DEF PInit, GoInv
<1>2. ExclusiveInv /\ PTypeOK /\ GoInv /\ [PNext]_allvars => GoInv'
  BY GoNext
<1>3. GoInv => TokensGoWithRuntime
  BY FoundById DEF GoInv, TokensGoWithRuntime
<1> QED
  BY PreviewOwnership, <1>1, <1>2, <1>3, PTL DEF PSpec, allvars

--------------------------------------------------------------------------------
(* The proxy. *)

\* Whichever VM publishes the host port of a binding is the one of the binding's
\* runtime: both runtimes would have the lease.
LEMMA PublishesOwn ==
  ASSUME ExclusiveInv, BindingsInv, LeasedInv, VmsLeased, ~MayMiss, NEW e \in Rows, e.status # "deleting",
         NEW k \in DOMAIN e.ports, NEW s \in Publishing(e.ports[k])
  PROVE  s = e.sid
<1>1. e.id \in Ids /\ rows[e.id] = e /\ e # NoRow
  BY RowById DEF ExclusiveInv
<1>2. leases[e.ports[k]] = e.id
  BY <1>1, BoundHeld DEF BoundPortsLeased
<1>3. PICK j \in DOMAIN vms[s].ports : s \in Sids /\ vms[s].st = "running" /\ vms[s].ports[j] = e.ports[k]
  BY DEF Publishing
<1>4. PICK i \in Ids : rows[i] # NoRow /\ rows[i].sid = s
  BY <1>3, OrphanVm DEF ExclusiveInv
<1>5. leases[vms[s].ports[j]] = i
  BY <1>3, <1>4 DEF VmsLeased, VmHolds, Holds
<1> QED
  BY <1>1, <1>2, <1>3, <1>4, <1>5

\* A proxied request reaches the sandbox it names, or one that is being deleted, whose
\* ports are free for others while its row can still be found.  The proxy is serialised
\* with nobody; the sandboxes' own requests are.  Boots and removals may fail and the
\* process may die, but not between releasePorts and deleteRuntime; Sandbox.get finds what
\* exists, and leasePorts does not run short for a runtime with bindings or a VM.
THEOREM ProxyReaches ==
  Exclusive /\ ~MayMiss =>
    (PSpec /\ []~ShortReplacement /\ [][~CutDelete]_vars => ProxyReachesSandbox)
<1> SUFFICES ASSUME Exclusive, ~MayMiss
             PROVE  PSpec /\ []~ShortReplacement /\ [][~CutDelete]_vars => ProxyReachesSandbox
  OBVIOUS
<1> DEFINE Reaches(x) ==
      LET q == proxy'[x] IN
      proxy[x].pc # "forwarded" /\ q.pc = "forwarded" =>
        \/ q.peer = q.sid
        \/ q.sid \in cut
        \/ \E e \in BySandboxId(q.sid) : e.status = "deleting"
<1> DEFINE I == ExclusiveInv /\ BindingsInv /\ LeasedInv /\ VmsLeased
<1>1. ASSUME I, PTypeOK, [PNext]_allvars, NEW x \in Proxied PROVE Reaches(x)
  <2>1. ASSUME NEW e \in Rows, NEW k, Forward(x, e, k) PROVE Reaches(x)
    <3>1. CASE Advance(x, NoRequest)
      BY <1>1, <3>1 DEF Advance, NoRequest, PTypeOK
    <3>2. ASSUME NEW j \in Binding(e, k), NEW s \in Publishing(e.ports[j]),
                 Advance(x, [NoRequest EXCEPT !.pc = "forwarded", !.sid = e.sid, !.peer = s])
          PROVE  Reaches(x)
      <4>1. proxy'[x].sid = e.sid /\ proxy'[x].peer = s
        BY <1>1, <3>2 DEF Advance, NoRequest, PTypeOK
      <4>2. e.status = "deleting" \/ s = e.sid
        BY <1>1, <3>2, PublishesOwn DEF Binding
      <4> QED
        BY <4>1, <4>2 DEF BySandboxId
    <3> QED
      BY <2>1, <3>1, <3>2 DEF Forward
  <2>2. ASSUME NEW q, Advance(x, q), q.pc # "forwarded" PROVE Reaches(x)
    BY <1>1, <2>2 DEF Advance, PTypeOK
  <2>3. ASSUME NEW y \in Proxied, Proxy(y) PROVE Reaches(x)
    <3>1. CASE y # x
      <4>1. \E q : Advance(y, q)
        BY <2>3 DEF Proxy, ReadSigned, Purge, LookupSigned, Direct, Done, Forward
      <4> QED
        BY <1>1, <3>1, <4>1 DEF Advance, PTypeOK
    <3>2. CASE ReadSigned(x)
      BY <2>2, <3>2 DEF ReadSigned, NoRequest
    <3>3. CASE Purge(x) \/ Done(x)
      BY <2>2, <3>3 DEF Purge, Done, NoRequest
    <3>4. CASE LookupSigned(x)
      BY <2>1, <2>2, <3>4 DEF LookupSigned, BySandboxIdOrName, NoRequest
    <3>5. CASE Direct(x)
      BY <2>1, <3>5 DEF Direct, BySandboxIdOrName
    <3> QED
      BY <2>3, <3>1, <3>2, <3>3, <3>4, <3>5 DEF Proxy
  <2>4. CASE Lifecycle
    BY <2>4 DEF Lifecycle, pvars, NoRequest
  <2>5. CASE \E r \in Reqs : Preview(r)
    BY <2>5 DEF Preview, Clear, Issue, ReadToken, ExpireToken, DropTokens, pvars
  <2>6. CASE UNCHANGED allvars
    BY <2>6 DEF allvars, pvars
  <2> QED
    BY <1>1, <2>3, <2>4, <2>5, <2>6 DEF PNext
<1>2. I /\ PTypeOK /\ [PNext]_allvars => [\A x \in Proxied : Reaches(x)]_allvars
  BY <1>1
<1> HIDE DEF Reaches
<1>3. [][\A x \in Proxied : Reaches(x)]_allvars => ProxyReachesSandbox
  BY DEF Reaches, ProxyReachesSandbox, allvars
<1> QED
  BY PublishedLeased, LifecycleSpec, PreviewTypes, <1>2, <1>3, PTL DEF PSpec, allvars
=============================================================================
