---------------------------- MODULE PreviewAccess ----------------------------
(***************************************************************************)
(* Preview URLs: the table of signed preview tokens                        *)
(* (RuntimeRegistryService), the routes that sign and expire a URL         *)
(* (RuntimeControlService), and the proxy (ProxyService), composed with    *)
(* the sandbox lifecycle: signing and expiring are handlers of             *)
(* RuntimeControl, whose TokenCall steps act on the table here, and        *)
(* deleting a sandbox clears its tokens.                                   *)
(*                                                                         *)
(* Proxied requests come from anyone and are never serialised with the     *)
(* requests of the clients.                                                *)
(***************************************************************************)
EXTENDS RuntimeControl

CONSTANTS
  Tokens,    \* the random strings
  CPorts,    \* container ports
  Proxied,   \* requests that may be in flight in the proxy
  NoToken

ASSUME PreviewAssumption == CPorts \subseteq Nat \ {0} /\ NoToken \notin Tokens

\* SignedPreviewTokenEntity, without its expiry time
Record == [token : Tokens, sid : Sids, port : CPorts]

VARIABLES
  signed,   \* the signed_preview_tokens table
  arg,      \* the port, and the token, a signing or expiring handler goes on with
  proxy,    \* the requests in the proxy
  cut       \* history: sandboxIds whose deletion a crash has cut short

pvars == <<signed, arg, proxy, cut>>

NoArg == [token |-> NoToken, port |-> 0]
Arg   == [token : Tokens \cup {NoToken}, port : CPorts \cup {0}]

\* A proxied request: the await it is at, its token and port, the sandbox it is for,
\* and, once it is forwarded, the sandbox whose VM answers.
Request == [pc : {"idle", "purge", "lookup", "forwarded"}, arg : Arg,
            sid : Sids \cup {NoName}, peer : Sids \cup {NoName}]
NoRequest == [pc |-> "idle", arg |-> NoArg, sid |-> NoName, peer |-> NoName]

PInit == /\ Init
         /\ signed = {}
         /\ arg = [r \in Reqs |-> NoArg]
         /\ proxy = [x \in Proxied |-> NoRequest]
         /\ cut = {}

\* The record of a token and a port: findOneBy({ token, port }).
RecordOf(t, k) == {c \in signed : c.token = t /\ c.port = k}

\* Mutant of Held: the handler goes on without the port it has checked.
Held_Lost(r, a) == UNCHANGED arg

Held(r, a) == arg' = [arg EXCEPT ![r] = a]

--------------------------------------------------------------------------------
(* Signing and expiring a preview URL. *)

\* Mutant of ClearOld: the older token of the port stays.
ClearOld_Kept(sid, k) == signed

\* findBinding: the first binding of the container port.
Binding(e, k) == {j \in DOMAIN e.ports : e.ctr[j] = k /\ \A i \in 1 .. j - 1 : e.ctr[i] # k}

\* createSignedPreviewToken deletes the token the sandbox's port has,
ClearOld(sid, k) == {c \in signed : ~(c.sid = sid /\ c.port = k)}

\* after findBinding has found the port bound,
Clear(r) ==
  /\ At(r, {"sign"}, "act") /\ TokenCall(r)
  /\ \/ req'[r].pc = "idle" /\ UNCHANGED pvars
     \/ \E k \in CPorts :
          /\ Binding(req[r].ent, k) # {} /\ req'[r].pc = "issue"
          /\ signed' = ClearOld(req[r].ent.sid, k)
          /\ Held(r, [NoArg EXCEPT !.port = k])
          /\ UNCHANGED <<proxy, cut>>

\* and saves a new one, which nobody has seen.
Issue(r) ==
  /\ req[r].pc = "issue" /\ TokenCall(r)
  /\ \E t \in Tokens :
       /\ \A c \in signed : c.token # t
       /\ \A q \in Reqs : arg[q].token # t
       /\ signed' = signed \cup {[token |-> t, sid |-> req[r].ent.sid, port |-> arg[r].port]}
  /\ Held(r, NoArg)
  /\ UNCHANGED <<proxy, cut>>

\* expireSignedPreviewUrl: the token must exist and be one of this sandbox.
ReadToken(r) ==
  /\ req[r].pc = "readToken" /\ TokenCall(r)
  /\ \/ req'[r].pc = "idle" /\ UNCHANGED pvars
     \/ \E c \in signed :
          /\ c.sid = req[r].ent.sid
          /\ req'[r].pc = "expireToken"
          /\ Held(r, [token |-> c.token, port |-> c.port])
          /\ UNCHANGED <<signed, proxy, cut>>

ExpireToken(r) ==
  /\ req[r].pc = "expireToken" /\ TokenCall(r)
  /\ signed' = signed \ RecordOf(arg[r].token, arg[r].port)
  /\ Held(r, NoArg)
  /\ UNCHANGED <<proxy, cut>>

\* Mutant of WithoutSandbox: deleteRuntime leaves the tokens to their expiry.
WithoutSandbox_Kept(sid) == signed

\* The last call of deleteRuntime, by sandboxId.
WithoutSandbox(sid) == {c \in signed : c.sid # sid}

DropTokens(r) ==
  /\ req[r].pc = "dropTokens" /\ TokenCall(r)
  /\ signed' = WithoutSandbox(req[r].ent.sid)
  /\ UNCHANGED <<arg, proxy, cut>>

--------------------------------------------------------------------------------
(* The proxy. *)

Advance(x, q) == proxy' = [proxy EXCEPT ![x] = q]

\* resolveSignedPreviewToken reads the record; one that has expired (any may have, the
\* clock is left out) is deleted, below, and refused.
ReadSigned(x) ==
  /\ proxy[x].pc = "idle"
  /\ \E c \in signed :
       \/ Advance(x, [NoRequest EXCEPT !.pc = "purge", !.arg = [token |-> c.token, port |-> c.port]])
       \/ Advance(x, [NoRequest EXCEPT !.pc = "lookup", !.arg = [NoArg EXCEPT !.port = c.port], !.sid = c.sid])
  /\ UNCHANGED <<vars, signed, arg, cut>>

Purge(x) ==
  /\ proxy[x].pc = "purge"
  /\ signed' = signed \ RecordOf(proxy[x].arg.token, proxy[x].arg.port)
  /\ Advance(x, NoRequest)
  /\ UNCHANGED <<vars, arg, cut>>

\* resolveProxyTarget and the forward that follows without an await: to whichever VM
\* publishes the host port of the binding, or nowhere (no binding, 502).  The status
\* of the row is not looked at.
Forward(x, e, k) ==
  \/ \E j \in Binding(e, k) : \E s \in Publishing(e.ports[j]) :
       Advance(x, [NoRequest EXCEPT !.pc = "forwarded", !.sid = e.sid, !.peer = s])
  \/ /\ \A j \in Binding(e, k) : Publishing(e.ports[j]) = {}
     /\ Advance(x, NoRequest)

\* The sandboxId of the record is looked up like any key.
LookupSigned(x) ==
  LET q == proxy[x] IN
  /\ q.pc = "lookup"
  /\ \/ BySandboxIdOrName(q.sid) = {} /\ Advance(x, NoRequest)
     \/ \E e \in BySandboxIdOrName(q.sid) : Forward(x, e, q.arg.port)
  /\ UNCHANGED <<vars, signed, arg, cut>>

\* validateProxyAccessBySandbox, for a public sandbox or with its own token.
Direct(x) ==
  /\ proxy[x].pc = "idle"
  /\ \E s \in Sids, k \in CPorts : \E e \in BySandboxIdOrName(s) : Forward(x, e, k)
  /\ UNCHANGED <<vars, signed, arg, cut>>

\* The response has been sent.
Done(x) ==
  /\ proxy[x].pc = "forwarded"
  /\ Advance(x, NoRequest)
  /\ UNCHANGED <<vars, signed, arg, cut>>

--------------------------------------------------------------------------------

\* The handler is deleting the sandbox and is past the release of its ports; past its row.
Releasing(r, s) == req[r].pc \in {"dropRow", "dropLeases", "dropTokens"} /\ req[r].ent.sid = s
Deleted(r, s)   == Releasing(r, s) /\ req[r].pc # "dropRow"

\* The steps of RuntimeControl that do not touch the tokens; a crash forgets the
\* handlers and the proxied requests.  It is bounded to one, which cuts a deletion short.
Lifecycle ==
  \/ /\ (\E r \in Reqs : Accept(r) \/ Provision(r) \/ Command(r)) \/ (\E s \in Sids : VmStops(s))
     /\ UNCHANGED pvars
  \/ /\ Crash
     /\ cut = {} /\ \E r \in Reqs, s \in Sids : Releasing(r, s)
     /\ arg' = [r \in Reqs |-> NoArg] /\ proxy' = [x \in Proxied |-> NoRequest]
     /\ cut' = cut \cup {s \in Sids : \E r \in Reqs : Releasing(r, s)}
     /\ UNCHANGED signed

Preview(r) == Clear(r) \/ Issue(r) \/ ReadToken(r) \/ ExpireToken(r) \/ DropTokens(r)
Proxy(x)   == ReadSigned(x) \/ Purge(x) \/ LookupSigned(x) \/ Direct(x) \/ Done(x)

PNext == Lifecycle \/ (\E r \in Reqs : Preview(r)) \/ (\E x \in Proxied : Proxy(x))

PSpec == PInit /\ [][PNext]_<<vars, pvars>>
--------------------------------------------------------------------------------
(* Properties. *)

\* Every variable has its type, and a handler about to save or expire a token has its
\* port.
PTypeOK ==
  /\ signed \subseteq Record
  /\ arg \in [Reqs -> Arg]
  /\ proxy \in [Proxied -> Request]
  /\ cut \subseteq Sids
  /\ \A r \in Reqs : req[r].pc \in {"issue", "expireToken"} => arg[r].port \in CPorts

\* One signed token is live for a sandbox and port (createSignedPreviewToken replaces
\* by a delete and an insert, with an await between).
OneTokenPerPort == \A c, d \in signed : c.sid = d.sid /\ c.port = d.port => c = d

\* A token opens the runtime it was signed for and no later one of the same sandboxId:
\* it goes with its runtime, at the latest in the last call of deleteRuntime, and a new
\* runtime starts without one.  Only a process that dies between those calls leaves
\* tokens behind.
TokensGoWithRuntime ==
  \A c \in signed : c.sid \notin cut =>
    /\ BySandboxId(c.sid) # {} \/ \E r \in Reqs : Deleted(r, c.sid)
    /\ \A r \in Reqs : req[r].pc = "lease1" => c.sid # req[r].ent.sid

\* A proxied request reaches the sandbox it names, unless that is being deleted: the
\* ports are free for others while the row is still there to be found.  A deletion cut
\* short leaves such a row, and the next syncStatus takes even its mark away.
ProxyReachesSandbox ==
  [][\A x \in Proxied : LET q == proxy'[x] IN
       proxy[x].pc # "forwarded" /\ q.pc = "forwarded" =>
         \/ q.peer = q.sid
         \/ q.sid \in cut
         \/ \E e \in BySandboxId(q.sid) : e.status = "deleting"]_<<vars, pvars>>
=============================================================================
