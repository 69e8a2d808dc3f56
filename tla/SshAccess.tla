------------------------------ MODULE SshAccess ------------------------------
(***************************************************************************)
(* SSH access to sandboxes: the session tokens of the API                  *)
(* (SshSessionService, SshController), which live in the memory of the API *)
(* process, the table of revoked tokens, which survives it, and the        *)
(* gateway (ssh-gateway/main.go), which validates the token of a           *)
(* connection over HTTP, dials the host port the session recorded and      *)
(* closes the connection on time.                                          *)
(*                                                                         *)
(* Time is discrete; Poll and MinSleep are the 5 s and the 500 ms of       *)
(* enforceSessionLimits.  The runtime table appears only as the host port  *)
(* of each sandbox's SSH binding: RuntimeControl has the rest.             *)
(***************************************************************************)
EXTENDS Integers

CONSTANTS
  Sandboxes, HostPorts, Tokens,
  Conns,        \* connections to the gateway
  Ttls,         \* lifetimes clients ask for
  IdleTimeout,  \* SSH_IDLE_TIMEOUT_SECONDS; 0 is never
  Poll, MinSleep,
  MaxTime,      \* bound: when the clock stops
  NoPort, NoToken, NoEntry, NoPeer

ASSUME TimesAssumption ==
  /\ Ttls \subseteq Nat /\ IdleTimeout \in Nat /\ MaxTime \in Nat
  /\ Poll \in Nat \ {0} /\ MinSleep \in Nat \ {0}

\* SessionEntry
Entry == [sid : Sandboxes, port : HostPorts, exp : Nat]

ASSUME NullAssumption == NoEntry \notin Entry /\ NoToken \notin Tokens

VARIABLES
  now,
  ssh,       \* the host port of each sandbox's SSH binding
  sessions,  \* the sessions map of the API process
  revoked,   \* the revoked_sessions table
  revoking,  \* tokens whose revokeSession awaits the save
  conns,     \* the gateway's connections
  issued,    \* history: the session each token was given
  dead       \* history: tokens being or been revoked, or older than the API process

api  == <<sessions, revoked, revoking>>
hist == <<issued, dead>>
vars == <<now, ssh, api, conns, hist>>

\* A connection: the await it is at, its token, the session it was answered with,
\* the sandbox it is connected to, its last traffic and its next limit check.
Conn == [pc : {"free", "check", "get", "answered", "dial", "open"}, token : Tokens \cup {NoToken},
         entry : Entry \cup {NoEntry}, peer : Sandboxes \cup {NoPeer}, last : Nat, wake : Nat]
Free == [pc |-> "free", token |-> NoToken, entry |-> NoEntry, peer |-> NoPeer, last |-> 0, wake |-> 0]

Init == /\ now = 0
        /\ ssh = [s \in Sandboxes |-> NoPort]
        /\ sessions = [t \in Tokens |-> NoEntry]
        /\ revoked = {} /\ revoking = {}
        /\ conns = [c \in Conns |-> Free]
        /\ issued = [t \in Tokens |-> NoEntry]
        /\ dead = {}

Become(c, k) == conns' = [conns EXCEPT ![c] = k]
Close(c)     == Become(c, Free)
Goto(c, pc)  == Become(c, [conns[c] EXCEPT !.pc = pc])

--------------------------------------------------------------------------------
(* The API. *)

\* Mutant of Pruned: a session is dropped at its expiry, not after it.
Pruned_Early(m) == [t \in Tokens |-> IF m[t] # NoEntry /\ now >= m[t].exp THEN NoEntry ELSE m[t]]

\* pruneExpired
Pruned(m) == [t \in Tokens |-> IF m[t] # NoEntry /\ now > m[t].exp THEN NoEntry ELSE m[t]]

\* POST ssh-session: the expired sessions are pruned; the new one records the host
\* port the binding has at this moment.  Tokens are random: nobody has seen this one.
\* The clock bound leaves room for it to expire.
CreateSession(s, t, ttl) ==
  LET e == [sid |-> s, port |-> ssh[s], exp |-> now + ttl] IN
  /\ ssh[s] # NoPort
  /\ issued[t] = NoEntry /\ t \notin dead
  /\ \A c \in Conns : conns[c].token # t
  /\ now + ttl + MinSleep <= MaxTime
  /\ sessions' = [Pruned(sessions) EXCEPT ![t] = e]
  /\ issued' = [issued EXCEPT ![t] = e]
  /\ UNCHANGED <<now, ssh, revoked, revoking, conns, dead>>

\* Mutant of RevokeDelete: the session stays in the map.
RevokeDelete_Kept(t) ==
  /\ t \notin revoking
  /\ revoking' = revoking \cup {t}
  /\ dead' = dead \cup {t}
  /\ UNCHANGED <<now, ssh, sessions, revoked, conns, issued>>

\* DELETE ssh-session/:token, of any token: out of the map at once, then the table.
RevokeDelete(t) ==
  /\ t \notin revoking
  /\ sessions' = [sessions EXCEPT ![t] = NoEntry]
  /\ revoking' = revoking \cup {t}
  /\ dead' = dead \cup {t}
  /\ UNCHANGED <<now, ssh, revoked, conns, issued>>

\* The save fails on the UNIQUE hash, or on the database: the answer is then an error.
RevokeSave(t) ==
  /\ t \in revoking
  /\ revoking' = revoking \ {t}
  /\ \/ t \notin revoked /\ revoked' = revoked \cup {t}
     \/ UNCHANGED revoked
  /\ UNCHANGED <<now, ssh, sessions, conns, issued, dead>>

\* The API restarts: the sessions and the handlers are gone, the table is not, and
\* neither is the gateway.
Restart ==
  /\ sessions' = [t \in Tokens |-> NoEntry]
  /\ revoking' = {}
  /\ dead' = dead \cup {t \in Tokens : issued[t] # NoEntry}
  /\ conns' = [c \in Conns |-> IF conns[c].pc \in {"check", "get"} THEN Free ELSE conns[c]]
  /\ UNCHANGED <<now, ssh, revoked, issued>>

--------------------------------------------------------------------------------
(* The gateway. *)

\* A client connects with a token as its user name; the gateway calls ssh/validate.
Connect(c, t) ==
  /\ conns[c].pc = "free"
  /\ Become(c, [Free EXCEPT !.pc = "check", !.token = t])
  /\ UNCHANGED <<now, ssh, api, hist>>

\* isRevoked
CheckRevoked(c) ==
  /\ conns[c].pc = "check"
  /\ IF conns[c].token \in revoked THEN Close(c) ELSE Goto(c, "get")
  /\ UNCHANGED <<now, ssh, api, hist>>

\* Mutant of GetSession: no check that the map still has the session.
GetSession_Unchecked(c) ==
  /\ conns[c].pc = "get"
  /\ Become(c, [conns[c] EXCEPT !.pc = "answered", !.entry = sessions[conns[c].token]])
  /\ UNCHANGED <<now, ssh, api, hist>>

\* Mutant of GetSession: a session in the map is taken for a valid one.
GetSession_Expired(c) ==
  LET e == sessions[conns[c].token] IN
  /\ conns[c].pc = "get"
  /\ IF e = NoEntry THEN Close(c) ELSE Become(c, [conns[c] EXCEPT !.pc = "answered", !.entry = e])
  /\ UNCHANGED <<now, ssh, api, hist>>

\* The rest of validateSession, which runs when isRevoked has returned.
GetSession(c) ==
  LET t == conns[c].token
      e == sessions[t] IN
  /\ conns[c].pc = "get"
  /\ \/ e = NoEntry /\ Close(c) /\ UNCHANGED sessions
     \/ /\ e # NoEntry /\ now > e.exp
        /\ Close(c)
        /\ sessions' = [sessions EXCEPT ![t] = NoEntry]
     \/ /\ e # NoEntry /\ now <= e.exp
        /\ Become(c, [conns[c] EXCEPT !.pc = "answered", !.entry = e])
        /\ UNCHANGED sessions
  /\ UNCHANGED <<now, ssh, revoked, revoking, hist>>

\* The HTTP call fails or times out.
ValidateFails(c) ==
  /\ conns[c].pc \in {"check", "get", "answered"}
  /\ Close(c)
  /\ UNCHANGED <<now, ssh, api, hist>>

\* handleConnection checks the expiry on its own clock before it dials.
Receive(c) ==
  /\ conns[c].pc = "answered"
  /\ IF conns[c].entry.exp > now THEN Goto(c, "dial") ELSE Close(c)
  /\ UNCHANGED <<now, ssh, api, hist>>

\* gossh.Dial to the recorded port, any host key accepted: whichever sandbox's
\* daemon listens there takes the gateway's key.
Dial(c) ==
  /\ conns[c].pc = "dial"
  /\ \/ \E s \in Sandboxes :
          /\ ssh[s] = conns[c].entry.port
          /\ Become(c, [conns[c] EXCEPT !.pc = "open", !.peer = s, !.last = now, !.wake = now])
     \/ Close(c)
  /\ UNCHANGED <<now, ssh, api, hist>>

\* A byte or a request in either direction.
Touch(c) ==
  /\ conns[c].pc = "open"
  /\ Become(c, [conns[c] EXCEPT !.last = now])
  /\ UNCHANGED <<now, ssh, api, hist>>

Lesser(a, b)  == IF a <= b THEN a ELSE b
Greater(a, b) == IF a >= b THEN a ELSE b

\* Why enforceSessionLimits closes a connection.
Idled(k)   == IdleTimeout > 0 /\ now - k.last >= IdleTimeout
Expired(k) == now >= k.entry.exp

\* Mutant of Sleep: only the poll interval and the idle limit.
Sleep_Poll(k) ==
  Greater(MinSleep, IF IdleTimeout > 0 THEN Lesser(Poll, IdleTimeout - (now - k.last)) ELSE Poll)

\* How long it sleeps otherwise.
Sleep(k) ==
  LET poll == Lesser(Poll, k.entry.exp - now) IN
  Greater(MinSleep, IF IdleTimeout > 0 THEN Lesser(poll, IdleTimeout - (now - k.last)) ELSE poll)

\* Mutant of EnforceLimits: the absolute expiry is not looked at.
EnforceLimits_IdleOnly(c) ==
  /\ conns[c].pc = "open" /\ now >= conns[c].wake
  /\ IF Idled(conns[c]) THEN Close(c) ELSE Become(c, [conns[c] EXCEPT !.wake = now + Poll])
  /\ UNCHANGED <<now, ssh, api, hist>>

\* One turn of the enforceSessionLimits loop.
EnforceLimits(c) ==
  /\ conns[c].pc = "open" /\ now >= conns[c].wake
  /\ IF Expired(conns[c]) \/ Idled(conns[c]) THEN Close(c)
     ELSE Become(c, [conns[c] EXCEPT !.wake = now + Sleep(conns[c])])
  /\ UNCHANGED <<now, ssh, api, hist>>

\* The client leaves.
Leave(c) ==
  /\ conns[c].pc = "open"
  /\ Close(c)
  /\ UNCHANGED <<now, ssh, api, hist>>

--------------------------------------------------------------------------------
(* The sandboxes, and time. *)

\* The bridged connections to a sandbox break when its VM goes.
Hangup(s) == conns' = [c \in Conns |-> IF conns[c].peer = s THEN [conns[c] EXCEPT !.peer = NoPeer] ELSE conns[c]]

\* provision binds port 22 of a sandbox to a host port nobody holds: the first time,
\* or anew when the port list grows in front of it.
Bind(s, p) ==
  /\ \A u \in Sandboxes : ssh[u] # p
  /\ ssh' = [ssh EXCEPT ![s] = p]
  /\ Hangup(s)
  /\ UNCHANGED <<now, api, hist>>

\* delete removes the VM and releases its ports.
Unbind(s) ==
  /\ ssh[s] # NoPort
  /\ ssh' = [ssh EXCEPT ![s] = NoPort]
  /\ Hangup(s)
  /\ UNCHANGED <<now, api, hist>>

\* Time passes; a timer that is due runs first.
Tick ==
  /\ now < MaxTime
  /\ \A c \in Conns : conns[c].pc = "open" => now < conns[c].wake
  /\ now' = now + 1
  /\ UNCHANGED <<ssh, api, conns, hist>>

Sessions ==
  \/ \E s \in Sandboxes, t \in Tokens, ttl \in Ttls : CreateSession(s, t, ttl)
  \/ \E t \in Tokens : RevokeDelete(t) \/ RevokeSave(t)
  \/ Restart

Gateway(c) ==
  \/ \E t \in Tokens : Connect(c, t)
  \/ CheckRevoked(c) \/ GetSession(c) \/ ValidateFails(c) \/ Receive(c) \/ Dial(c)
  \/ Touch(c) \/ EnforceLimits(c) \/ Leave(c)

Environment == (\E s \in Sandboxes : Unbind(s) \/ \E p \in HostPorts : Bind(s, p)) \/ Tick

Next == Sessions \/ (\E c \in Conns : Gateway(c)) \/ Environment

Spec == Init /\ [][Next]_vars

\* Time passes and a timer that is due fires; no call, client or peer is relied on.
FairSpec == Spec /\ WF_vars(Tick) /\ \A c \in Conns : WF_vars(EnforceLimits(c))
--------------------------------------------------------------------------------
(* The abstract specification. *)

Granted == {"answered", "dial", "open"}

tokenState == [t \in Tokens |-> IF t \in dead THEN "dead" ELSE IF issued[t] = NoEntry THEN "new" ELSE "live"]
tokenExp   == [t \in Tokens |-> IF issued[t] = NoEntry THEN 0 ELSE issued[t].exp]
tokenHeld  == [c \in Conns |-> IF conns[c].pc \in Granted THEN conns[c].token ELSE NoToken]
openConns  == {c \in Conns : conns[c].pc = "open"}

Registry == INSTANCE SessionRegistry WITH
  Grace <- MinSleep, state <- tokenState, exp <- tokenExp, held <- tokenHeld, open <- openConns

\* Map, table, awaits, restarts and timers together grant only live tokens and cut
\* every connection in time: SessionRegistry is what a client sees of them.
ImplementsRegistry == Registry!Spec
--------------------------------------------------------------------------------
(* Properties. *)

\* Every variable has its type; a connection past validation has a session.
TypeOK ==
  /\ now \in Nat
  /\ ssh \in [Sandboxes -> HostPorts \cup {NoPort}]
  /\ sessions \in [Tokens -> Entry \cup {NoEntry}]
  /\ revoked \subseteq Tokens /\ revoking \subseteq Tokens
  /\ conns \in [Conns -> Conn]
  /\ \A c \in Conns : conns[c].pc # "free" => conns[c].token \in Tokens
  /\ \A c \in Conns : conns[c].pc \in {"answered", "dial", "open"} => conns[c].entry \in Entry
  /\ issued \in [Tokens -> Entry \cup {NoEntry}]
  /\ dead \subseteq Tokens

\* Once the revocation of a token has begun, or the API process it came from is gone,
\* ssh/validate never answers with it, even when it had looked at the table before
\* (validateSession awaits between the table and the map).
DeadNeverAnswered ==
  [][\A c \in Conns : conns[c].pc = "get" /\ conns'[c].pc = "answered" => conns[c].token \notin dead]_vars

\* A session is in the map until it has expired, is revoked or the process dies:
\* neither pruneExpired nor validateSession drops a live one.
LiveSessionsKept ==
  \A t \in Tokens : issued[t] # NoEntry /\ sessions[t] = NoEntry =>
    now > issued[t].exp \/ t \in dead

\* No connection is seen open MinSleep or more past its expiry, or past its idle
\* limit, whenever traffic comes (the sleeps of enforceSessionLimits).
ClosedInTime ==
  [][now' # now => \A c \in Conns : conns[c].pc = "open" =>
       /\ now' < conns[c].entry.exp + MinSleep
       /\ IdleTimeout > 0 => now' < conns[c].last + IdleTimeout + MinSleep]_vars

\* An open connection is closed in the end, whatever the client and the sandbox do.
EveryConnectionCloses == \A c \in Conns : conns[c].pc = "open" ~> conns[c].pc = "free"

\* A session leads to the sandbox it was created for.
ReachesOwnSandbox ==
  \A c \in Conns : conns[c].pc = "open" /\ conns[c].peer # NoPeer =>
    conns[c].peer = conns[c].entry.sid
=============================================================================
