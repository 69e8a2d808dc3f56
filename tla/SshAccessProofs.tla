--------------------------- MODULE SshAccessProofs ---------------------------
(***************************************************************************)
(* The session tokens and the gateway's time limits, for any number of     *)
(* tokens, connections and sandboxes and any durations.                    *)
(***************************************************************************)
EXTENDS SshAccess, TLAPS

\* A dead token has no session, and no other token has lost its session early.
TokenInv ==
  /\ TypeOK
  /\ \A t \in dead : sessions[t] = NoEntry
  /\ \A t \in Tokens : sessions[t] # NoEntry => issued[t] = sessions[t]
  /\ LiveSessionsKept

\* A connection that waits for its next limit check waits no longer than MinSleep
\* past either limit.
TimerInv ==
  \A c \in Conns : conns[c].pc = "open" =>
    /\ conns[c].last <= now
    /\ \/ conns[c].wake <= now
       \/ /\ conns[c].wake < conns[c].entry.exp + MinSleep
          /\ IdleTimeout > 0 => conns[c].wake < conns[c].last + IdleTimeout + MinSleep

\* A connection that moves on keeps the types.
LEMMA BecomeType ==
  ASSUME TypeOK, NEW c \in Conns, NEW k \in Conn, Become(c, k),
         k.pc # "free" => k.token \in Tokens,
         k.pc \in {"answered", "dial", "open"} => k.entry \in Entry
  PROVE  /\ conns' \in [Conns -> Conn]
         /\ \A d \in Conns : conns'[d].pc # "free" => conns'[d].token \in Tokens
         /\ \A d \in Conns : conns'[d].pc \in {"answered", "dial", "open"} => conns'[d].entry \in Entry
  BY DEF TypeOK, Become

\* A free connection is well formed.
LEMMA FreeType == Free \in Conn /\ Free.pc = "free"
  BY DEF Free, Conn

\* The sleep of enforceSessionLimits overshoots neither limit by MinSleep.
LEMMA SleepBound ==
  ASSUME NEW k \in Conn, k.entry \in Entry, now \in Nat, k.last <= now, ~Expired(k), ~Idled(k)
  PROVE  /\ Sleep(k) \in Nat
         /\ now + Sleep(k) < k.entry.exp + MinSleep
         /\ IdleTimeout > 0 => now + Sleep(k) < k.last + IdleTimeout + MinSleep
  BY TimesAssumption DEF Sleep, Expired, Idled, Lesser, Greater, Conn, Entry

\* The steps of the gateway keep the types.
LEMMA GatewayType ==
  ASSUME TypeOK, TimerInv, NEW c \in Conns, Gateway(c)
  PROVE  TypeOK'
<1> DEFINE k == conns[c]
<1>0. /\ k \in Conn /\ (k.pc # "free" => k.token \in Tokens) /\ now \in Nat
      /\ k.pc \in {"answered", "dial", "open"} => k.entry \in Entry
  BY DEF TypeOK
<1>1. CASE \E t \in Tokens : Connect(c, t)
  <2>1. PICK t \in Tokens : Connect(c, t)
    BY <1>1
  <2> DEFINE g == [Free EXCEPT !.pc = "check", !.token = t]
  <2>2. g \in Conn /\ g.pc = "check" /\ g.token = t
    BY DEF Free, Conn
  <2>3. Become(c, g) /\ UNCHANGED <<now, ssh, api, hist>>
    BY <2>1 DEF Connect
  <2> HIDE DEF g
  <2> QED
    BY <2>2, <2>3, BecomeType DEF TypeOK, api, hist
<1>2. ASSUME Close(c), UNCHANGED <<now, ssh, revoked, revoking, hist>>,
             sessions' \in [Tokens -> Entry \cup {NoEntry}]
      PROVE  TypeOK'
  BY <1>2, FreeType, BecomeType DEF TypeOK, Close, hist
<1>3. ASSUME NEW pc \in {"get", "dial"}, Goto(c, pc), k.pc # "free", pc = "dial" => k.entry \in Entry,
             UNCHANGED <<now, ssh, api, hist>>
      PROVE  TypeOK'
  <2> DEFINE g == [k EXCEPT !.pc = pc]
  <2>1. g \in Conn /\ g.pc = pc /\ g.token = k.token /\ g.entry = k.entry
    BY <1>0, <1>3 DEF Conn
  <2>2. Become(c, g)
    BY <1>3 DEF Goto
  <2> HIDE DEF g
  <2> QED
    BY <1>0, <1>3, <2>1, <2>2, BecomeType DEF TypeOK, api, hist
<1>4. ASSUME NEW e \in Entry, NEW s \in Sandboxes \cup {NoPeer}, NEW last \in Nat, NEW wake \in Nat,
             NEW pc \in {"answered", "open"}, k.pc # "free",
             Become(c, [k EXCEPT !.pc = pc, !.entry = e, !.peer = s, !.last = last, !.wake = wake]),
             UNCHANGED <<now, ssh, api, hist>>
      PROVE  TypeOK'
  <2> DEFINE f == [k EXCEPT !.pc = pc, !.entry = e]
             g == [f EXCEPT !.peer = s, !.last = last, !.wake = wake]
  <2>1. f \in Conn /\ f.pc = pc /\ f.token = k.token /\ f.entry = e
    BY <1>0, <1>4 DEF Conn
  <2>a. g = [k EXCEPT !.pc = pc, !.entry = e, !.peer = s, !.last = last, !.wake = wake]
    OBVIOUS
  <2> HIDE DEF f
  <2>2. g \in Conn /\ g.pc = pc /\ g.token \in Tokens /\ g.entry \in Entry
    BY <1>0, <1>4, <2>1 DEF Conn
  <2>3. Become(c, g)
    BY <1>4, <2>a
  <2> HIDE DEF g
  <2> QED
    BY <1>4, <2>2, <2>3, BecomeType DEF TypeOK, api, hist
<1>5. CASE CheckRevoked(c)
  BY <1>2, <1>3, <1>5 DEF CheckRevoked, api, TypeOK
<1>6. CASE GetSession(c)
  <2> DEFINE e == sessions[k.token]
  <2>1. k.pc = "get" /\ k.token \in Tokens
    BY <1>0, <1>6 DEF GetSession
  <2>2. CASE Close(c)
    BY <1>2, <1>6, <2>1, <2>2 DEF GetSession, TypeOK
  <2>3. CASE e # NoEntry /\ Become(c, [k EXCEPT !.pc = "answered", !.entry = e]) /\ UNCHANGED sessions
    <3>1. e \in Entry
      BY <2>1, <2>3 DEF TypeOK
    <3>2. [k EXCEPT !.pc = "answered", !.entry = e]
           = [k EXCEPT !.pc = "answered", !.entry = e, !.peer = k.peer, !.last = k.last, !.wake = k.wake]
      BY <1>0 DEF Conn
    <3>3. k.peer \in Sandboxes \cup {NoPeer} /\ k.last \in Nat /\ k.wake \in Nat
      BY <1>0 DEF Conn
    <3>4. UNCHANGED <<now, ssh, api, hist>>
      BY <1>6, <2>3 DEF GetSession, api
    <3>5. Become(c, [k EXCEPT !.pc = "answered", !.entry = e, !.peer = k.peer, !.last = k.last, !.wake = k.wake])
      BY <2>3, <3>2
    <3> HIDE DEF e
    <3> QED
      BY <1>4, <2>1, <3>1, <3>3, <3>4, <3>5
  <2> QED
    BY <1>6, <2>2, <2>3 DEF GetSession
<1>7. CASE ValidateFails(c) \/ Leave(c)
  BY <1>2, <1>7 DEF ValidateFails, Leave, api, TypeOK
<1>8. CASE Receive(c)
  BY <1>0, <1>2, <1>3, <1>8 DEF Receive, api, TypeOK
<1>9. CASE Dial(c)
  <2>1. CASE Close(c)
    BY <1>2, <1>9, <2>1 DEF Dial, api, TypeOK
  <2>2. CASE ~Close(c)
    <3>1. PICK s \in Sandboxes : Become(c, [k EXCEPT !.pc = "open", !.peer = s, !.last = now, !.wake = now])
      BY <1>9, <2>2 DEF Dial
    <3>2. [k EXCEPT !.pc = "open", !.peer = s, !.last = now, !.wake = now]
           = [k EXCEPT !.pc = "open", !.entry = k.entry, !.peer = s, !.last = now, !.wake = now]
      BY <1>0 DEF Conn
    <3> QED
      BY <1>0, <1>4, <1>9, <3>1, <3>2 DEF Dial
  <2> QED
    BY <2>1, <2>2
<1>10. ASSUME NEW last \in Nat, NEW wake \in Nat, k.pc = "open",
              Become(c, [k EXCEPT !.last = last, !.wake = wake]), UNCHANGED <<now, ssh, api, hist>>
       PROVE  TypeOK'
  <2>1. [k EXCEPT !.last = last, !.wake = wake]
         = [k EXCEPT !.pc = "open", !.entry = k.entry, !.peer = k.peer, !.last = last, !.wake = wake]
    BY <1>0, <1>10 DEF Conn
  <2>2. k.peer \in Sandboxes \cup {NoPeer}
    BY <1>0 DEF Conn
  <2> QED
    BY <1>0, <1>4, <1>10, <2>1, <2>2
<1>11. CASE Touch(c)
  <2>1. [k EXCEPT !.last = now] = [k EXCEPT !.last = now, !.wake = k.wake] /\ k.wake \in Nat
    BY <1>0 DEF Conn
  <2> QED
    BY <1>0, <1>10, <1>11, <2>1 DEF Touch
<1>12. CASE EnforceLimits(c)
  <2>1. CASE Close(c)
    BY <1>2, <1>12, <2>1 DEF EnforceLimits, api, TypeOK
  <2>2. CASE ~Close(c)
    <3>1. /\ ~Expired(k) /\ ~Idled(k) /\ k.pc = "open" /\ UNCHANGED <<now, ssh, api, hist>>
          /\ Become(c, [k EXCEPT !.wake = now + Sleep(k)])
      BY <1>12, <2>2 DEF EnforceLimits
    <3>2. now + Sleep(k) \in Nat
      BY <1>0, <3>1, SleepBound DEF TimerInv
    <3>3. [k EXCEPT !.wake = now + Sleep(k)] = [k EXCEPT !.last = k.last, !.wake = now + Sleep(k)] /\ k.last \in Nat
      BY <1>0 DEF Conn
    <3> QED
      BY <1>10, <3>1, <3>2, <3>3
  <2> QED
    BY <2>1, <2>2
<1> QED
  BY <1>1, <1>5, <1>6, <1>7, <1>8, <1>9, <1>11, <1>12 DEF Gateway

\* The steps of the API and of the sandboxes, and the clock, keep the types.
LEMMA RestType ==
  ASSUME TypeOK, Sessions \/ Environment
  PROVE  TypeOK'
<1>1. CASE \E s \in Sandboxes, t \in Tokens, ttl \in Ttls : CreateSession(s, t, ttl)
  <2>1. PICK s \in Sandboxes, t \in Tokens, ttl \in Ttls : CreateSession(s, t, ttl)
    BY <1>1
  <2> DEFINE e == [sid |-> s, port |-> ssh[s], exp |-> now + ttl]
  <2>2. e \in Entry
    BY <2>1, TimesAssumption DEF CreateSession, TypeOK, Entry
  <2>3. sessions' = [Pruned(sessions) EXCEPT ![t] = e] /\ issued' = [issued EXCEPT ![t] = e]
    BY <2>1 DEF CreateSession
  <2>4. Pruned(sessions) \in [Tokens -> Entry \cup {NoEntry}]
    BY DEF Pruned, TypeOK
  <2>5. UNCHANGED <<now, ssh, revoked, revoking, conns, dead>>
    BY <2>1 DEF CreateSession
  <2> HIDE DEF e
  <2> QED
    BY <2>2, <2>3, <2>4, <2>5 DEF TypeOK
<1>2. ASSUME NEW t \in Tokens, RevokeDelete(t) \/ RevokeSave(t) PROVE TypeOK'
  BY <1>2 DEF RevokeDelete, RevokeSave, TypeOK
<1>3. CASE Restart
  BY <1>3, FreeType DEF Restart, TypeOK
<1>4. ASSUME NEW s \in Sandboxes, Hangup(s), UNCHANGED <<now, api, hist>>,
             ssh' \in [Sandboxes -> HostPorts \cup {NoPort}]
      PROVE  TypeOK'
  <2>1. ASSUME NEW c \in Conns
        PROVE  /\ conns'[c] \in Conn
               /\ conns'[c].pc = conns[c].pc /\ conns'[c].token = conns[c].token /\ conns'[c].entry = conns[c].entry
    BY <1>4 DEF Hangup, TypeOK, Conn
  <2> QED
    BY <1>4, <2>1 DEF TypeOK, Hangup, api, hist
<1>5. ASSUME NEW s \in Sandboxes, Unbind(s) \/ \E p \in HostPorts : Bind(s, p) PROVE TypeOK'
  BY <1>4, <1>5 DEF Unbind, Bind, TypeOK
<1>6. CASE Tick
  BY <1>6 DEF Tick, TypeOK, api, hist
<1> QED
  BY <1>1, <1>2, <1>3, <1>5, <1>6 DEF Sessions, Environment

\* No step leaves a connection waiting too long for its next limit check.
LEMMA TimerStep ==
  ASSUME TypeOK, TimerInv, [Next]_vars
  PROVE  TimerInv'
<1>0. now \in Nat
  BY DEF TypeOK
<1>1. ASSUME NEW c \in Conns, Gateway(c) PROVE TimerInv'
  <2> DEFINE k == conns[c]
  <2>0. k \in Conn /\ now' = now
    BY <1>1 DEF TypeOK, Gateway, Connect, CheckRevoked, GetSession, ValidateFails, Receive, Dial, Touch,
                EnforceLimits, Leave
  <2>1. SUFFICES ASSUME NEW g, Become(c, g), g.pc = "open"
                 PROVE  /\ g.last <= now
                        /\ \/ g.wake <= now
                           \/ /\ g.wake < g.entry.exp + MinSleep
                              /\ IdleTimeout > 0 => g.wake < g.last + IdleTimeout + MinSleep
    <3>1. ASSUME NEW d \in Conns PROVE conns'[d] = conns[d] \/ (d = c /\ Become(c, conns'[c]))
      BY <1>1 DEF TypeOK, Gateway, Connect, CheckRevoked, GetSession, ValidateFails, Receive, Dial, Touch,
                  EnforceLimits, Leave, Become, Close, Goto
    <3> QED
      BY <2>0, <2>1, <3>1 DEF TimerInv
  <2>2. conns' = [conns EXCEPT ![c] = g] /\ conns'[c] = g
    BY <2>1 DEF Become, TypeOK
  <2>3. CASE Touch(c)
    <3>1. g = [k EXCEPT !.last = now] /\ k.pc = "open"
      BY <2>2, <2>3 DEF Touch, Become, TypeOK
    <3>2. g.last = now /\ g.wake = k.wake /\ g.entry = k.entry
      BY <2>0, <3>1 DEF Conn
    <3> QED
      BY <1>0, <2>0, <3>1, <3>2, TimesAssumption DEF TimerInv, Conn
  <2>4. CASE EnforceLimits(c)
    <3>1. g = [k EXCEPT !.wake = now + Sleep(k)] /\ k.pc = "open" /\ ~Expired(k) /\ ~Idled(k)
      BY <2>1, <2>2, <2>4, FreeType DEF EnforceLimits, Become, Close, TypeOK
    <3>2. g.last = k.last /\ g.wake = now + Sleep(k) /\ g.entry = k.entry
      BY <2>0, <3>1 DEF Conn
    <3>3. k.entry \in Entry /\ k.last <= now
      BY <3>1 DEF TypeOK, TimerInv
    <3> QED
      BY <1>0, <2>0, <3>1, <3>2, <3>3, SleepBound
  <2>5. CASE Dial(c)
    <3>1. PICK s : g = [k EXCEPT !.pc = "open", !.peer = s, !.last = now, !.wake = now]
      BY <2>1, <2>2, <2>5, FreeType DEF Dial, Become, Close, TypeOK
    <3>2. g.last = now /\ g.wake = now
      BY <2>0, <3>1 DEF Conn
    <3> QED
      BY <1>0, <3>2
  <2>6. CASE (\E t \in Tokens : Connect(c, t)) \/ CheckRevoked(c) \/ GetSession(c) \/ ValidateFails(c)
             \/ Receive(c) \/ Leave(c)
    <3>1. \/ g = Free \/ (\E pc \in {"get", "dial"} : g = [k EXCEPT !.pc = pc])
          \/ (\E e : g = [k EXCEPT !.pc = "answered", !.entry = e])
          \/ \E t : g = [Free EXCEPT !.pc = "check", !.token = t]
      BY <2>2, <2>6 DEF Connect, CheckRevoked, GetSession, ValidateFails, Receive, Leave, Become, Close, Goto, TypeOK
    <3> QED
      BY <2>0, <2>1, <3>1, FreeType DEF Conn
  <2> QED
    BY <1>1, <2>3, <2>4, <2>5, <2>6 DEF Gateway
<1>2. CASE Sessions
  BY <1>2, FreeType DEF Sessions, CreateSession, RevokeDelete, RevokeSave, Restart, TimerInv, TypeOK
<1>3. ASSUME NEW s \in Sandboxes, Hangup(s), now' = now PROVE TimerInv'
  <2>1. ASSUME NEW c \in Conns
        PROVE  /\ conns'[c].pc = conns[c].pc /\ conns'[c].last = conns[c].last
               /\ conns'[c].wake = conns[c].wake /\ conns'[c].entry = conns[c].entry
    BY <1>3 DEF Hangup, TypeOK, Conn
  <2> QED
    BY <1>3, <2>1 DEF TimerInv
<1>4. ASSUME NEW s \in Sandboxes, Unbind(s) \/ \E p \in HostPorts : Bind(s, p) PROVE TimerInv'
  BY <1>3, <1>4 DEF Unbind, Bind
<1>5. CASE Tick
  BY <1>0, <1>5 DEF Tick, TimerInv, TypeOK, Conn
<1>6. CASE UNCHANGED vars
  BY <1>6 DEF vars, TimerInv
<1> QED
  BY <1>1, <1>2, <1>4, <1>5, <1>6 DEF Next, Environment

\* Every step keeps the types.
LEMMA TypeStep == TypeOK /\ TimerInv /\ [Next]_vars => TypeOK'
<1> SUFFICES ASSUME TypeOK, TimerInv, [Next]_vars PROVE TypeOK'
  OBVIOUS
<1>1. CASE UNCHANGED vars
  BY <1>1 DEF vars, api, hist, TypeOK
<1> QED
  BY <1>1, GatewayType, RestType DEF Next

\* Every step keeps the dead tokens out of the map and the live ones in it.
LEMMA TokenStep ==
  ASSUME TokenInv, TypeOK', [Next]_vars
  PROVE  TokenInv'
<1>0. TypeOK /\ now \in Nat /\ \A t \in Tokens : sessions[t] # NoEntry => sessions[t] \in Entry
  BY DEF TokenInv, TypeOK
<1>1. ASSUME NEW s \in Sandboxes, NEW t \in Tokens, NEW ttl \in Ttls, CreateSession(s, t, ttl)
      PROVE  TokenInv'
  <2> DEFINE e == [sid |-> s, port |-> ssh[s], exp |-> now + ttl]
  <2>1. e \in Entry /\ e # NoEntry
    BY <1>0, <1>1, TimesAssumption, NullAssumption DEF CreateSession, TypeOK, Entry
  <2>2. /\ sessions' = [Pruned(sessions) EXCEPT ![t] = e] /\ issued' = [issued EXCEPT ![t] = e]
        /\ now' = now /\ dead' = dead /\ t \notin dead
    BY <1>1 DEF CreateSession
  <2> HIDE DEF e
  <2>3. /\ sessions'[t] = e /\ issued'[t] = e
        /\ \A u \in Tokens \ {t} : /\ issued'[u] = issued[u]
                                   /\ sessions'[u] = Pruned(sessions)[u]
    BY <1>0, <2>2 DEF Pruned, TypeOK
  <2>4. \A u \in Tokens : \/ Pruned(sessions)[u] = sessions[u]
                          \/ Pruned(sessions)[u] = NoEntry /\ sessions[u] # NoEntry /\ now > sessions[u].exp
    BY DEF Pruned
  <2> QED
    BY <1>0, <2>1, <2>2, <2>3, <2>4 DEF TokenInv, TypeOK, LiveSessionsKept
<1>2. ASSUME NEW t \in Tokens, RevokeDelete(t) PROVE TokenInv'
  BY <1>0, <1>2 DEF RevokeDelete, TokenInv, TypeOK, LiveSessionsKept
<1>3. ASSUME NEW t \in Tokens, RevokeSave(t) PROVE TokenInv'
  BY <1>3 DEF RevokeSave, TokenInv, LiveSessionsKept
<1>4. CASE Restart
  BY <1>4 DEF Restart, TokenInv, TypeOK, LiveSessionsKept
<1>5. ASSUME NEW c \in Conns, GetSession(c) PROVE TokenInv'
  <2>1. now' = now /\ dead' = dead /\ issued' = issued
    BY <1>5 DEF GetSession, hist
  <2>2. ASSUME NEW t \in Tokens
        PROVE  \/ sessions'[t] = sessions[t]
               \/ sessions'[t] = NoEntry /\ sessions[t] # NoEntry /\ now > sessions[t].exp
    BY <1>0, <1>5 DEF GetSession, TypeOK
  <2> QED
    BY <1>0, <2>1, <2>2 DEF TokenInv, TypeOK, LiveSessionsKept
<1>6. ASSUME NEW c \in Conns, Gateway(c), ~GetSession(c) PROVE UNCHANGED <<now, api, hist>>
  BY <1>6 DEF Gateway, Connect, CheckRevoked, ValidateFails, Receive, Dial, Touch, EnforceLimits, Leave
<1>7. ASSUME NEW s \in Sandboxes, Unbind(s) \/ \E p \in HostPorts : Bind(s, p) PROVE UNCHANGED <<now, api, hist>>
  BY <1>7 DEF Unbind, Bind
<1>8. CASE Tick
  <2>1. now' > now
    BY <1>0, <1>8 DEF Tick
  <2>2. \A t \in Tokens : issued[t] # NoEntry => issued[t] \in Entry
    BY DEF TokenInv, TypeOK
  <2>3. LiveSessionsKept'
    BY <1>0, <1>8, <2>1, <2>2 DEF Tick, TokenInv, LiveSessionsKept, Entry, api, hist
  <2> QED
    BY <1>8, <2>3 DEF Tick, TokenInv, api, hist
<1>9. CASE UNCHANGED <<now, api, hist>>
  BY <1>9 DEF TokenInv, api, hist, LiveSessionsKept
<1>10. CASE UNCHANGED vars
  BY <1>9, <1>10 DEF vars
<1> QED
  BY <1>1, <1>2, <1>3, <1>4, <1>5, <1>6, <1>7, <1>8, <1>9, <1>10 DEF Next, Sessions, Environment

\* The initial state.
LEMMA SshInit == Init => TokenInv /\ TimerInv
<1> SUFFICES ASSUME Init PROVE TokenInv /\ TimerInv
  OBVIOUS
<1>1. TypeOK
  BY FreeType DEF Init, TypeOK
<1> QED
  BY <1>1, FreeType DEF Init, TokenInv, TimerInv, LiveSessionsKept

\* Both invariants hold: sessions, revocations, restarts and time limits, interleaved
\* in any way.
THEOREM SshInvariant == Spec => [](TokenInv /\ TimerInv)
<1>1. TokenInv /\ TimerInv /\ [Next]_vars => (TokenInv /\ TimerInv)'
  BY TypeStep, TokenStep, TimerStep DEF TokenInv
<1> QED
  BY SshInit, <1>1, PTL DEF Spec

\* Every variable has its type; a connection that has been answered, dials or is open has
\* a session.
THEOREM SshTypeCorrect == Spec => []TypeOK
<1>1. TokenInv => TypeOK
  BY DEF TokenInv
<1> QED
  BY <1>1, SshInvariant, PTL

\* pruneExpired and validateSession drop no live session.
THEOREM NoSessionLost == Spec => []LiveSessionsKept
<1>1. TokenInv /\ TimerInv => LiveSessionsKept
  BY DEF TokenInv
<1> QED
  BY <1>1, SshInvariant, PTL

\* ssh/validate never answers with a token that is revoked, or whose revocation has
\* begun, or that an earlier API process gave out.
THEOREM NoDeadAnswer == Spec => DeadNeverAnswered
<1> DEFINE A == \A c \in Conns : conns[c].pc = "get" /\ conns'[c].pc = "answered" => conns[c].token \notin dead
<1>1. ASSUME TokenInv, Next, NEW c \in Conns, conns[c].pc = "get", conns'[c].pc = "answered"
      PROVE  conns[c].token \notin dead
  <2>0. conns \in [Conns -> Conn]
    BY <1>1 DEF TokenInv, TypeOK
  <2>1. ASSUME NEW d \in Conns, Gateway(d), d # c PROVE conns'[c] = conns[c]
    BY <2>0, <2>1 DEF Gateway, Connect, CheckRevoked, GetSession, ValidateFails, Receive, Dial, Touch,
                      EnforceLimits, Leave, Become, Close, Goto
  <2>2. ASSUME Gateway(c) PROVE GetSession(c) /\ ~Close(c)
    BY <1>1, <2>0, <2>2, FreeType DEF Gateway, Connect, CheckRevoked, GetSession, ValidateFails, Receive, Dial,
                      Touch, EnforceLimits, Leave, Become, Close
  <2>3. ASSUME GetSession(c), ~Close(c) PROVE sessions[conns[c].token] # NoEntry
    BY <2>3 DEF GetSession
  <2>4. ASSUME NEW s \in Sandboxes, Hangup(s) PROVE conns'[c].pc = conns[c].pc
    BY <2>0, <2>4 DEF Hangup, Conn
  <2>5. ASSUME Sessions \/ Tick PROVE conns'[c].pc \in {conns[c].pc, "free"}
    BY <2>0, <2>5, FreeType DEF Sessions, CreateSession, RevokeDelete, RevokeSave, Restart, Tick
  <2>6. ASSUME NEW s \in Sandboxes, Unbind(s) \/ \E p \in HostPorts : Bind(s, p) PROVE Hangup(s)
    BY <2>6 DEF Unbind, Bind
  <2>7. PICK d \in Conns : Gateway(d)
    BY <1>1, <2>4, <2>5, <2>6 DEF Next, Environment
  <2>8. sessions[conns[c].token] # NoEntry
    BY <1>1, <2>1, <2>2, <2>3, <2>7
  <2> QED
    BY <1>1, <2>8 DEF TokenInv
<1>2. TokenInv /\ TimerInv /\ [Next]_vars => [A]_vars
  BY <1>1
<1>3. DeadNeverAnswered <=> [][A]_vars
  BY DEF DeadNeverAnswered
<1> HIDE DEF A
<1> QED
  BY <1>2, <1>3, SshInvariant, PTL DEF Spec

\* The gateway closes every connection within MinSleep of its limits, for any poll
\* interval, idle timeout and token lifetime.
THEOREM LimitsKept == Spec => ClosedInTime
<1> DEFINE A == now' # now => \A c \in Conns : conns[c].pc = "open" =>
                  /\ now' < conns[c].entry.exp + MinSleep
                  /\ IdleTimeout > 0 => now' < conns[c].last + IdleTimeout + MinSleep
<1>1. ASSUME TokenInv, TimerInv, Next, now' # now, NEW c \in Conns, conns[c].pc = "open"
      PROVE  /\ now' < conns[c].entry.exp + MinSleep
             /\ IdleTimeout > 0 => now' < conns[c].last + IdleTimeout + MinSleep
  <2>1. Tick
    BY <1>1 DEF Next, Sessions, CreateSession, RevokeDelete, RevokeSave, Restart, Gateway, Connect, CheckRevoked,
                GetSession, ValidateFails, Receive, Dial, Touch, EnforceLimits, Leave, Environment, Bind, Unbind
  <2>2. now \in Nat /\ conns[c] \in Conn /\ conns[c].entry \in Entry
    BY <1>1 DEF TokenInv, TypeOK
  <2>3. now' = now + 1 /\ now < conns[c].wake
    BY <1>1, <2>1 DEF Tick
  <2> QED
    BY <1>1, <2>2, <2>3, TimesAssumption DEF TimerInv, Conn, Entry
<1>2. TokenInv /\ TimerInv /\ [Next]_vars => [A]_vars
  BY <1>1
<1>3. ClosedInTime <=> [][A]_vars
  BY DEF ClosedInTime
<1> HIDE DEF A
<1> QED
  BY <1>2, <1>3, SshInvariant, PTL DEF Spec

--------------------------------------------------------------------------------
(* SshAccess implements SessionRegistry. *)

\* A connection that was answered holds the session its token was issued with.
GrantInv == \A c \in Conns : conns[c].pc \in Granted => issued[conns[c].token] = conns[c].entry

\* What a step of one connection does to all of them.
LEMMA GatewayLocal ==
  ASSUME TypeOK, NEW c \in Conns, Gateway(c)
  PROVE  /\ UNCHANGED <<now, ssh, revoked, revoking, hist>>
         /\ \A d \in Conns \ {c} : conns'[d] = conns[d]
         /\ \/ conns'[c].pc \notin Granted
            \/ /\ conns[c].pc = "get" /\ conns'[c].pc = "answered" /\ conns'[c].token = conns[c].token
               /\ sessions[conns[c].token] # NoEntry /\ now <= sessions[conns[c].token].exp
               /\ conns'[c].entry = sessions[conns[c].token]
            \/ /\ conns[c].pc \in Granted /\ conns'[c].pc \in Granted
               /\ conns'[c].token = conns[c].token /\ conns'[c].entry = conns[c].entry
               /\ conns'[c].pc = conns[c].pc \/ conns'[c].pc = "dial" \/ conns'[c].pc = "open"
               /\ conns[c].pc = "open" => conns'[c].pc = "open"
<1>0. conns \in [Conns -> Conn]
  BY DEF TypeOK
<1>1. UNCHANGED <<now, ssh, revoked, revoking, hist>>
  BY DEF Gateway, Connect, CheckRevoked, GetSession, ValidateFails, Receive, Dial, Touch, EnforceLimits, Leave, api
<1>2. \A d \in Conns \ {c} : conns'[d] = conns[d]
  BY <1>0 DEF Gateway, Connect, CheckRevoked, GetSession, ValidateFails, Receive, Dial, Touch, EnforceLimits,
              Leave, Become, Close, Goto
<1>3. ASSUME Close(c) PROVE conns'[c].pc \notin Granted
  BY <1>0, <1>3, FreeType DEF Close, Become, Granted
<1>4. CASE (\E t \in Tokens : Connect(c, t)) \/ ValidateFails(c) \/ Leave(c)
  BY <1>0, <1>1, <1>2, <1>3, <1>4 DEF Connect, ValidateFails, Leave, Become, Free, Granted
<1>5. CASE CheckRevoked(c)
  BY <1>0, <1>1, <1>2, <1>3, <1>5 DEF CheckRevoked, Goto, Become, Granted, Conn
<1>6. CASE GetSession(c)
  <2>1. CASE Close(c)
    BY <1>1, <1>2, <1>3, <2>1
  <2>2. CASE ~Close(c)
    <3>. DEFINE e == sessions[conns[c].token]
    <3>1. conns[c].pc = "get" /\ e # NoEntry /\ now <= e.exp
      BY <1>6, <2>2 DEF GetSession
    <3>2. conns'[c] = [conns[c] EXCEPT !.pc = "answered", !.entry = e]
      BY <1>0, <1>6, <2>2 DEF GetSession, Become
    <3>3. conns'[c].pc = "answered" /\ conns'[c].token = conns[c].token /\ conns'[c].entry = e
      BY <1>0, <3>2 DEF Conn
    <3>. QED
      BY <1>1, <1>2, <3>1, <3>3
  <2>. QED
    BY <2>1, <2>2
<1>7. CASE Receive(c)
  BY <1>0, <1>1, <1>2, <1>3, <1>7 DEF Receive, Goto, Become, Granted, Conn
<1>8. CASE Dial(c)
  BY <1>0, <1>1, <1>2, <1>3, <1>8 DEF Dial, Become, Granted, Conn
<1>9. CASE Touch(c) \/ EnforceLimits(c)
  BY <1>0, <1>1, <1>2, <1>3, <1>9 DEF Touch, EnforceLimits, Become, Granted, Conn
<1> QED
  BY <1>4, <1>5, <1>6, <1>7, <1>8, <1>9 DEF Gateway

\* What a step of the sandboxes does to the connections.
LEMMA EnvironmentLocal ==
  ASSUME TypeOK, NEW s \in Sandboxes, Unbind(s) \/ \E p \in HostPorts : Bind(s, p)
  PROVE  /\ UNCHANGED <<now, api, hist>>
         /\ \A d \in Conns : /\ conns'[d].pc = conns[d].pc /\ conns'[d].token = conns[d].token
                             /\ conns'[d].entry = conns[d].entry
<1>1. Hangup(s) /\ UNCHANGED <<now, api, hist>>
  BY DEF Unbind, Bind
<1> QED
  BY <1>1 DEF Hangup, TypeOK, Conn

\* Every step keeps the granted sessions those that were issued.
LEMMA GrantStep ==
  ASSUME TokenInv, GrantInv, [Next]_vars
  PROVE  GrantInv'
<1>0. TypeOK
  BY DEF TokenInv
<1>1. ASSUME NEW c \in Conns, Gateway(c) PROVE GrantInv'
  <2>1. conns[c].pc # "free" => conns[c].token \in Tokens
    BY <1>0 DEF TypeOK
  <2>2. issued' = issued
    BY <1>0, <1>1, GatewayLocal DEF hist
  <2> QED
    BY <1>0, <1>1, <2>1, <2>2, GatewayLocal DEF GrantInv, TokenInv
<1>2. ASSUME NEW s \in Sandboxes, NEW t \in Tokens, NEW ttl \in Ttls, CreateSession(s, t, ttl) PROVE GrantInv'
  BY <1>0, <1>2 DEF CreateSession, GrantInv, TypeOK
<1>3. CASE (\E t \in Tokens : RevokeDelete(t) \/ RevokeSave(t)) \/ Tick
  BY <1>3 DEF RevokeDelete, RevokeSave, Tick, GrantInv, hist
<1>4. CASE Restart
  BY <1>0, <1>4, FreeType DEF Restart, GrantInv, Granted, TypeOK
<1>5. ASSUME NEW s \in Sandboxes, Unbind(s) \/ \E p \in HostPorts : Bind(s, p) PROVE GrantInv'
  BY <1>0, <1>5, EnvironmentLocal DEF GrantInv, hist
<1>6. CASE UNCHANGED vars
  BY <1>6 DEF vars, hist, GrantInv
<1> QED
  BY <1>1, <1>2, <1>3, <1>4, <1>5, <1>6 DEF Next, Sessions, Environment

\* A step of one connection grants, opens or closes, or is not seen.
LEMMA GatewayMaps ==
  ASSUME TokenInv, GrantInv, NEW c \in Conns, Gateway(c)
  PROVE  Registry!Next \/ UNCHANGED Registry!vars
<1>0. TypeOK /\ UNCHANGED <<now, tokenState, tokenExp>>
  BY GatewayLocal DEF TokenInv, hist, tokenState, tokenExp
<1>1. /\ tokenHeld' = [tokenHeld EXCEPT ![c] = IF conns'[c].pc \in Granted THEN conns'[c].token ELSE NoToken]
      /\ openConns' = IF conns'[c].pc = "open" THEN openConns \cup {c} ELSE openConns \ {c}
  <2>1. \A d \in Conns \ {c} : conns'[d] = conns[d]
    BY <1>0, GatewayLocal
  <2>2. tokenHeld' = [tokenHeld EXCEPT ![c] = IF conns'[c].pc \in Granted THEN conns'[c].token ELSE NoToken]
    <3>1. ASSUME NEW d \in Conns
          PROVE  tokenHeld'[d] = IF d = c THEN IF conns'[c].pc \in Granted THEN conns'[c].token ELSE NoToken
                                 ELSE tokenHeld[d]
      BY <2>1 DEF tokenHeld
    <3>2. tokenHeld = [d \in Conns |-> tokenHeld[d]] /\ tokenHeld' = [d \in Conns |-> tokenHeld'[d]]
      BY DEF tokenHeld
    <3> QED
      BY <3>1, <3>2
  <2>3. \A d \in Conns : d \in openConns' <=> IF d = c THEN conns'[c].pc = "open" ELSE d \in openConns
    BY <2>1 DEF openConns
  <2>4. openConns \subseteq Conns /\ openConns' \subseteq Conns
    BY DEF openConns
  <2> QED
    BY <2>2, <2>3, <2>4
<1>2. CASE conns'[c].pc \notin Granted
  <2>1. Registry!Close(c)
    BY <1>0, <1>1, <1>2 DEF Registry!Close, Registry!tokens, Granted
  <2> QED
    BY <2>1 DEF Registry!Next
<1>3. CASE conns[c].pc = "get" /\ conns'[c].pc = "answered"
  <2> DEFINE t == conns[c].token
  <2>1. t \in Tokens /\ conns'[c].token = t /\ sessions[t] # NoEntry /\ now <= sessions[t].exp
    BY <1>0, <1>3, GatewayLocal DEF TypeOK, Granted
  <2>2. tokenState[t] = "live" /\ tokenExp[t] = sessions[t].exp /\ tokenHeld[c] = NoToken
    BY <1>3, <2>1 DEF TokenInv, tokenState, tokenExp, tokenHeld, Granted
  <2>3. openConns' = openConns
    BY <1>1, <1>3 DEF openConns
  <2>4. Registry!Grant(c, t)
    BY <1>0, <1>1, <1>3, <2>1, <2>2, <2>3 DEF Registry!Grant, Registry!tokens, Granted
  <2> QED
    BY <2>1, <2>4 DEF Registry!Next
<1>4. CASE conns[c].pc \in Granted /\ conns'[c].pc \in Granted
  <2>1. conns[c].token \in Tokens /\ conns'[c].token = conns[c].token
    BY <1>0, <1>4, GatewayLocal DEF TypeOK, Granted
  <2>2. tokenHeld[c] # NoToken /\ tokenHeld' = tokenHeld
    BY <1>1, <1>4, <2>1, NullAssumption DEF tokenHeld
  <2>3. CASE conns'[c].pc = "open"
    <3>1. Registry!Open(c)
      BY <1>0, <1>1, <2>2, <2>3 DEF Registry!Open, Registry!tokens
    <3> QED
      BY <3>1 DEF Registry!Next
  <2>4. CASE conns'[c].pc # "open"
    <3>1. conns[c].pc # "open"
      BY <1>0, <1>4, <2>4, GatewayLocal DEF Granted
    <3>2. openConns' = openConns
      BY <1>1, <2>4, <3>1 DEF openConns
    <3> QED
      BY <1>0, <2>2, <3>2 DEF Registry!vars, Registry!tokens
  <2> QED
    BY <2>3, <2>4
<1> QED
  BY <1>0, <1>2, <1>3, <1>4, GatewayLocal

\* A step of the API issues a token or kills some, or is not seen.
LEMMA SessionsMap ==
  ASSUME TokenInv, GrantInv, Sessions
  PROVE  Registry!Next \/ UNCHANGED Registry!vars
<1>0. TypeOK /\ now' = now
  BY DEF TokenInv, Sessions, CreateSession, RevokeDelete, RevokeSave, Restart
<1>1. ASSUME NEW s \in Sandboxes, NEW t \in Tokens, NEW ttl \in Ttls, CreateSession(s, t, ttl)
      PROVE  Registry!Next
  <2> DEFINE e == [sid |-> s, port |-> ssh[s], exp |-> now + ttl]
  <2>1. e # NoEntry /\ e.exp = now + ttl
    BY <1>0, <1>1, TimesAssumption, NullAssumption DEF CreateSession, TypeOK, Entry
  <2>2. issued' = [issued EXCEPT ![t] = e] /\ UNCHANGED <<conns, dead>> /\ issued[t] = NoEntry /\ t \notin dead
    BY <1>1 DEF CreateSession
  <2>3. UNCHANGED <<tokenHeld, openConns>>
    BY <2>2 DEF tokenHeld, openConns
  <2> HIDE DEF e
  <2>4. tokenState' = [tokenState EXCEPT ![t] = "live"] /\ tokenExp' = [tokenExp EXCEPT ![t] = now + ttl]
    BY <1>0, <2>1, <2>2 DEF tokenState, tokenExp, TypeOK
  <2>5. tokenState[t] = "new"
    BY <2>2 DEF tokenState
  <2>6. Registry!Issue(t)
    BY <1>0, <2>3, <2>4, <2>5 DEF Registry!Issue
  <2> QED
    BY <2>6 DEF Registry!Next
<1>2. ASSUME NEW T \in SUBSET Tokens, dead' = dead \cup T, issued' = issued,
             tokenHeld' = tokenHeld, openConns' = openConns
      PROVE  Registry!Next
  <2>1. tokenState' = [t \in Tokens |-> IF t \in T THEN "dead" ELSE tokenState[t]] /\ tokenExp' = tokenExp
    BY <1>2 DEF tokenState, tokenExp
  <2>2. Registry!Kill(T)
    BY <1>0, <1>2, <2>1 DEF Registry!Kill
  <2> QED
    BY <2>2 DEF Registry!Next
<1>3. ASSUME NEW t \in Tokens, RevokeDelete(t) PROVE Registry!Next
  <2>1. UNCHANGED <<tokenHeld, openConns>> /\ dead' = dead \cup {t} /\ issued' = issued
    BY <1>3 DEF RevokeDelete, tokenHeld, openConns
  <2> QED
    BY <1>2, <2>1
<1>4. ASSUME NEW t \in Tokens, RevokeSave(t) PROVE UNCHANGED Registry!vars
  BY <1>4 DEF RevokeSave, Registry!vars, Registry!tokens, tokenHeld, openConns, tokenState, tokenExp
<1>5. CASE Restart
  <2> DEFINE T == {t \in Tokens : issued[t] # NoEntry}
  <2>1. dead' = dead \cup T /\ issued' = issued
    BY <1>5 DEF Restart
  <2>2. ASSUME NEW c \in Conns
        PROVE  (conns'[c].pc \in Granted <=> conns[c].pc \in Granted)
               /\ (conns'[c].pc = "open" <=> conns[c].pc = "open")
               /\ (conns[c].pc \in Granted => conns'[c].token = conns[c].token)
    BY <1>0, <1>5, FreeType DEF Restart, TypeOK, Granted
  <2>3. UNCHANGED <<tokenHeld, openConns>>
    BY <2>2 DEF tokenHeld, openConns
  <2> QED
    BY <1>2, <2>1, <2>3
<1> QED
  BY <1>1, <1>3, <1>4, <1>5 DEF Sessions

\* Time passes in both, and the sandboxes' ports are not seen.
LEMMA EnvironmentMaps ==
  ASSUME TokenInv, TimerInv, GrantInv, Environment
  PROVE  Registry!Next \/ UNCHANGED Registry!vars
<1>0. TypeOK
  BY DEF TokenInv
<1>1. ASSUME NEW s \in Sandboxes, Unbind(s) \/ \E p \in HostPorts : Bind(s, p) PROVE UNCHANGED Registry!vars
  <2>1. UNCHANGED <<tokenHeld, openConns>>
    BY <1>0, <1>1, EnvironmentLocal DEF tokenHeld, openConns
  <2>2. UNCHANGED <<now, issued, dead>>
    BY <1>0, <1>1, EnvironmentLocal DEF hist
  <2> QED
    BY <2>1, <2>2 DEF Registry!vars, Registry!tokens, tokenState, tokenExp
<1>2. CASE Tick
  <2>1. now' = now + 1 /\ UNCHANGED <<conns, issued, dead>>
    BY <1>2 DEF Tick, hist
  <2>2. UNCHANGED <<tokenHeld, openConns, tokenState, tokenExp>>
    BY <2>1 DEF tokenHeld, openConns, tokenState, tokenExp
  <2>3. ASSUME NEW c \in openConns PROVE now' < tokenExp[tokenHeld[c]] + MinSleep
    <3>1. c \in Conns /\ conns[c].pc = "open" /\ conns[c].pc \in Granted
      BY <2>3 DEF openConns, Granted
    <3>2. conns[c] \in Conn /\ conns[c].token \in Tokens /\ conns[c].entry \in Entry /\ now \in Nat
      BY <1>0, <3>1 DEF TypeOK
    <3>3. tokenExp[tokenHeld[c]] = conns[c].entry.exp
      BY <3>1, <3>2, NullAssumption DEF tokenExp, tokenHeld, GrantInv
    <3>4. now < conns[c].wake
      BY <1>2, <3>1 DEF Tick
    <3> QED
      BY <2>1, <3>1, <3>2, <3>3, <3>4, TimesAssumption DEF TimerInv, Conn, Entry
  <2>4. Registry!Tick
    BY <2>1, <2>2, <2>3 DEF Registry!Tick, Registry!tokens
  <2> QED
    BY <2>4 DEF Registry!Next
<1> QED
  BY <1>1, <1>2 DEF Environment

\* The map, the table of revoked tokens, the awaits, the restarts and the timers do what
\* SessionRegistry says, for any number of tokens and connections and any durations.
THEOREM RegistryRefinement == Spec => ImplementsRegistry
<1>1. Init => Registry!Init
  <2> SUFFICES ASSUME Init PROVE Registry!Init
    OBVIOUS
  <2> QED
    BY FreeType DEF Init, Registry!Init, tokenState, tokenExp, tokenHeld, openConns, Granted
<1>2. Init => GrantInv
  BY FreeType DEF Init, GrantInv, Granted
<1>3. TokenInv /\ GrantInv /\ [Next]_vars => GrantInv'
  BY GrantStep
<1>4. TokenInv /\ TimerInv /\ GrantInv /\ [Next]_vars => [Registry!Next]_(Registry!vars)
  <2>1. ASSUME UNCHANGED vars PROVE UNCHANGED Registry!vars
    BY <2>1 DEF vars, hist, Registry!vars, Registry!tokens, tokenState, tokenExp, tokenHeld, openConns
  <2> QED
    BY <2>1, GatewayMaps, SessionsMap, EnvironmentMaps DEF Next
<1> QED
  BY SshInvariant, <1>1, <1>2, <1>3, <1>4, PTL DEF Spec, ImplementsRegistry, Registry!Spec
=============================================================================
