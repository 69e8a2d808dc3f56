--------------------------- MODULE SessionRegistry ---------------------------
(***************************************************************************)
(* What SSH access promises, without the map, the table, the awaits and    *)
(* the timers: a token is live from its issue until it is killed (revoked, *)
(* or forgotten with the API process); only a live token that has not      *)
(* expired is granted to a connection; and no connection is open Grace or  *)
(* more past the expiry of its token.  SshAccess implements it.            *)
(***************************************************************************)
EXTENDS Integers

CONSTANTS Tokens, Conns, NoToken,
          Ttls,       \* lifetimes
          Grace       \* how late a connection may be closed

VARIABLES
  now,
  state,    \* of each token
  exp,      \* the expiry of each token that was issued
  held,     \* the token each connection was granted
  open      \* the connections that reach a sandbox

tokens == <<state, exp>>
vars   == <<now, tokens, held, open>>

Init == /\ now = 0
        /\ state = [t \in Tokens |-> "new"]
        /\ exp = [t \in Tokens |-> 0]
        /\ held = [c \in Conns |-> NoToken]
        /\ open = {}

\* Tokens are used once: a killed token is never issued again.
Issue(t) ==
  /\ state[t] = "new"
  /\ state' = [state EXCEPT ![t] = "live"]
  /\ \E ttl \in Ttls : exp' = [exp EXCEPT ![t] = now + ttl]
  /\ UNCHANGED <<now, held, open>>

Kill(T) ==
  /\ state' = [t \in Tokens |-> IF t \in T THEN "dead" ELSE state[t]]
  /\ UNCHANGED <<now, exp, held, open>>

Grant(c, t) ==
  /\ held[c] = NoToken
  /\ state[t] = "live" /\ now <= exp[t]
  /\ held' = [held EXCEPT ![c] = t]
  /\ UNCHANGED <<now, tokens, open>>

Open(c) ==
  /\ held[c] # NoToken
  /\ open' = open \cup {c}
  /\ UNCHANGED <<now, tokens, held>>

Close(c) ==
  /\ held' = [held EXCEPT ![c] = NoToken]
  /\ open' = open \ {c}
  /\ UNCHANGED <<now, tokens>>

Tick ==
  /\ now' = now + 1
  /\ \A c \in open : now' < exp[held[c]] + Grace
  /\ UNCHANGED <<tokens, held, open>>

Next ==
  \/ \E t \in Tokens : Issue(t)
  \/ \E T \in SUBSET Tokens : Kill(T)
  \/ \E c \in Conns : Open(c) \/ Close(c) \/ \E t \in Tokens : Grant(c, t)
  \/ Tick

Spec == Init /\ [][Next]_vars
=============================================================================
