----------------------------- MODULE LeaseTable -----------------------------
(***************************************************************************)
(* What the port leases promise, without handlers, awaits and failures:    *)
(* a free port goes to one runtime that exists, a runtime gives up its     *)
(* ports all at once and only its own, and it goes only when it has none   *)
(* left.  RuntimeControl implements it when clients serialise the requests *)
(* for a sandbox.                                                          *)
(***************************************************************************)
CONSTANTS Ports, Ids, NoId

VARIABLES
  owner,    \* of each port
  alive     \* the runtimes that exist

vars == <<owner, alive>>

Init == /\ owner = [p \in Ports |-> NoId]
        /\ alive = {}

OwnsNothing(i) == \A p \in Ports : owner[p] # i

Create(i) ==
  /\ i \notin alive /\ OwnsNothing(i)
  /\ alive' = alive \cup {i}
  /\ UNCHANGED owner

Lease(p, i) ==
  /\ owner[p] = NoId /\ i \in alive
  /\ owner' = [owner EXCEPT ![p] = i]
  /\ UNCHANGED alive

Release(i) ==
  /\ owner' = [p \in Ports |-> IF owner[p] = i THEN NoId ELSE owner[p]]
  /\ UNCHANGED alive

Destroy(i) ==
  /\ i \in alive /\ OwnsNothing(i)
  /\ alive' = alive \ {i}
  /\ UNCHANGED owner

Next == \E i \in Ids : Create(i) \/ Release(i) \/ Destroy(i) \/ \E p \in Ports : Lease(p, i)

Spec == Init /\ [][Next]_vars
=============================================================================
