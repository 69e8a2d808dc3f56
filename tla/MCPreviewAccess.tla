--------------------------- MODULE MCPreviewAccess ---------------------------
(***************************************************************************)
(* Instances of PreviewAccess for TLC.                                     *)
(***************************************************************************)
EXTENDS PreviewAccess, TLC

\* One port, no SSH; the name is the sandboxId.
Named == {[name |-> n, cfg |-> c, apps |-> <<8080>>, ssh |-> FALSE, force |-> FALSE] : n \in Names, c \in Configs}
NoPatch == {}

Symmetry == Permutations(Sids) \cup Permutations(Reqs) \cup Permutations(Tokens)
=============================================================================
