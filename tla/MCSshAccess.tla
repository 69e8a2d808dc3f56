----------------------------- MODULE MCSshAccess -----------------------------
(***************************************************************************)
(* Instances of SshAccess for TLC.                                         *)
(***************************************************************************)
EXTENDS SshAccess, TLC

Symmetry == Permutations(Sandboxes) \cup Permutations(HostPorts) \cup Permutations(Tokens)
=============================================================================
