---------------------------- MODULE MCVolumeStore ----------------------------
(***************************************************************************)
(* Instances of VolumeStore for TLC.                                       *)
(***************************************************************************)
EXTENDS VolumeStore, TLC

Symmetry == Permutations(Safe) \cup Permutations(Ids) \cup Permutations(Reqs)
=============================================================================
