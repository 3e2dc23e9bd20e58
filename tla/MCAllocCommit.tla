---------------------------- MODULE MCAllocCommit ----------------------------
(* AllocCommit on small instances.  Nothing tells the blobbers apart.       *)
EXTENDS AllocCommit, TLC

Symmetry == Permutations(Blobbers)
=============================================================================
