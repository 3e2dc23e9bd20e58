------------------------------ MODULE MCListing ------------------------------
(* Model checking of Listing.                                              *)
EXTENDS Listing, TLC
Symmetry == Permutations(Names) \cup Permutations(Blobbers)
=============================================================================
