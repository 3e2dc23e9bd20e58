------------------------- MODULE MCWriteMarkerMutex -------------------------
(* WriteMarkerMutex, and that it implements AllocationLock, on a small       *)
(* instance.                                                                *)
EXTENDS MutexRefinement
=============================================================================
