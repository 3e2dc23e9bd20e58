-------------------------- MODULE MutexRefinement --------------------------
(***************************************************************************)
(* The quorum lock of WriteMarkerMutex implements AllocationLock.          *)
(***************************************************************************)
EXTENDS WriteMarkerMutex

\* What a writer at p is to the lock it asks for.  The lock is given back when Unlock
\* begins, whatever becomes of its requests.
Role(p) ==
  CASE p = "idle"                         -> "idle"
    [] p \in InLock                       -> "waiting"
    [] p \in InCritical                   -> "holding"
    [] p \in {"unlock", "unlocked", "done"} -> "released"
    [] p \in {"abort", "failed"}          -> "refused"

Roles == [c \in Clients |-> Role(pc[c])]

L == INSTANCE AllocationLock WITH st <- Roles

\* Every behaviour of the writers, their goroutines, the blobbers and the network is
\* one of a single lock: a writer whose Lock returns finds no other inside, also when
\* it used another lead, and a refused one never holds it (Lock, Unlock).
ImplementsLock == L!Spec
=============================================================================
