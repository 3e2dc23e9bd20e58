--------------------------- MODULE AllocationLock ---------------------------
(***************************************************************************)
(* What the write-marker mutex promises its callers: one writer of an      *)
(* allocation at a time is between Lock and Unlock.  A call of Lock is     *)
(* granted once and for all, or refused, and a writer that was granted     *)
(* the lock gives it back before anyone else gets it.  Neither blobbers,   *)
(* leads, quorums, refreshes nor lost requests are visible here.           *)
(***************************************************************************)
CONSTANT Clients
VARIABLE st   \* what each writer is to the lock

States == {"idle", "waiting", "holding", "released", "refused"}

Init == st = [c \in Clients |-> "idle"]

Ask(c) ==
  /\ st[c] = "idle"
  /\ st' = [st EXCEPT ![c] = "waiting"]
Grant(c) ==
  /\ st[c] = "waiting"
  /\ \A d \in Clients : st[d] # "holding"
  /\ st' = [st EXCEPT ![c] = "holding"]
Refuse(c) ==
  /\ st[c] = "waiting"
  /\ st' = [st EXCEPT ![c] = "refused"]
Release(c) ==
  /\ st[c] = "holding"
  /\ st' = [st EXCEPT ![c] = "released"]

Next == \E c \in Clients : Ask(c) \/ Grant(c) \/ Refuse(c) \/ Release(c)
Spec == Init /\ [][Next]_st
=============================================================================
