------------------------------- MODULE FileOps -------------------------------
(***************************************************************************)
(* One rename, copy, move, delete or mkdir: the workers renameworker,      *)
(* copyworker, moveworker, deleteworker and dirworker of zboxcore/sdk.     *)
(*                                                                         *)
(* Each asks every blobber of its mask in a goroutine of its own (fetch    *)
(* the object tree, then send the change, three attempts), counts OKs in   *)
(* its Consensus, and removes from the mask the blobbers that failed.  The *)
(* change is then committed to the blobbers left in the mask.  direct      *)
(* tells the two users apart: Allocation.RenameObject and the like call    *)
(* ProcessRename etc., which lock and commit themselves; a batch calls     *)
(* Operation.Process and commits in MultiOperation.Process (one operation  *)
(* per batch here; several are in module Batch).                           *)
(*                                                                         *)
(* obj[b]: blobber b has the object the operation names.  staged[b]: b     *)
(* accepted the change on this connection.  applied[b]: b committed it.    *)
(***************************************************************************)
EXTENDS Integers, FiniteSets

CONSTANTS
  N,         \* number of blobbers
  Thresh,    \* consensusThresh
  MaxTries,  \* attempts of a request that is answered 429 (3 in the code)
  MaxFail    \* bound: failing exchanges

Blobbers == 0 .. N-1
Moves == {"rename", "copy", "move"}
Kinds == Moves \cup {"delete", "dir"}

ASSUME FileOpsConstants ==
  /\ N \in Nat \ {0} /\ Thresh \in 1 .. N
  /\ MaxTries \in Nat \ {0} /\ MaxFail \in Nat

VARIABLES
  kind, direct,  \* which worker, called how
  obj, staged, applied,
  phase,      \* "fan", "lock", "status", "commit", "end"
  g,          \* the goroutine of each blobber
  tries,      \* its attempts
  ref,        \* objectTreeRefs[b]: the blobber the tree came from, or N for nil
  exists,     \* alreadyExists
  loop,       \* the mask the first loop goes over
  mask, consensus, removed,
  err, errs,  \* err and errCount of ProcessDelete; its goroutines share both
  todo,       \* blobbers whose commit has not returned
  locked,     \* the write-marker lock is held
  fails,      \* history: failed exchanges so far
  result      \* what the caller gets

counted == <<err, errs>>
vars == <<kind, direct, obj, staged, applied, phase, g, tries, ref, exists,
          loop, mask, consensus, removed, err, errs, todo, locked, fails, result>>
world == <<kind, direct, obj, loop>>

Nil == N
Init ==
  /\ kind \in Kinds /\ direct \in BOOLEAN
  /\ obj \in [Blobbers -> BOOLEAN]
  /\ staged = {} /\ applied = {} /\ exists = {}
  /\ phase = "fan"
  /\ mask \in IF direct THEN {Blobbers} ELSE {m \in SUBSET Blobbers : Cardinality(m) >= Thresh}
  /\ loop = mask
  /\ g = [b \in Blobbers |-> IF b \in mask THEN (IF kind = "dir" THEN "send" ELSE "tree") ELSE "end"]
  /\ tries = [b \in Blobbers |-> 0]
  /\ ref = [b \in Blobbers |-> Nil]
  /\ consensus = 0 /\ removed = 0 /\ err = FALSE /\ errs = 0 /\ fails = 0
  /\ todo = {} /\ locked = FALSE /\ result = "none"

-----------------------------------------------------------------------------
(* getObjectTreeFromBlobber                                                *)

MayFail == fails < MaxFail /\ fails' = fails + 1

\* Whose tree the goroutine of b fetches.  DeleteOperation.Process passes the loop
\* variable pos, which the loop goes on advancing while the goroutine starts.
TreeOf(b) ==
  IF kind = "delete" /\ ~direct
    THEN {q \in loop : q >= b}
    ELSE {b}

\* After the tree: ProcessDelete waits for all trees first.
AfterTree == IF kind = "delete" /\ direct THEN "wait" ELSE "send"

TreeFound(b) ==
  /\ g[b] = "tree"
  /\ \E q \in TreeOf(b) :
       /\ obj[q]
       /\ ref' = [ref EXCEPT ![b] = q]
  /\ g' = [g EXCEPT ![b] = AfterTree]
  /\ UNCHANGED <<world, staged, applied, phase, tries, exists, mask, consensus, removed,
                 counted, todo, locked, fails, result>>

\* 404: an error to rename, copy and move; to delete, the object is already removed.
TreeMissing(b) ==
  /\ g[b] = "tree"
  /\ \E q \in TreeOf(b) : ~obj[q] /\ mask' = mask \ {q}
  /\ g' = [g EXCEPT ![b] = "end"]
  /\ consensus' = IF kind = "delete" THEN consensus + 1 ELSE consensus
  /\ removed' = IF kind = "delete" THEN removed + 1 ELSE removed
  /\ UNCHANGED <<world, staged, applied, phase, tries, ref, exists, counted, todo, locked, fails, result>>

TreeFails(b) ==
  /\ g[b] = "tree"
  /\ MayFail
  /\ \E q \in TreeOf(b) : mask' = mask \ {q}
  /\ g' = [g EXCEPT ![b] = "end"]
  /\ UNCHANGED <<world, staged, applied, phase, tries, ref, exists, consensus, removed,
                 counted, todo, locked, result>>

\* ProcessDelete: all trees are in; the count restarts with the removed ones and
\* the second loop visits the blobbers still in the mask.
StartDelete ==
  /\ phase = "fan"
  /\ \A b \in Blobbers : g[b] \in {"wait", "end"}
  /\ \E b \in Blobbers : g[b] = "wait"
  /\ consensus' = removed
  /\ g' = [b \in Blobbers |-> IF g[b] = "wait" /\ b \in mask THEN "send" ELSE "end"]
  /\ UNCHANGED <<world, staged, applied, phase, tries, ref, exists, mask, removed,
                 counted, todo, locked, fails, result>>

-----------------------------------------------------------------------------
(* The change request                                                      *)

\* The blobber has something to change (external).
Changeable(b) == obj[b] = (kind # "dir")

\* The request of b is over, with an error or not.  The goroutines of ProcessDelete
\* assign that to the err of the function and then read it back.
Sent(b, e) ==
  IF kind = "delete" /\ direct
    THEN g' = [g EXCEPT ![b] = "check"] /\ err' = e /\ UNCHANGED errs
    ELSE g' = [g EXCEPT ![b] = "end"] /\ UNCHANGED counted

\* err may by now be that of another goroutine.
CheckErr(b) ==
  /\ g[b] = "check"
  /\ g' = [g EXCEPT ![b] = "end"]
  /\ errs' = IF err THEN errs + 1 ELSE errs
  /\ UNCHANGED <<world, staged, applied, phase, tries, ref, exists, mask, consensus, removed,
                 err, todo, locked, fails, result>>

\* 200, or for delete 204 when the blobber does not have the object, or for mkdir
\* the answer directory_exists.  The blobber stages what it can change.
SendOK(b) ==
  /\ g[b] = "send"
  /\ kind \in Moves => obj[b]
  /\ consensus' = consensus + 1
  /\ staged' = IF Changeable(b) THEN staged \cup {b} ELSE staged
  /\ exists' = IF kind = "dir" /\ obj[b] THEN exists \cup {b} ELSE exists
  /\ Sent(b, FALSE)
  /\ UNCHANGED <<world, applied, phase, tries, ref, mask, removed, todo, locked, fails, result>>

\* What the mask is after the third 429.  renameBlobberObject and the others set
\* their named result, so the deferred function clears the bit; deleteBlobberFile
\* returns a fresh error its deferred function does not see.
GiveUp(b) == IF kind = "delete" THEN mask ELSE mask \ {b}

\* 429: sleep and ask again, MaxTries times in all.
TooMany(b) ==
  /\ g[b] = "send"
  /\ MayFail
  /\ tries' = [tries EXCEPT ![b] = @ + 1]
  /\ IF tries[b] + 1 < MaxTries
       THEN UNCHANGED <<g, mask, counted>>
       ELSE Sent(b, TRUE) /\ mask' = GiveUp(b)
  /\ UNCHANGED <<world, staged, applied, phase, ref, exists, consensus, removed, todo, locked, result>>

\* Any other answer, or none: the blobber may have staged the change all the same.
SendFails(b) ==
  /\ g[b] = "send"
  /\ MayFail
  /\ Sent(b, TRUE)
  /\ mask' = mask \ {b}
  /\ staged' \in {staged, IF Changeable(b) THEN staged \cup {b} ELSE staged}
  /\ UNCHANGED <<world, applied, phase, tries, ref, exists, consensus, removed, todo, locked, result>>

RenameBlobberObject(b) == kind = "rename" /\ (TreeFound(b) \/ TreeMissing(b) \/ TreeFails(b)
                                                \/ SendOK(b) \/ TooMany(b) \/ SendFails(b))
CopyBlobberObject(b) == kind = "copy" /\ (TreeFound(b) \/ TreeMissing(b) \/ TreeFails(b)
                                            \/ SendOK(b) \/ TooMany(b) \/ SendFails(b))
MoveBlobberObject(b) == kind = "move" /\ (TreeFound(b) \/ TreeMissing(b) \/ TreeFails(b)
                                            \/ SendOK(b) \/ TooMany(b) \/ SendFails(b))
DeleteBlobberFile(b) == kind = "delete" /\ (TreeFound(b) \/ TreeMissing(b) \/ TreeFails(b)
                                              \/ SendOK(b) \/ TooMany(b) \/ SendFails(b)
                                              \/ CheckErr(b))
CreateDirInBlobber(b) == kind = "dir" /\ (SendOK(b) \/ TooMany(b) \/ SendFails(b))

-----------------------------------------------------------------------------
(* Consensus, lock, status check                                           *)

\* DirOperation.Process copies the thresholds of its own, empty, request.
FanThresh == IF kind = "dir" /\ ~direct THEN 0 ELSE Thresh

\* What ProcessDelete and ProcessDir add to the locks and commits they count.
AddConsensus ==
  CASE direct /\ kind = "delete" -> removed
    [] direct /\ kind = "dir"    -> Cardinality(exists)
    [] OTHER                     -> 0

\* wgErrors has a sender, who keeps wgDone from closing.
TooManyErrors == direct /\ kind = "delete" /\ errs > N - Thresh

FanDone ==
  /\ phase = "fan" /\ ~TooManyErrors
  /\ \A b \in Blobbers : g[b] = "end"
  /\ IF consensus >= FanThresh /\ (direct \/ Cardinality(mask) >= Thresh)
       THEN phase' = "lock" /\ UNCHANGED result
       ELSE phase' = "end" /\ result' = "consensus_not_met"
  /\ UNCHANGED <<world, staged, applied, g, tries, ref, exists, mask, consensus, removed,
                 counted, todo, locked, fails>>

\* ProcessDelete returns as soon as too many blobbers failed; the others go on.  The
\* error it formats is err, which a goroutine that succeeded may have made nil.
DeleteFailsEarly ==
  /\ phase = "fan"
  /\ TooManyErrors
  /\ phase' = "end" /\ result' = IF err THEN "delete_failed" ELSE "panic"
  /\ UNCHANGED <<world, staged, applied, g, tries, ref, exists, mask, consensus, removed,
                 counted, todo, locked, fails>>

\* WriteMarkerMutex.Lock (module WriteMarkerMutex): it locks a lead, which need not be
\* in the mask, and others of the mask.  A blobber that fails to lock leaves the mask,
\* except after its third 429.
LockOK ==
  /\ phase = "lock"
  /\ \E held \in SUBSET Blobbers \ {{}}, kept \in SUBSET mask :
       /\ Cardinality(held \ mask) <= 1
       /\ Cardinality(held) + AddConsensus >= Thresh
       /\ mask' = (mask \cap held) \cup kept
       /\ fails' = fails + Cardinality(mask \ held)
       /\ fails' <= MaxFail
  /\ locked' = TRUE
  /\ phase' = "status"
  /\ UNCHANGED <<world, staged, applied, g, tries, ref, exists, consensus, removed, counted, todo, result>>
LockFails ==
  /\ phase = "lock"
  /\ phase' = "end" /\ result' = "lock_failed"
  /\ UNCHANGED <<world, staged, applied, g, tries, ref, exists, mask, consensus, removed,
                 counted, todo, locked, fails>>

\* Mutant: every worker defers its Unlock after the check.
StatusFailsLocked ==
  /\ phase = "status"
  /\ kind = "delete" => ~direct
  /\ phase' = "end" /\ result' = "status_failed"
  /\ UNCHANGED <<world, staged, applied, g, tries, ref, exists, mask, consensus, removed, counted, todo,
                 locked, fails>>

\* CheckAllocStatus (module AllocCommit) returns an error.  ProcessMove has not yet
\* deferred its Unlock.
StatusFails ==
  /\ phase = "status"
  /\ kind = "delete" => ~direct
  /\ phase' = "end" /\ result' = "status_failed"
  /\ locked' = (kind = "move" /\ direct)
  /\ UNCHANGED <<world, staged, applied, g, tries, ref, exists, mask, consensus, removed, counted, todo, fails>>

\* It says Repair or Rollback: ErrRetryOperation.
StatusRetry ==
  /\ phase = "status"
  /\ kind = "delete" => ~direct
  /\ phase' = "end" /\ result' = "retry"
  /\ locked' = FALSE
  /\ UNCHANGED <<world, staged, applied, g, tries, ref, exists, mask, consensus, removed, counted, todo, fails>>

\* Mutant: the count goes on from the fan-out.
StartCommitNoReset ==
  /\ phase = "status"
  /\ phase' = "commit"
  /\ todo' = mask
  /\ UNCHANGED <<world, staged, applied, g, tries, ref, exists, mask, consensus, removed, counted,
                 locked, fails, result>>

\* It says Commit, or the worker does not ask (ProcessDelete): count again, one
\* commit request per blobber of the mask.
StartCommit ==
  /\ phase = "status"
  /\ phase' = "commit"
  /\ consensus' = AddConsensus
  /\ todo' = mask
  /\ UNCHANGED <<world, staged, applied, g, tries, ref, exists, mask, removed, counted, locked, fails, result>>

-----------------------------------------------------------------------------
(* Commit                                                                  *)

\* buildChange: a blobber without a ref, or with the directory already, gets an
\* EmptyFileChange.  ProcessDelete and ProcessDir build no empty change.
Empty(b) ==
  CASE kind = "dir" -> ~direct /\ b \in exists
    [] OTHER        -> ref[b] = Nil

\* processCommit with nothing but empty changes: "Nothing to commit", a success.
CommitNothing(b) ==
  /\ phase = "commit" /\ b \in todo /\ Empty(b)
  /\ todo' = todo \ {b}
  /\ consensus' = consensus + 1
  /\ UNCHANGED <<world, staged, applied, phase, g, tries, ref, exists, mask, removed, counted, locked, fails, result>>

\* The blobber commits what it staged if that is what the client computed.
CommitOK(b) ==
  /\ phase = "commit" /\ b \in todo /\ ~Empty(b)
  /\ b \in staged
  /\ todo' = todo \ {b}
  /\ consensus' = consensus + 1
  /\ applied' = applied \cup {b}
  /\ UNCHANGED <<world, staged, phase, g, tries, ref, exists, mask, removed, counted, locked, fails, result>>

\* It has nothing staged, or refuses, or its answer is lost after it committed.
CommitFails(b) ==
  /\ phase = "commit" /\ b \in todo /\ ~Empty(b)
  /\ \/ b \notin staged /\ UNCHANGED <<fails, applied>>
     \/ b \in staged /\ MayFail /\ applied' \in {applied, applied \cup {b}}
  /\ todo' = todo \ {b}
  /\ UNCHANGED <<world, staged, phase, g, tries, ref, exists, mask, consensus, removed, counted, locked, result>>

Unlocked == locked' = FALSE
Committed ==
  /\ phase = "commit" /\ todo = {}
  /\ phase' = "end"
  /\ result' = IF consensus >= Thresh THEN "ok" ELSE "commit_failed"
  /\ Unlocked
  /\ UNCHANGED <<world, staged, applied, g, tries, ref, exists, mask, consensus, removed, counted, todo, fails>>

\* ProcessRename, ProcessCopy, ProcessMove, ProcessDir and ProcessDelete after the
\* fan-out; in a batch, the same steps of MultiOperation.Process.
Process ==
  \/ FanDone \/ LockOK \/ LockFails \/ StatusFails \/ StatusRetry \/ StartCommit \/ Committed
  \/ \E b \in Blobbers : CommitNothing(b) \/ CommitOK(b) \/ CommitFails(b)

Returned == phase = "end" /\ UNCHANGED vars

Next ==
  \/ \E b \in Blobbers :
       \/ RenameBlobberObject(b) \/ CopyBlobberObject(b) \/ MoveBlobberObject(b)
       \/ DeleteBlobberFile(b) \/ CreateDirInBlobber(b)
  \/ StartDelete \/ DeleteFailsEarly
  \/ Process
  \/ Returned

Spec == Init /\ [][Next]_vars

-----------------------------------------------------------------------------
TypeOK ==
  /\ kind \in Kinds /\ direct \in BOOLEAN
  /\ obj \in [Blobbers -> BOOLEAN]
  /\ staged \subseteq Blobbers /\ applied \subseteq staged /\ exists \subseteq Blobbers
  /\ g \in [Blobbers -> {"tree", "wait", "send", "check", "end"}]
  /\ tries \in [Blobbers -> 0 .. MaxTries]
  /\ ref \in [Blobbers -> Blobbers \cup {Nil}]
  /\ mask \subseteq Blobbers /\ todo \subseteq mask
  /\ consensus \in 0 .. 2 * N /\ removed \in 0 .. N /\ errs \in 0 .. N
  /\ loop \subseteq Blobbers
  /\ locked \in BOOLEAN /\ err \in BOOLEAN

\* The tree of b is as the operation wants it.
Fits(b) ==
  CASE kind = "delete" -> ~obj[b] \/ b \in applied
    [] kind = "dir"    -> obj[b] \/ b \in applied
    [] OTHER           -> b \in applied

\* An operation that reports success holds on consensusThresh blobbers at least,
\* whatever the blobbers had before and whichever requests failed or went unheard.
\* Except a batched delete: its goroutines may all have read the tree of one blobber
\* (TreeOf), and then count an absence that only that blobber reported.
SucceedsOnThreshold ==
  result = "ok" /\ (kind = "delete" => direct) =>
    Cardinality({b \in Blobbers : Fits(b)}) >= Thresh

\* The write-marker lock does not outlive the call, on whichever path it returns.
\* Except that a move returns with it when the status check fails (StatusFails).
LockReleased ==
  phase = "end" /\ locked => kind = "move" /\ direct /\ result = "status_failed"
=============================================================================
