-------------------------------- MODULE Batch --------------------------------
(***************************************************************************)
(* Allocation.DoMultiOperation (allocation.go) and MultiOperation.Process  *)
(* (multi_operation_worker.go): a list of operations is cut into batches;  *)
(* the operations of a batch run concurrently, each on its own mask, and   *)
(* are committed together to the union of the masks.                       *)
(*                                                                         *)
(* The fan-out of one operation, detailed in FileOps and ChunkedUpload, is *)
(* one step here that picks the blobbers that fail.  A path is a sequence  *)
(* of names; tree[b] is the set of paths blobber b has committed, prev[b]  *)
(* what it had before, staged[c][b] the operations it accepted on          *)
(* connection c and has not committed.                                     *)
(***************************************************************************)
EXTENDS Integers, Sequences, FiniteSets, SequencesExt

CONSTANTS
  N, Thresh,
  Lists,     \* the operation lists to explore: sequences of Operations
  Start,     \* the tree all blobbers begin with
  MaxFail    \* bound: failing exchanges

Blobbers == 0 .. N-1
Kinds == {"insert", "move", "copy", "delete", "dir"}   \* rename is a move

\* conn is the connection id a saved upload progress brings along, 0 for none.
IsOperation(o) ==
  /\ DOMAIN o = {"kind", "path", "dest", "conn"}
  /\ o.kind \in Kinds /\ o.conn \in Nat /\ Len(o.path) > 0
  /\ o.conn # 0 => o.kind = "insert"

ASSUME BatchConstants ==
  /\ N \in Nat \ {0} /\ Thresh \in 1 .. N /\ MaxFail \in Nat
  /\ \A l \in Lists : Len(l) > 0 /\ \A i \in 1 .. Len(l) : IsOperation(l[i])

VARIABLES
  ops,                  \* the operations of the call
  tree, prev, staged,
  pc,        \* "connect", "collect", "process", "lock", "commit", "return"
  i,         \* index of the next operation
  conn,      \* connectionID of DoMultiOperation
  moConn,    \* mo.connectionID
  batch,     \* mo.operations: indices into ops
  previousPaths,
  connMask,  \* operationMask after createConnectionObj; the masks of the file operations
  mask,      \* operationMask of Process: the union
  st,        \* goroutine of each operation: "run", "done", "gone"
  cancelled, \* ctxCncl was called
  change,    \* change[k][b]: "change", "empty" or "nil"
  todo, consensus, rollbackMask,
  base,      \* history: the trees when the batch began
  took,      \* history: blobbers that hold what operation k asked for
  hit,       \* history: blobbers that a failed exchange touched
  fails, ret

blobs == <<tree, prev, staged>>
vars == <<ops, blobs, pc, i, conn, moConn, batch, previousPaths, connMask, mask, st, cancelled,
          change, todo, consensus, rollbackMask, base, took, hit, fails, ret>>

-----------------------------------------------------------------------------
(* What an operation does to a tree, and what a blobber answers (external) *)

Under(p, T) == {q \in T : IsPrefix(p, q)}
Moved(o, T) == {o.dest \o SubSeq(q, Len(o.path) + 1, Len(q)) : q \in Under(o.path, T)}
Apply(o, T) ==
  CASE o.kind \in {"insert", "dir"} -> T \cup {o.path}
    [] o.kind = "delete"            -> T \ Under(o.path, T)
    [] o.kind = "copy"              -> T \cup Moved(o, T)
    [] o.kind = "move"              -> (T \ Under(o.path, T)) \cup Moved(o, T)
\* The operations K of the list os, in the order of the list.
ApplyAll(os, K, T) ==
  FoldLeft(LAMBDA t, k : IF k \in K THEN Apply(os[k], t) ELSE t, T, [k \in 1 .. Len(os) |-> k])

\* A request refers to the committed tree: an insert needs a free path, a move or a
\* copy its source.
Accepts(o, T) ==
  CASE o.kind = "insert"          -> o.path \notin T
    [] o.kind \in {"move", "copy"} -> o.path \in T
    [] OTHER                       -> TRUE
\* There is nothing to do: a delete gets 404, a mkdir directory_exists, an insert
\* "duplicate".
Needless(o, T) ==
  \/ o.kind = "delete" /\ o.path \notin T
  \/ o.kind \in {"insert", "dir"} /\ o.path \in T

-----------------------------------------------------------------------------
(* DoMultiOperation                                                        *)

Connections == {0} \cup {ops[k].conn : k \in 1 .. Len(ops)}
Init ==
  /\ ops \in Lists
  /\ tree = [b \in Blobbers |-> Start] /\ prev = [b \in Blobbers |-> {}]
  /\ staged = [c \in Connections |-> [b \in Blobbers |-> {}]]
  /\ pc = "connect" /\ i = 1 /\ conn = 0 /\ moConn = 0 /\ batch = <<>> /\ previousPaths = {}
  /\ connMask = {} /\ mask = {} /\ st = <<>> /\ cancelled = FALSE /\ change = <<>>
  /\ todo = {} /\ consensus = 0 /\ rollbackMask = {}
  /\ base = tree /\ took = [k \in 1 .. Len(ops) |-> {}] /\ hit = {}
  /\ fails = 0 /\ ret = "none"

\* n exchanges fail, with the blobbers of S.
Fail(n, S) == fails' = fails + n /\ fails' <= MaxFail /\ hit' = hit \cup S
Return(r) == pc' = "return" /\ ret' = r

\* createConnectionObj for every blobber; too few connections are an error.
Connect ==
  /\ pc = "connect"
  /\ \E m \in SUBSET Blobbers :
       /\ Fail(N - Cardinality(m), Blobbers \ m)
       /\ connMask' = m
       /\ IF Cardinality(m) < Thresh
            THEN Return("error")
            ELSE pc' = "collect" /\ UNCHANGED ret
  /\ moConn' = conn
  /\ batch' = <<>> /\ previousPaths' = {} /\ mask' = {}
  /\ consensus' = 0 /\ rollbackMask' = {}
  /\ base' = tree
  /\ UNCHANGED <<ops, blobs, i, conn, st, cancelled, change, todo, took>>

\* A path and its ancestors below the root.
GenerateParentPaths(p) == {SubSeq(p, 1, n) : n \in 1 .. Len(p)}

\* Mutant: operations are never seen to conflict.
NoConflict(o) == FALSE
Conflict(o) == o.path \in previousPaths
OtherConnection(o) == o.conn \notin {0, conn}
Closes == i <= Len(ops) => Conflict(ops[i]) \/ OtherConnection(ops[i])

\* One turn of the inner loop, for an operation that joins the batch.
Collect ==
  /\ pc = "collect" /\ i <= Len(ops)
  /\ ~Conflict(ops[i]) /\ ~OtherConnection(ops[i])
  /\ batch' = Append(batch, i)
  /\ previousPaths' = previousPaths \cup GenerateParentPaths(ops[i].path)
  /\ i' = i + 1
  /\ UNCHANGED <<ops, blobs, pc, conn, moConn, connMask, mask, st, cancelled, change, todo,
                 consensus, rollbackMask, base, took, hit, fails, ret>>

\* New...Operation or Verify fails.
CollectFails ==
  /\ pc = "collect" /\ i <= Len(ops) /\ ~Conflict(ops[i])
  /\ Fail(1, {}) /\ Return("error")
  /\ UNCHANGED <<ops, blobs, i, conn, moConn, batch, previousPaths, connMask, mask, st, cancelled,
                 change, todo, consensus, rollbackMask, base, took>>

\* Process begins: one goroutine per operation.
Launch ==
  /\ mask' = {} /\ cancelled' = FALSE
  /\ st' = [k \in Range(batch) |-> "run"]
  /\ change' = [k \in Range(batch) |-> [b \in Blobbers |-> "nil"]]
  /\ pc' = IF batch = <<>> THEN "connect" ELSE "process"

\* Mutant: the connection id of the saved progress is not taken over.
CloseBatchKeepsConnection ==
  /\ pc = "collect"
  /\ Closes
  /\ Launch
  /\ UNCHANGED <<ops, blobs, i, conn, moConn, batch, previousPaths, connMask, todo, consensus,
                 rollbackMask, base, took, hit, fails, ret>>

\* The list is at its end, the next operation conflicts, or it continues an upload of
\* another connection, which the next batch will use.
CloseBatch ==
  /\ pc = "collect"
  /\ Closes
  /\ conn' = IF i <= Len(ops) /\ ~Conflict(ops[i]) THEN ops[i].conn ELSE conn
  /\ Launch
  /\ UNCHANGED <<ops, blobs, i, moConn, batch, previousPaths, connMask, todo, consensus, rollbackMask,
                 base, took, hit, fails, ret>>

-----------------------------------------------------------------------------
(* Process: the operations                                                 *)

\* The blobbers an operation asks: an upload all of them.
Asked(k) == IF ops[k].kind = "insert" THEN Blobbers ELSE connMask
\* DirOperation.Process copies the thresholds of its own, empty, request.
OpThresh(k) == IF ops[k].kind = "dir" THEN 0 ELSE Thresh

\* The mask of operation k, not a delete, when the requests to bad failed: the blobbers
\* that accepted it or, for mkdir, had the directory.
OpMask(k, bad) == {b \in Asked(k) \ bad : Accepts(ops[k], tree[b])}
\* What counts as an OK: the mask and the duplicates of an insert, unless there are
\* Thresh duplicates.
OKs(k, bad) ==
  LET needless == {b \in Asked(k) \ bad : Needless(ops[k], tree[b])}
  IN  IF ops[k].kind = "insert" /\ Cardinality(needless) >= Thresh
        THEN {}
        ELSE OpMask(k, bad) \cup needless

\* buildChange: mkdir goes over the mask it started with, the others leave what failed
\* empty.
BuildChange(k, bad) ==
  [b \in Blobbers |->
     IF ops[k].kind = "dir"
       THEN IF b \notin connMask THEN "nil"
            ELSE IF b \notin bad /\ Needless(ops[k], tree[b]) THEN "empty" ELSE "change"
       ELSE IF b \in OpMask(k, bad) THEN "change" ELSE "empty"]

\* The blobbers of S stage operation k.
Stage(k, S) ==
  [staged EXCEPT ![moConn] = [b \in Blobbers |-> IF b \in S THEN @[b] \cup {k} ELSE @[b]]]

\* Operation k has n OKs.  Too few of them cancel the other operations.
OpEnds(k, n, m, ch) ==
  IF n >= OpThresh(k)
    THEN /\ mask' = mask \cup m
         /\ change' = [change EXCEPT ![k] = ch]
         /\ took' = [took EXCEPT ![k] = {b \in Blobbers : Needless(ops[k], tree[b])}]
         /\ st' = [st EXCEPT ![k] = "done"]
         /\ UNCHANGED cancelled
    ELSE /\ cancelled' = TRUE
         /\ st' = [st EXCEPT ![k] = "gone"]
         /\ UNCHANGED <<mask, change, took>>

\* After the cancellation requests fail by themselves.
OpFails(failed, touched) ==
  IF cancelled THEN UNCHANGED <<fails, hit>> ELSE Fail(Cardinality(failed), touched)

\* An operation other than a delete runs; the requests to bad fail, but heard had
\* accepted them.
OpProcess(k) ==
  /\ pc = "process" /\ st[k] = "run" /\ ops[k].kind # "delete"
  /\ \E bad \in SUBSET Asked(k) : \E heard \in SUBSET {b \in bad : Accepts(ops[k], tree[b])} :
       /\ OpFails(bad, bad)
       /\ staged' = Stage(k, {b \in OpMask(k, bad) \cup heard : ~Needless(ops[k], tree[b])})
       /\ OpEnds(k, Cardinality(OKs(k, bad)), OpMask(k, bad), BuildChange(k, bad))
  /\ UNCHANGED <<ops, tree, prev, pc, i, conn, moConn, batch, previousPaths, connMask, todo,
                 consensus, rollbackMask, base, ret>>

\* DeleteOperation.Process.  The goroutine of b fetches the tree of read[b]: it is passed
\* the loop variable pos, which the loop goes on advancing.  How its requests end: "tree",
\* the tree is not fetched; "send", the delete fails; "heard", it does after the blobber
\* has staged it; "busy", three times 429; "ok", any answer, 404 and 204 among them.
Reads == {r \in [connMask -> connMask] : \A b \in connMask : r[b] >= b}
HasPath(k, b) == ops[k].path \in tree[b]
Ends(k, read, b) ==
  CASE ~HasPath(k, read[b]) -> {"ok", "tree"}
    [] ~HasPath(k, b)       -> {"ok", "tree", "send", "busy"}
    [] OTHER                -> {"ok", "tree", "send", "heard", "busy"}
\* The goroutines that have a tree, which buildChange goes by.
Fetched(k, read, end) == {b \in connMask : end[b] # "tree" /\ HasPath(k, read[b])}
DeleteChange(k, read, end) ==
  [b \in Blobbers |-> IF b \in Fetched(k, read, end) THEN "change" ELSE "empty"]
\* A failure or 404 takes the blobber asked for its tree out of the mask, a failed delete
\* its own; three 429 take none.
DeleteMask(k, read, end) ==
  connMask \ ({read[b] : b \in connMask \ Fetched(k, read, end)}
                 \cup {b \in connMask : end[b] \in {"send", "heard"}})
DeleteStages(k, read, end) ==
  {b \in Fetched(k, read, end) : end[b] \in {"ok", "heard"} /\ HasPath(k, b)}
\* Who a failure touches, and who went by the tree of a blobber that differs.
DeleteTouches(k, read, end) ==
  {b \in connMask : end[b] # "ok" \/ HasPath(k, b) # HasPath(k, read[b])}
    \cup {read[b] : b \in {c \in connMask : end[c] = "tree"}}

DeleteProcess(k) ==
  /\ pc = "process" /\ st[k] = "run" /\ ops[k].kind = "delete"
  /\ \E read \in Reads : \E end \in [connMask -> {"ok", "tree", "send", "heard", "busy"}] :
       /\ \A b \in connMask : end[b] \in Ends(k, read, b)
       /\ OpFails({b \in connMask : end[b] # "ok"}, DeleteTouches(k, read, end))
       /\ staged' = Stage(k, DeleteStages(k, read, end))
       /\ OpEnds(k, Cardinality({b \in connMask : end[b] = "ok"}), DeleteMask(k, read, end),
                 DeleteChange(k, read, end))
  /\ UNCHANGED <<ops, tree, prev, pc, i, conn, moConn, batch, previousPaths, connMask, todo,
                 consensus, rollbackMask, base, ret>>

\* A goroutine that starts after the cancellation.
OpSkipped(k) ==
  /\ pc = "process" /\ st[k] = "run" /\ cancelled
  /\ st' = [st EXCEPT ![k] = "gone"]
  /\ UNCHANGED <<ops, blobs, pc, i, conn, moConn, batch, previousPaths, connMask, mask, cancelled,
                 change, todo, consensus, rollbackMask, base, took, hit, fails, ret>>

AllProcessed ==
  /\ pc = "process" /\ \A k \in Range(batch) : st[k] # "run"
  /\ IF Cardinality(mask) < Thresh \/ cancelled
       THEN Return("error")
       ELSE pc' = "lock" /\ UNCHANGED ret
  /\ UNCHANGED <<ops, blobs, i, conn, moConn, batch, previousPaths, connMask, mask, st, cancelled,
                 change, todo, consensus, rollbackMask, base, took, hit, fails>>

-----------------------------------------------------------------------------
(* Process: lock, check and commit (modules WriteMarkerMutex, AllocCommit)  *)

\* Mutant: the count goes on from Lock's.
LockedNoReset ==
  /\ pc = "lock"
  /\ \E held \in SUBSET Blobbers, kept \in SUBSET mask :
       /\ Cardinality(held \ mask) <= 1 /\ Cardinality(held) >= Thresh
       /\ Fail(Cardinality(mask \ held), mask \ held)
       /\ mask' = (mask \cap held) \cup kept
       /\ todo' = mask'
       /\ consensus' = Cardinality(held)
  /\ rollbackMask' = {}
  /\ pc' = "commit"
  /\ UNCHANGED <<ops, blobs, i, conn, moConn, batch, previousPaths, connMask, st, cancelled, change,
                 base, took, ret>>

\* Lock succeeds and CheckAllocStatus says Commit: the count restarts.
Locked ==
  /\ pc = "lock"
  /\ \E held \in SUBSET Blobbers, kept \in SUBSET mask :
       /\ Cardinality(held \ mask) <= 1 /\ Cardinality(held) >= Thresh
       /\ Fail(Cardinality(mask \ held), mask \ held)
       /\ mask' = (mask \cap held) \cup kept
       /\ todo' = mask'
  /\ consensus' = 0 /\ rollbackMask' = {}
  /\ pc' = "commit"
  /\ UNCHANGED <<ops, blobs, i, conn, moConn, batch, previousPaths, connMask, st, cancelled, change,
                 base, took, ret>>

\* Lock or CheckAllocStatus fails, or it says Repair or Rollback.
LockFails ==
  /\ pc = "lock" /\ Fail(1, {}) /\ Return("error")
  /\ UNCHANGED <<ops, blobs, i, conn, moConn, batch, previousPaths, connMask, mask, st, cancelled,
                 change, todo, consensus, rollbackMask, base, took>>

\* Row b of the transposed changes, which keep the order of the list.
Mine(b) == {k \in Range(batch) : change[k][b] = "change"}
HasNil(b) == \E k \in Range(batch) : change[k][b] = "nil"

Counted(b) ==
  /\ consensus' = consensus + 1
  /\ rollbackMask' = rollbackMask \cup {b}
  /\ took' = [k \in DOMAIN took |-> IF k \in Mine(b) THEN took[k] \cup {b} ELSE took[k]]

\* processCommit calls a method of a change that is not there.
CommitPanics(b) ==
  /\ pc = "commit" /\ b \in todo /\ HasNil(b)
  /\ Return("panic")
  /\ UNCHANGED <<ops, blobs, i, conn, moConn, batch, previousPaths, connMask, mask, st, cancelled,
                 change, todo, consensus, rollbackMask, base, took, hit, fails>>

\* Only empty changes: "Nothing to commit", counted as a commit.
CommitNothing(b) ==
  /\ pc = "commit" /\ b \in todo /\ ~HasNil(b) /\ Mine(b) = {}
  /\ todo' = todo \ {b}
  /\ Counted(b)
  /\ UNCHANGED <<ops, blobs, pc, i, conn, moConn, batch, previousPaths, connMask, mask, st, cancelled,
                 change, base, hit, fails, ret>>

\* The blobber applies what it staged and commits if that gives the client's root.
Committed(b) ==
  /\ tree' = [tree EXCEPT ![b] = ApplyAll(ops, Mine(b), @)]
  /\ prev' = [prev EXCEPT ![b] = tree[b]]
  /\ staged' = [staged EXCEPT ![moConn][b] = {}]
CommitOK(b) ==
  /\ pc = "commit" /\ b \in todo /\ ~HasNil(b)
  /\ Mine(b) # {} /\ Mine(b) = staged[moConn][b]
  /\ todo' = todo \ {b}
  /\ Committed(b) /\ Counted(b)
  /\ UNCHANGED <<ops, pc, i, conn, moConn, batch, previousPaths, connMask, mask, st, cancelled,
                 change, base, hit, fails, ret>>

\* The roots differ, the request fails, or only its answer is lost.
CommitFails(b) ==
  /\ pc = "commit" /\ b \in todo /\ ~HasNil(b) /\ Mine(b) # {}
  /\ \/ Mine(b) # staged[moConn][b] /\ UNCHANGED <<blobs, hit, fails>>
     \/ Fail(1, {b}) /\ UNCHANGED blobs
     \/ Mine(b) = staged[moConn][b] /\ Fail(1, {b}) /\ Committed(b)
  /\ todo' = todo \ {b}
  /\ UNCHANGED <<ops, pc, i, conn, moConn, batch, previousPaths, connMask, mask, st, cancelled,
                 change, consensus, rollbackMask, base, took, ret>>

\* Enough commits: the next batch, or the end of the list.
BatchDone ==
  /\ pc = "commit" /\ todo = {} /\ consensus >= Thresh
  /\ IF i > Len(ops) THEN Return("ok") ELSE pc' = "connect" /\ UNCHANGED ret
  /\ UNCHANGED <<ops, blobs, i, conn, moConn, batch, previousPaths, connMask, mask, st, cancelled,
                 change, todo, consensus, rollbackMask, base, took, hit, fails>>

\* Mutant: every blobber of the mask is rolled back.
BatchFailsUndoesAll ==
  /\ pc = "commit" /\ todo = {} /\ consensus < Thresh
  /\ tree' = [b \in Blobbers |-> IF b \in mask THEN prev[b] ELSE tree[b]]
  /\ Return("error")
  /\ UNCHANGED <<ops, prev, staged, i, conn, moConn, batch, previousPaths, connMask, mask, st,
                 cancelled, change, todo, consensus, rollbackMask, base, took, hit, fails>>

\* Too few: RollbackWithMask takes the blobbers of rollbackMask back to their previous
\* marker, as far as they answer, and the call returns.
BatchFails ==
  /\ pc = "commit" /\ todo = {} /\ consensus < Thresh
  /\ \E undone \in SUBSET rollbackMask :
       /\ Fail(Cardinality(rollbackMask \ undone), rollbackMask \ undone)
       /\ tree' = [b \in Blobbers |-> IF b \in undone /\ tree[b] # {} THEN prev[b] ELSE tree[b]]
  /\ Return("error")
  /\ UNCHANGED <<ops, prev, staged, i, conn, moConn, batch, previousPaths, connMask, mask, st,
                 cancelled, change, todo, consensus, rollbackMask, base, took>>

Returned == pc = "return" /\ UNCHANGED vars

Process ==
  \/ \E k \in Range(batch) : OpProcess(k) \/ DeleteProcess(k) \/ OpSkipped(k)
  \/ AllProcessed \/ Locked \/ LockFails
  \/ \E b \in Blobbers : CommitPanics(b) \/ CommitNothing(b) \/ CommitOK(b) \/ CommitFails(b)
  \/ BatchDone \/ BatchFails
Next == Connect \/ Collect \/ CollectFails \/ CloseBatch \/ Process \/ Returned

Spec == Init /\ [][Next]_vars
\* The call keeps running, and every exchange ends.
FairSpec == Spec /\ WF_vars(Next)

-----------------------------------------------------------------------------
TypeOK ==
  /\ ops \in Lists /\ i \in 1 .. Len(ops) + 1
  /\ conn \in Connections /\ moConn \in Connections
  /\ connMask \subseteq Blobbers /\ mask \subseteq Blobbers
  /\ todo \subseteq mask /\ rollbackMask \subseteq mask
  /\ consensus \in 0 .. Cardinality(mask)
  /\ \A k \in Range(batch) : k < i
  /\ pc \in {"process", "lock", "commit"} => batch # <<>>

\* DoMultiOperation only looks a path up among the earlier paths of the batch and their
\* ancestors.  An operation may share a batch with the copy or move whose destination it
\* names, or with the delete or move of a directory above it.
Overlooked(o, e) ==
  \/ e.kind \in {"copy", "move"} /\ (IsPrefix(e.dest, o.path) \/ IsPrefix(o.path, e.dest))
  \/ e.kind \in {"delete", "move"} /\ IsStrictPrefix(e.path, o.path)

\* When nothing failed and the call returns nil, every blobber has the tree that the
\* operations give one after the other: whatever order the goroutines of a batch ran in,
\* and although each looked at the tree from before the batch.
SequentialEffect ==
  ret = "ok" /\ fails = 0
  /\ (\A k \in 1 .. Len(ops) : \A j \in 1 .. k-1 : ~Overlooked(ops[k], ops[j])) =>
    \A b \in Blobbers : tree[b] = ApplyAll(ops, 1 .. Len(ops), Start)

\* Failures touched no more blobbers than there are to spare, and two sets of Thresh
\* blobbers meet.
FewHit == Cardinality(hit) <= N - Thresh /\ 2 * Thresh > N
\* An operation of a batch that Process reported as completed holds on Thresh blobbers.
\* (The commit counts the blobbers of the union of the masks, so with more failures the
\* operations of one batch may each miss a different blobber.  A batched delete fetches
\* the tree of one blobber in the goroutine of another, so that one failure or one blobber
\* without the file touches two: with more than the spare ones touched, a delete alone in
\* its batch is reported completed although most blobbers keep the file.)
CompletedOnThreshold ==
  (pc = "connect" \/ ret = "ok") /\ (FewHit \/ (Len(batch) = 1 /\ ops[batch[1]].kind # "delete")) =>
    \A k \in Range(batch) : Cardinality(took[k]) >= Thresh

\* A batch leaves a blobber with the tree from before it, or with the batch's changes
\* on top.  Only a blobber that had nothing to commit can lose what an earlier batch did:
\* it counts as committed, and when the batch fails it is rolled back with the others, to
\* the version before.
OnlyOwnChanges ==
  \A b \in Blobbers :
    tree[b] # base[b] =>
      /\ b \in mask
      /\ tree[b] = IF Mine(b) # {} THEN ApplyAll(ops, Mine(b), base[b]) ELSE prev[b]
      /\ Mine(b) = {} => ret = "error" /\ b \in rollbackMask

\* DoMultiOperation returns, whichever operations bring their own connection along.
Returns == <>(pc = "return")
=============================================================================
