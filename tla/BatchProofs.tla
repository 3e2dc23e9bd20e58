----------------------------- MODULE BatchProofs -----------------------------
(*****************************************************************************)
(* DoMultiOperation, for every list of operations, number of blobbers,       *)
(* threshold and failures: a batch leaves a blobber as it was or with the    *)
(* batch's own changes, and an operation that was reported done is on a      *)
(* threshold of the blobbers.                                                *)
(*****************************************************************************)
EXTENDS Batch, FiniteSetTheorems, TLAPS

\* The positions in the list of operations.
Indices == 1 .. Len(ops)
Running == pc \in {"process", "lock", "commit"}

TypeInv ==
  /\ pc \in {"connect", "collect", "process", "lock", "commit", "return"}
  /\ ret \in {"none", "ok", "error", "panic"} /\ (ret = "ok" => pc = "return")
  /\ i \in Nat \ {0} /\ fails \in Nat /\ consensus \in Nat
  /\ conn \in Connections /\ moConn \in Connections
  /\ batch \in Seq(Indices)
  /\ tree = [b \in Blobbers |-> tree[b]] /\ prev = [b \in Blobbers |-> prev[b]]
  /\ staged \in [Connections -> [Blobbers -> SUBSET Indices]]
  /\ took \in [Indices -> SUBSET Blobbers]
  /\ connMask \subseteq Blobbers /\ mask \subseteq Blobbers /\ hit \subseteq Blobbers
  /\ (pc = "commit" => todo \subseteq mask /\ rollbackMask \subseteq mask \ todo)
  /\ (Running => /\ st \in [Range(batch) -> {"run", "done", "gone"}]
                 /\ change \in [Range(batch) -> [Blobbers -> {"change", "empty", "nil"}]]
                 /\ batch # <<>>)
  /\ cancelled \in BOOLEAN

\* The tree with the changes of the batch on top of the one before it.
OwnTree(b) == ApplyAll(ops, Mine(b), base[b])
\* A blobber changes in the commit alone, and the tree a rollback goes back to is the one
\* from before the batch.
OwnInv ==
  /\ pc \in {"collect", "process", "lock"} => \A b \in Blobbers : tree[b] = base[b]
  /\ pc = "commit" =>
       \A b \in Blobbers :
         /\ b \in todo \/ b \notin mask => tree[b] = base[b]
         /\ tree[b] \in {base[b], OwnTree(b)}
         /\ b \in rollbackMask /\ Mine(b) # {} => prev[b] = base[b]
         /\ Mine(b) = {} => tree[b] = base[b]
  /\ pc \in {"connect", "return"} => OnlyOwnChanges

\* A batch of one operation: who has committed has taken it, and the count is of them.
SingleInv ==
  Len(batch) = 1 /\ ops[batch[1]].kind # "delete" =>
    /\ pc = "process" /\ st[batch[1]] = "run" => mask = {}
    /\ Running => \A b \in mask : change[batch[1]][b] = "change" \/ b \in took[batch[1]]
    /\ pc = "commit" => consensus = Cardinality(rollbackMask) /\ rollbackMask \subseteq took[batch[1]]
    /\ (pc = "connect" \/ ret = "ok") => Cardinality(took[batch[1]]) >= Thresh

\* The commit of the batch is over at the blobber.
Settled(b) == pc = "commit" /\ b \notin todo
\* A processed operation is staged at the blobber or has nothing to do there.
OpClean(k, b) ==
  /\ change[k][b] = IF Needless(ops[k], base[b]) THEN "empty" ELSE "change"
  /\ IF Needless(ops[k], base[b]) THEN b \in took[k] ELSE b \in mask
\* No exchange with the blobber has failed: it has every change of the batch, and none that
\* an earlier connection left behind.
Clean(b) ==
  /\ \A c \in Connections : pc \in {"connect", "collect"} \/ c # moConn => staged[c][b] = {}
  /\ pc # "connect" => b \in connMask
  /\ Running =>
       /\ \A k \in Range(batch) :
            IF st[k] = "done" THEN OpClean(k, b) ELSE change[k][b] = "nil"
       /\ staged[moConn][b] = IF Settled(b) THEN {} ELSE Mine(b)
  /\ Settled(b) => /\ tree[b] = IF Mine(b) = {} THEN base[b] ELSE OwnTree(b)
                   /\ \A k \in Mine(b) : b \in took[k]
\* Blobbers without failures have the same tree.
Agree(b, c) == IF pc = "connect" THEN tree[b] = tree[c] ELSE base[b] = base[c]
\* The blobbers that no failure touched.
CleanSet ==
  /\ \A b \in Blobbers \ hit : Clean(b)
  /\ \A b, c \in Blobbers \ hit : Agree(b, c)
\* An operation is dropped only when the batch is cancelled.
StatusInv ==
  /\ cancelled => pc \in {"process", "return"}
  /\ pc \in {"lock", "commit"} => \A k \in Range(batch) : st[k] = "done"
  /\ pc = "process" /\ ~cancelled => \A k \in Range(batch) : st[k] # "gone"
\* With few failures the other blobbers are more than half: they are clean, and they decide.
CleanInv == FewHit /\ pc # "return" /\ ~cancelled => CleanSet
\* A batch that is over and did not fail is on a threshold of the blobbers.
FullInv ==
  FewHit /\ (pc = "connect" \/ ret = "ok") => \A k \in Range(batch) : Cardinality(took[k]) >= Thresh

-----------------------------------------------------------------------------
(* Types                                                                   *)

\* The actions of Next, without the stuttering of a call that has returned.
Steps ==
  \/ Connect \/ Collect \/ CollectFails \/ CloseBatch
  \/ \E k \in Range(batch) : OpProcess(k) \/ DeleteProcess(k) \/ OpSkipped(k)
  \/ AllProcessed \/ Locked \/ LockFails
  \/ \E b \in Blobbers : CommitPanics(b) \/ CommitNothing(b) \/ CommitOK(b) \/ CommitFails(b)
  \/ BatchDone \/ BatchFails

LEMMA NextSteps == Next => Steps \/ UNCHANGED vars
  BY DEF Next, Process, Steps, Returned

LEMMA BlobberSets ==
  /\ IsFiniteSet(Blobbers) /\ Cardinality(Blobbers) = N /\ N \in Nat /\ Thresh \in 1 .. N
  /\ \A S \in SUBSET Blobbers :
       IsFiniteSet(S) /\ Cardinality(S) \in Nat /\ Cardinality(S) <= N
<1>1. N \in Nat \ {0} /\ Thresh \in 1 .. N BY BatchConstants
<1>2. IsFiniteSet(Blobbers) /\ Cardinality(Blobbers) = N BY <1>1, FS_Interval DEF Blobbers
<1> QED BY <1>1, <1>2, FS_Subset, FS_CardinalityType

LEMMA InitTypes == Init => TypeInv
<1> SUFFICES ASSUME Init PROVE TypeInv
  OBVIOUS
<1>1. batch \in Seq(Indices) BY DEF Init
<1>2. conn \in Connections /\ moConn \in Connections BY DEF Init, Connections
<1>3. staged \in [Connections -> [Blobbers -> SUBSET Indices]] BY DEF Init
<1>4. took \in [Indices -> SUBSET Blobbers] BY DEF Init, Indices
<1>5. tree = [b \in Blobbers |-> tree[b]] /\ prev = [b \in Blobbers |-> prev[b]] BY DEF Init
<1>6. /\ pc = "connect" /\ ret = "none" /\ i = 1 /\ fails = 0 /\ consensus = 0
      /\ connMask = {} /\ mask = {} /\ hit = {} /\ cancelled = FALSE
  BY DEF Init
<1>7. i \in Nat \ {0} /\ fails \in Nat /\ consensus \in Nat BY <1>6
<1>8. ~Running /\ pc # "commit" BY <1>6 DEF Running
<1>9. connMask \subseteq Blobbers /\ mask \subseteq Blobbers /\ hit \subseteq Blobbers BY <1>6
<1> QED BY <1>1, <1>2, <1>3, <1>4, <1>5, <1>6, <1>7, <1>8, <1>9, Zenon DEF TypeInv

LEMMA FailTypes ==
  ASSUME TypeInv, NEW n \in Nat, NEW S \in SUBSET Blobbers, Fail(n, S)
  PROVE  fails' \in Nat /\ fails' = fails + n /\ hit' = hit \cup S /\ hit' \subseteq Blobbers
  BY DEF TypeInv, Fail

LEMMA StageTypes ==
  ASSUME TypeInv, NEW k \in Indices, NEW S
  PROVE  Stage(k, S) \in [Connections -> [Blobbers -> SUBSET Indices]]
<1>1. moConn \in Connections /\ staged \in [Connections -> [Blobbers -> SUBSET Indices]]
  BY DEF TypeInv
<1>2. [b \in Blobbers |-> IF b \in S THEN staged[moConn][b] \cup {k} ELSE staged[moConn][b]]
        \in [Blobbers -> SUBSET Indices]
  BY <1>1
<1> QED BY <1>1, <1>2 DEF Stage

LEMMA BuildTypes ==
  /\ \A k, bad : BuildChange(k, bad) \in [Blobbers -> {"change", "empty", "nil"}]
  /\ \A k, read, end : DeleteChange(k, read, end) \in [Blobbers -> {"change", "empty", "nil"}]
  BY DEF BuildChange, DeleteChange

\* What the processing of an operation comes to, of whichever kind.
Processes(k, n, m, ch, S, failed, touched) ==
  /\ OpFails(failed, touched) /\ staged' = Stage(k, S) /\ OpEnds(k, n, m, ch)
  /\ failed \in SUBSET Blobbers /\ touched \in SUBSET Blobbers /\ m \in SUBSET Blobbers
  /\ ch \in [Blobbers -> {"change", "empty", "nil"}]
  /\ pc = "process" /\ st[k] = "run"
  /\ UNCHANGED <<ops, tree, prev, pc, i, conn, moConn, batch, previousPaths, connMask, todo,
                 consensus, rollbackMask, base, ret>>

LEMMA ProcessShape ==
  ASSUME TypeInv, NEW k \in Range(batch), OpProcess(k) \/ DeleteProcess(k)
  PROVE  \E n, m, ch, S, failed, touched : Processes(k, n, m, ch, S, failed, touched)
<1>1. Asked(k) \subseteq Blobbers /\ connMask \subseteq Blobbers BY DEF Asked, TypeInv
<1>2. CASE OpProcess(k)
  <2>1. PICK bad \in SUBSET Asked(k), heard \in SUBSET Blobbers :
          /\ OpFails(bad, bad)
          /\ staged' = Stage(k, {b \in OpMask(k, bad) \cup heard : ~Needless(ops[k], tree[b])})
          /\ OpEnds(k, Cardinality(OKs(k, bad)), OpMask(k, bad), BuildChange(k, bad))
    BY <1>1, <1>2 DEF OpProcess
  <2>2. OpMask(k, bad) \in SUBSET Blobbers BY <1>1 DEF OpMask
  <2>3. Processes(k, Cardinality(OKs(k, bad)), OpMask(k, bad), BuildChange(k, bad),
                  {b \in OpMask(k, bad) \cup heard : ~Needless(ops[k], tree[b])}, bad, bad)
    BY <1>1, <1>2, <2>1, <2>2, BuildTypes DEF OpProcess, Processes
  <2> QED BY <2>3
<1>3. CASE DeleteProcess(k)
  <2>1. PICK read \in Reads, end \in [connMask -> {"ok", "tree", "send", "heard", "busy"}] :
          /\ OpFails({b \in connMask : end[b] # "ok"}, DeleteTouches(k, read, end))
          /\ staged' = Stage(k, DeleteStages(k, read, end))
          /\ OpEnds(k, Cardinality({b \in connMask : end[b] = "ok"}), DeleteMask(k, read, end),
                    DeleteChange(k, read, end))
    BY <1>3 DEF DeleteProcess
  <2>2. /\ {b \in connMask : end[b] # "ok"} \in SUBSET Blobbers
        /\ DeleteTouches(k, read, end) \in SUBSET Blobbers
        /\ DeleteMask(k, read, end) \in SUBSET Blobbers
    BY <1>1 DEF DeleteTouches, DeleteMask, Reads
  <2>3. Processes(k, Cardinality({b \in connMask : end[b] = "ok"}), DeleteMask(k, read, end),
                  DeleteChange(k, read, end), DeleteStages(k, read, end),
                  {b \in connMask : end[b] # "ok"}, DeleteTouches(k, read, end))
    BY <1>3, <2>1, <2>2, BuildTypes DEF DeleteProcess, Processes
  <2> QED BY <2>3
<1> QED BY <1>2, <1>3

LEMMA CountedTypes ==
  ASSUME TypeInv, NEW b \in Blobbers, Counted(b), pc = "commit", b \in todo
  PROVE  /\ consensus' \in Nat /\ took' \in [Indices -> SUBSET Blobbers]
         /\ rollbackMask' \subseteq mask \ (todo \ {b})
  BY DEF TypeInv, Counted

LEMMA CommittedTypes ==
  ASSUME TypeInv, NEW b \in Blobbers, Committed(b)
  PROVE  /\ tree' = [c \in Blobbers |-> tree'[c]] /\ prev' = [c \in Blobbers |-> prev'[c]]
         /\ staged' \in [Connections -> [Blobbers -> SUBSET Indices]]
<1>1. moConn \in Connections /\ staged \in [Connections -> [Blobbers -> SUBSET Indices]]
  BY DEF TypeInv
<1>2. tree' = [tree EXCEPT ![b] = ApplyAll(ops, Mine(b), @)] /\ prev' = [prev EXCEPT ![b] = tree[b]]
  BY DEF Committed
<1>3. tree = [c \in Blobbers |-> tree[c]] /\ prev = [c \in Blobbers |-> prev[c]] BY DEF TypeInv
<1>4. tree' = [c \in Blobbers |-> tree'[c]] BY <1>2, <1>3
<1>5. prev' = [c \in Blobbers |-> prev'[c]] BY <1>2, <1>3
<1>6. [staged[moConn] EXCEPT ![b] = {}] \in [Blobbers -> SUBSET Indices] BY <1>1
<1>7. staged' \in [Connections -> [Blobbers -> SUBSET Indices]] BY <1>1, <1>6 DEF Committed
<1> QED BY <1>4, <1>5, <1>7

LEMMA BatchIndices ==
  ASSUME TypeInv PROVE Range(batch) \subseteq Indices
  BY DEF TypeInv, Range

LEMMA StepTypes ==
  ASSUME TypeInv, Steps PROVE TypeInv'
<1> UNCHANGED ops
  BY DEF Steps, Connect, Collect, CollectFails, CloseBatch, OpProcess, DeleteProcess, OpSkipped, AllProcessed, Locked,
         LockFails, CommitPanics, CommitNothing, CommitOK, CommitFails, BatchDone, BatchFails
<1>0. Connections' = Connections /\ Indices' = Indices BY DEF Connections, Indices
<1> USE <1>0, BatchIndices
<1>1. CASE Connect
  <2>1. PICK m \in SUBSET Blobbers :
          /\ Fail(N - Cardinality(m), Blobbers \ m) /\ connMask' = m
          /\ IF Cardinality(m) < Thresh THEN Return("error") ELSE pc' = "collect" /\ UNCHANGED ret
    BY <1>1 DEF Connect
  <2>2. N - Cardinality(m) \in Nat BY BlobberSets
  <2>3. fails' \in Nat /\ hit' \subseteq Blobbers BY <2>1, <2>2, FailTypes
  <2>4. pc' \in {"return", "collect"} /\ ret' \in {"none", "ok", "error", "panic"} /\ (ret' = "ok" => pc' = "return")
    BY <2>1, <1>1 DEF Return, TypeInv, Connect
  <2>5. batch' \in Seq(Indices) BY <1>1 DEF Connect
  <2> QED BY <1>1, <2>1, <2>3, <2>4, <2>5 DEF Connect, TypeInv, blobs, Running
<1>2. CASE Collect
  <2>1. i \in Indices BY <1>2 DEF Collect, TypeInv, Indices
  <2>2. batch' \in Seq(Indices) /\ i' \in Nat \ {0} BY <1>2, <2>1 DEF Collect, TypeInv
  <2> QED BY <1>2, <2>2 DEF Collect, TypeInv, blobs, Running
<1>3. CASE CollectFails
  <2>1. fails' \in Nat /\ hit' \subseteq Blobbers BY <1>3, FailTypes DEF CollectFails
  <2> QED BY <1>3, <2>1 DEF CollectFails, TypeInv, blobs, Return, Running
<1>4. CASE CloseBatch
  <2>1. conn' \in Connections BY <1>4 DEF CloseBatch, TypeInv, Connections
  <2>2. pc' \in {"connect", "process"} /\ cancelled' \in BOOLEAN /\ mask' = {} /\ (pc' = "process" => batch # <<>>)
    BY <1>4 DEF CloseBatch, Launch
  <2>3. /\ st' \in [Range(batch) -> {"run", "done", "gone"}]
        /\ change' \in [Range(batch) -> [Blobbers -> {"change", "empty", "nil"}]]
    BY <1>4 DEF CloseBatch, Launch
  <2>4. /\ UNCHANGED <<ops, blobs, i, moConn, batch, previousPaths, connMask, todo, consensus,
                       rollbackMask, base, took, hit, fails, ret>>
        /\ pc = "collect"
    BY <1>4 DEF CloseBatch
  <2> QED BY <2>1, <2>2, <2>3, <2>4 DEF TypeInv, blobs, Running
<1>5. ASSUME NEW k \in Range(batch), OpProcess(k) \/ DeleteProcess(k) PROVE TypeInv'
  <2>1. PICK n, m, ch, S, failed, touched : Processes(k, n, m, ch, S, failed, touched)
    BY <1>5, ProcessShape
  <2>2. pc = "process" /\ Running /\ k \in Indices BY <2>1 DEF Processes, Running
  <2>3. fails' \in Nat /\ hit' \subseteq Blobbers
    <3>1. Cardinality(failed) \in Nat BY <2>1, BlobberSets DEF Processes
    <3>2. CASE cancelled BY <2>1, <3>2 DEF Processes, OpFails, TypeInv
    <3>3. CASE ~cancelled
      <4>1. Fail(Cardinality(failed), touched) /\ touched \in SUBSET Blobbers
        BY <2>1, <3>3 DEF Processes, OpFails
      <4> QED BY <3>1, <4>1, FailTypes
    <3> QED BY <3>2, <3>3
  <2>4. staged' \in [Connections -> [Blobbers -> SUBSET Indices]]
    BY <2>1, <2>2, StageTypes DEF Processes
  <2>5. mask' \subseteq Blobbers BY <2>1 DEF Processes, OpEnds, TypeInv
  <2>7. change' \in [Range(batch) -> [Blobbers -> {"change", "empty", "nil"}]]
    <3>1. /\ change \in [Range(batch) -> [Blobbers -> {"change", "empty", "nil"}]]
          /\ ch \in [Blobbers -> {"change", "empty", "nil"}]
          /\ change' = [change EXCEPT ![k] = ch] \/ UNCHANGED change
      BY <2>1, <2>2 DEF TypeInv, Processes, OpEnds
    <3> QED BY <3>1
  <2>8. took' \in [Indices -> SUBSET Blobbers]
    <3>1. /\ took \in [Indices -> SUBSET Blobbers]
          /\ \/ took' = [took EXCEPT ![k] = {b \in Blobbers : Needless(ops[k], tree[b])}]
             \/ UNCHANGED took
      BY <2>1 DEF TypeInv, Processes, OpEnds
    <3> QED BY <3>1
  <2>9. st' \in [Range(batch) -> {"run", "done", "gone"}]
    <3>1. /\ st \in [Range(batch) -> {"run", "done", "gone"}]
          /\ st' \in {[st EXCEPT ![k] = "done"], [st EXCEPT ![k] = "gone"]}
      BY <2>1, <2>2 DEF TypeInv, Processes, OpEnds
    <3> QED BY <3>1
  <2>10. cancelled' \in BOOLEAN BY <2>1 DEF TypeInv, Processes, OpEnds
  <2>11. UNCHANGED <<ops, tree, prev, pc, i, conn, moConn, batch, previousPaths, connMask, todo,
                     consensus, rollbackMask, base, ret>>
    BY <2>1 DEF Processes
  <2> QED BY <2>2, <2>3, <2>4, <2>5, <2>7, <2>8, <2>9, <2>10, <2>11 DEF TypeInv, Running
<1>6. ASSUME NEW k \in Range(batch), OpSkipped(k) PROVE TypeInv'
  BY <1>6 DEF OpSkipped, TypeInv, blobs, Running
<1>7. CASE AllProcessed BY <1>7 DEF AllProcessed, TypeInv, blobs, Running, Return
<1>8. CASE Locked
  <2>1. PICK held \in SUBSET Blobbers, kept \in SUBSET mask :
          /\ Fail(Cardinality(mask \ held), mask \ held)
          /\ mask' = (mask \cap held) \cup kept /\ todo' = mask'
    BY <1>8 DEF Locked
  <2>2. mask \ held \in SUBSET Blobbers BY DEF TypeInv
  <2>3. fails' \in Nat /\ hit' \subseteq Blobbers BY <2>1, <2>2, BlobberSets, FailTypes
  <2>4. mask' \subseteq Blobbers BY <2>1 DEF TypeInv
  <2>5. /\ UNCHANGED <<ops, blobs, i, conn, moConn, batch, previousPaths, connMask, st, cancelled, change,
                       base, took, ret>>
        /\ pc = "lock" /\ pc' = "commit" /\ consensus' = 0 /\ rollbackMask' = {}
    BY <1>8 DEF Locked
  <2> QED BY <2>1, <2>3, <2>4, <2>5 DEF TypeInv, blobs, Running
<1>9. CASE LockFails
  <2>1. fails' \in Nat /\ hit' \subseteq Blobbers BY <1>9, FailTypes DEF LockFails
  <2> QED BY <1>9, <2>1 DEF LockFails, TypeInv, blobs, Return, Running
<1>10. ASSUME NEW b \in Blobbers, CommitPanics(b) PROVE TypeInv'
  BY <1>10 DEF CommitPanics, TypeInv, blobs, Return, Running
<1>11. ASSUME NEW b \in Blobbers, CommitNothing(b) PROVE TypeInv'
  <2>1. /\ consensus' \in Nat /\ took' \in [Indices -> SUBSET Blobbers]
        /\ rollbackMask' \subseteq mask \ (todo \ {b})
    BY <1>11, CountedTypes DEF CommitNothing
  <2> QED BY <1>11, <2>1 DEF CommitNothing, TypeInv, blobs, Running
<1>12. ASSUME NEW b \in Blobbers, CommitOK(b) PROVE TypeInv'
  <2>1. /\ consensus' \in Nat /\ took' \in [Indices -> SUBSET Blobbers]
        /\ rollbackMask' \subseteq mask \ (todo \ {b})
    BY <1>12, CountedTypes DEF CommitOK
  <2>2. /\ tree' = [c \in Blobbers |-> tree'[c]] /\ prev' = [c \in Blobbers |-> prev'[c]]
        /\ staged' \in [Connections -> [Blobbers -> SUBSET Indices]]
    BY <1>12, CommittedTypes DEF CommitOK
  <2> QED BY <1>12, <2>1, <2>2 DEF CommitOK, TypeInv, Running
<1>13. ASSUME NEW b \in Blobbers, CommitFails(b) PROVE TypeInv'
  <2>1. /\ tree' = [c \in Blobbers |-> tree'[c]] /\ prev' = [c \in Blobbers |-> prev'[c]]
        /\ staged' \in [Connections -> [Blobbers -> SUBSET Indices]]
    <3>1. CASE UNCHANGED blobs BY <3>1 DEF blobs, TypeInv
    <3>2. CASE Committed(b) BY <3>2, CommittedTypes
    <3> QED BY <1>13, <3>1, <3>2 DEF CommitFails
  <2>2. fails' \in Nat /\ hit' \subseteq Blobbers
    <3>1. CASE UNCHANGED <<fails, hit>> BY <3>1 DEF TypeInv
    <3>2. CASE Fail(1, {b}) BY <3>2, FailTypes
    <3> QED BY <1>13, <3>1, <3>2 DEF CommitFails
  <2>3. /\ pc = "commit" /\ todo' = todo \ {b}
        /\ UNCHANGED <<ops, pc, i, conn, moConn, batch, previousPaths, connMask, mask, st, cancelled,
                       change, consensus, rollbackMask, base, took, ret>>
    BY <1>13 DEF CommitFails
  <2> QED BY <2>1, <2>2, <2>3 DEF TypeInv, Running
<1>14. CASE BatchDone BY <1>14 DEF BatchDone, TypeInv, blobs, Return, Running
<1>15. CASE BatchFails
  <2>1. PICK undone \in SUBSET rollbackMask :
       /\ Fail(Cardinality(rollbackMask \ undone), rollbackMask \ undone)
       /\ tree' = [b \in Blobbers |-> IF b \in undone /\ tree[b] # {} THEN prev[b] ELSE tree[b]]
    BY <1>15 DEF BatchFails
  <2>2. rollbackMask \ undone \in SUBSET Blobbers BY <1>15 DEF TypeInv, BatchFails
  <2>3. fails' \in Nat /\ hit' \subseteq Blobbers BY <2>1, <2>2, BlobberSets, FailTypes
  <2>4. tree' = [b \in Blobbers |-> tree'[b]] BY <2>1
  <2> QED BY <1>15, <2>3, <2>4 DEF BatchFails, TypeInv, Return, Running
<1> QED BY <1>1, <1>2, <1>3, <1>4, <1>5, <1>6, <1>7, <1>8, <1>9, <1>10, <1>11, <1>12, <1>13, <1>14, <1>15
     DEF Steps

-----------------------------------------------------------------------------
(* A batch only makes its own changes                                      *)

LEMMA StepOwn ==
  ASSUME TypeInv, OwnInv, Steps PROVE OwnInv'
<1> USE DEF blobs, Return
<1>1. CASE Connect
  <2>1. base' = tree /\ tree' = tree /\ pc' \in {"return", "collect"} BY <1>1 DEF Connect
  <2> QED BY <2>1 DEF OwnInv, OnlyOwnChanges
<1>2. CASE Collect BY <1>2 DEF Collect, OwnInv
<1>3. CASE CollectFails BY <1>3 DEF CollectFails, OwnInv, OnlyOwnChanges
<1>4. CASE CloseBatch BY <1>4 DEF CloseBatch, Launch, OwnInv, OnlyOwnChanges
<1>5. ASSUME NEW k \in Range(batch), OpProcess(k) \/ DeleteProcess(k) \/ OpSkipped(k) PROVE OwnInv'
  <2>1. pc = "process" /\ UNCHANGED <<pc, tree, base>> BY <1>5 DEF OpProcess, DeleteProcess, OpSkipped, blobs
  <2> QED BY <2>1 DEF OwnInv
<1>6. CASE AllProcessed BY <1>6 DEF AllProcessed, OwnInv, OnlyOwnChanges
<1>7. CASE Locked
  <2>1. pc = "lock" /\ pc' = "commit" /\ UNCHANGED <<tree, base>> /\ rollbackMask' = {} BY <1>7 DEF Locked
  <2> QED BY <2>1 DEF OwnInv
<1>8. CASE LockFails BY <1>8 DEF LockFails, OwnInv, OnlyOwnChanges
<1>9. ASSUME pc = "commit", pc' \in {"connect", "return"}, UNCHANGED <<ops, tree, base, mask, batch, change>>
      PROVE  OwnInv'
  <2>1. \A b \in Blobbers : Mine(b)' = Mine(b) BY <1>9 DEF Mine
  <2>2. OnlyOwnChanges' BY <1>9, <2>1 DEF OwnInv, OwnTree, OnlyOwnChanges
  <2> QED BY <1>9, <2>2 DEF OwnInv
<1>10. ASSUME NEW b \in Blobbers, CommitPanics(b) PROVE OwnInv'
  BY <1>10, <1>9 DEF CommitPanics
<1>11. ASSUME NEW b \in Blobbers, pc = "commit", b \in todo, todo' = todo \ {b},
              UNCHANGED <<pc, ops, base, mask, batch, change>>,
              \/ /\ UNCHANGED <<tree, prev>>
                 /\ rollbackMask' = rollbackMask \/ (Mine(b) = {} /\ rollbackMask' = rollbackMask \cup {b})
              \/ Mine(b) # {} /\ Committed(b) /\ rollbackMask' \in {rollbackMask, rollbackMask \cup {b}}
       PROVE  OwnInv'
  <2>1. \A c \in Blobbers : Mine(c)' = Mine(c) BY <1>11 DEF Mine
  <2>2. \A c \in Blobbers : OwnTree(c)' = OwnTree(c) BY <1>11, <2>1 DEF OwnTree
  <2>3. tree[b] = base[b] /\ b \in mask /\ b \notin rollbackMask BY <1>11 DEF OwnInv, TypeInv
  <2>4. CASE /\ UNCHANGED <<tree, prev>>
             /\ rollbackMask' = rollbackMask \/ (Mine(b) = {} /\ rollbackMask' = rollbackMask \cup {b})
    BY <1>11, <2>1, <2>2, <2>3, <2>4 DEF OwnInv
  <2>5. CASE Mine(b) # {} /\ Committed(b)
    <3>1. tree'[b] = OwnTree(b) /\ prev'[b] = base[b]
      <4>1. b \in DOMAIN tree /\ b \in DOMAIN prev BY DEF TypeInv
      <4> QED BY <4>1, <2>3, <2>5 DEF Committed, OwnTree
    <3>2. \A c \in Blobbers : c # b => tree'[c] = tree[c] /\ prev'[c] = prev[c]
      BY <2>5 DEF Committed, TypeInv
    <3>3. \A c \in Blobbers : c # b /\ c \in rollbackMask' => c \in rollbackMask BY <1>11
    <3> QED BY <1>11, <2>1, <2>2, <2>3, <3>1, <3>2, <3>3 DEF OwnInv
  <2> QED BY <1>11, <2>4, <2>5
<1>12. ASSUME NEW b \in Blobbers, CommitNothing(b) PROVE OwnInv'
  BY <1>12, <1>11 DEF CommitNothing, Counted
<1>13. ASSUME NEW b \in Blobbers, CommitOK(b) PROVE OwnInv'
  BY <1>13, <1>11 DEF CommitOK, Counted
<1>14. ASSUME NEW b \in Blobbers, CommitFails(b) PROVE OwnInv'
  BY <1>14, <1>11 DEF CommitFails
<1>15. CASE BatchDone BY <1>15, <1>9 DEF BatchDone
<1>16. CASE BatchFails
  <2>1. /\ pc = "commit" /\ pc' = "return" /\ ret' = "error"
        /\ UNCHANGED <<ops, base, mask, batch, change, prev, rollbackMask>>
        /\ \A b \in Blobbers : tree'[b] = tree[b] \/ (b \in rollbackMask /\ tree'[b] = prev[b])
    BY <1>16 DEF BatchFails
  <2>2. \A b \in Blobbers : Mine(b)' = Mine(b) BY <2>1 DEF Mine
  <2>3. ASSUME NEW b \in Blobbers, tree'[b] # base[b]
        PROVE  /\ b \in mask
               /\ tree'[b] = IF Mine(b) # {} THEN ApplyAll(ops, Mine(b), base[b]) ELSE prev[b]
               /\ Mine(b) = {} => b \in rollbackMask
    <3>1. CASE Mine(b) # {} BY <2>1, <2>3, <3>1 DEF OwnInv, OwnTree
    <3>2. CASE Mine(b) = {}
      <4>1. tree[b] = base[b] BY <2>1, <3>2 DEF OwnInv
      <4>2. b \in rollbackMask /\ tree'[b] = prev[b] BY <2>1, <2>3, <4>1
      <4> QED BY <3>2, <4>2, <2>1 DEF TypeInv
    <3> QED BY <3>1, <3>2
  <2>4. OnlyOwnChanges' BY <2>1, <2>2, <2>3 DEF OnlyOwnChanges
  <2> QED BY <2>1, <2>4 DEF OwnInv
<1> QED BY <1>1, <1>2, <1>3, <1>4, <1>5, <1>6, <1>7, <1>8, <1>10, <1>12, <1>13, <1>14, <1>15, <1>16
     DEF Steps

LEMMA TypesAlways == Spec => []TypeInv
<1>1. TypeInv /\ UNCHANGED vars => TypeInv'
  BY DEF vars, blobs, TypeInv, Running, Connections, Indices
<1>2. TypeInv /\ [Next]_vars => TypeInv' BY <1>1, StepTypes, NextSteps
<1> QED BY <1>2, InitTypes, PTL DEF Spec

\* A batch leaves a blobber with the tree from before it, or with its own changes on top;
\* or, when the batch fails and the blobber had nothing to commit, with the version before
\* (multi_operation_worker.go:281-305): exactly there an earlier batch can be undone.
THEOREM BatchKeepsOthersWork == Spec => []OnlyOwnChanges
<1>1. Init => OwnInv
  BY DEF Init, OwnInv, OnlyOwnChanges
<1>2. TypeInv /\ OwnInv /\ [Next]_vars => OwnInv'
  <2> SUFFICES ASSUME TypeInv, OwnInv, [Next]_vars PROVE OwnInv'
    OBVIOUS
  <2>1. CASE UNCHANGED vars
    BY <2>1 DEF vars, blobs, OwnInv, OnlyOwnChanges, OwnTree, Mine
  <2> QED BY <2>1, StepOwn, NextSteps
<1>3. TypeInv /\ OwnInv => OnlyOwnChanges
  <2> SUFFICES ASSUME TypeInv, OwnInv, pc \notin {"connect", "return"} PROVE OnlyOwnChanges
    BY DEF OwnInv
  <2>1. pc \in {"collect", "process", "lock"} \/ pc = "commit" BY DEF TypeInv
  <2> QED BY <2>1 DEF OwnInv, OwnTree, OnlyOwnChanges
<1> QED BY <1>1, <1>2, <1>3, TypesAlways, PTL DEF Spec

-----------------------------------------------------------------------------
(* A batch of one operation                                                *)

LEMMA OneRange ==
  ASSUME TypeInv, Len(batch) = 1 PROVE Range(batch) = {batch[1]} /\ batch[1] \in Indices
<1>1. batch \in Seq(Indices) BY DEF TypeInv
<1>2. DOMAIN batch = {1} BY <1>1
<1> QED BY <1>1, <1>2 DEF Range

LEMMA StepSingle ==
  ASSUME TypeInv, TypeInv', SingleInv, Steps PROVE SingleInv'
<1> DEFINE k == batch[1]
<1>0. ret = "ok" => pc = "return" BY DEF TypeInv
<1>1. CASE Connect
  <2>1. Len(batch') # 1 BY <1>1 DEF Connect
  <2> QED BY <2>1 DEF SingleInv
<1>2. CASE Collect
  <2>1. pc' = "collect" /\ ret' # "ok" BY <1>2, <1>0 DEF Collect
  <2> QED BY <2>1 DEF SingleInv, Running
<1> SUFFICES ASSUME Len(batch) = 1, ops[batch[1]].kind # "delete", UNCHANGED <<ops, batch>>, ~Connect, ~Collect
             PROVE  SingleInv'
  <2>1. Connect \/ Collect \/ UNCHANGED <<ops, batch>>
    BY DEF Steps, CollectFails, CloseBatch, OpProcess, DeleteProcess, OpSkipped, AllProcessed, Locked, LockFails,
           CommitPanics, CommitNothing, CommitOK, CommitFails, BatchDone, BatchFails
  <2> QED BY <1>1, <1>2, <2>1 DEF SingleInv
<1>a. Range(batch) = {k} /\ k \in Indices BY OneRange
<1> HIDE DEF k
<1> DEFINE Goal ==
      /\ pc' = "process" /\ st'[k] = "run" => mask' = {}
      /\ Running' => \A b \in mask' : change'[k][b] = "change" \/ b \in took'[k]
      /\ pc' = "commit" => consensus' = Cardinality(rollbackMask') /\ rollbackMask' \subseteq took'[k]
      /\ (pc' = "connect" \/ ret' = "ok") => Cardinality(took'[k]) >= Thresh
<1>b. /\ pc = "process" /\ st[k] = "run" => mask = {}
      /\ Running => \A b \in mask : change[k][b] = "change" \/ b \in took[k]
      /\ pc = "commit" => consensus = Cardinality(rollbackMask) /\ rollbackMask \subseteq took[k]
      /\ (pc = "connect" \/ ret = "ok") => Cardinality(took[k]) >= Thresh
  BY DEF SingleInv, k
<1>c. SUFFICES Goal
  BY DEF SingleInv, k
<1>3. ASSUME pc' = "return", ret' \in {"error", "panic"} PROVE Goal
  BY <1>3 DEF Running
<1>4. CASE CollectFails BY <1>4, <1>3 DEF CollectFails, Return
<1>5. CASE CloseBatch
  <2>1. batch # <<>>
    <3>1. Len(<<>>) = 0 OBVIOUS
    <3> QED BY <3>1
  <2>2. pc' = "process" /\ mask' = {} /\ ret' = ret /\ pc = "collect" BY <1>5, <2>1 DEF CloseBatch, Launch
  <2> QED BY <2>2, <1>0
<1>6. CASE OpProcess(k)
  <2>0. pc = "process" /\ pc' = "process" /\ st[k] = "run" /\ ret' = ret BY <1>6 DEF OpProcess
  <2>1. Running /\ mask = {} BY <2>0, <1>b DEF Running
  <2>2. PICK bad :
          \/ /\ mask' = mask \cup OpMask(k, bad)
             /\ change' = [change EXCEPT ![k] = BuildChange(k, bad)]
             /\ took' = [took EXCEPT ![k] = {b \in Blobbers : Needless(ops[k], tree[b])}]
             /\ st' = [st EXCEPT ![k] = "done"]
          \/ st' = [st EXCEPT ![k] = "gone"] /\ UNCHANGED <<mask, change, took>>
    BY <1>6 DEF OpProcess, OpEnds
  <2>3. st'[k] # "run" BY <2>1, <2>2, <1>a DEF TypeInv
  <2>4. CASE UNCHANGED <<mask, change, took>> BY <2>0, <2>1, <2>4, <1>0
  <2>5. CASE /\ mask' = mask \cup OpMask(k, bad)
             /\ change' = [change EXCEPT ![k] = BuildChange(k, bad)]
             /\ took' = [took EXCEPT ![k] = {b \in Blobbers : Needless(ops[k], tree[b])}]
    <3>1. mask' = OpMask(k, bad) BY <2>1, <2>5
    <3>2. change'[k] = BuildChange(k, bad) /\ took'[k] = {b \in Blobbers : Needless(ops[k], tree[b])}
      BY <2>1, <2>5, <1>a DEF TypeInv
    <3>3. ASSUME NEW b \in mask' PROVE change'[k][b] = "change" \/ b \in took'[k]
      <4>1. b \in Blobbers BY <3>3 DEF TypeInv
      <4>2. b \in OpMask(k, bad) BY <3>1
      <4>3. CASE ops[k].kind = "dir"
        <5>1. b \in connMask /\ b \notin bad BY <4>2, <4>3 DEF OpMask, Asked
        <5> QED BY <3>2, <4>1, <4>3, <5>1 DEF BuildChange
      <4>4. CASE ops[k].kind # "dir" BY <3>2, <4>1, <4>2, <4>4 DEF BuildChange
      <4> QED BY <4>3, <4>4
    <3> QED BY <2>0, <2>3, <3>3, <1>0
  <2> QED BY <2>2, <2>4, <2>5
<1>17. CASE DeleteProcess(k)
  <2>1. ops[k].kind # "delete" BY DEF k
  <2> QED BY <1>17, <2>1 DEF DeleteProcess
<1>7. CASE OpSkipped(k)
  <2>1. /\ pc = "process" /\ st' = [st EXCEPT ![k] = "gone"]
        /\ UNCHANGED <<pc, mask, change, took, ret>>
    BY <1>7 DEF OpSkipped, blobs
  <2>2. st'[k] = "gone" BY <2>1, <1>a DEF TypeInv, Running
  <2> QED BY <2>1, <2>2, <1>b, <1>0 DEF Running
<1>8. CASE AllProcessed
  <2>1. UNCHANGED <<mask, change, took>> /\ pc = "process" BY <1>8 DEF AllProcessed
  <2>2. (pc' = "lock" /\ ret' = ret) \/ (pc' = "return" /\ ret' = "error") BY <1>8 DEF AllProcessed, Return
  <2> QED BY <2>1, <2>2, <1>b, <1>0 DEF Running
<1>9. CASE Locked
  <2>1. /\ pc = "lock" /\ pc' = "commit" /\ mask' \subseteq mask /\ UNCHANGED <<change, took, ret>>
        /\ consensus' = 0 /\ rollbackMask' = {}
    BY <1>9 DEF Locked
  <2> QED BY <2>1, <1>b, <1>0, FS_EmptySet DEF Running
<1>10. CASE LockFails BY <1>10, <1>3 DEF LockFails, Return
<1>11. ASSUME NEW b \in Blobbers, CommitPanics(b) PROVE Goal BY <1>11, <1>3 DEF CommitPanics, Return
<1>12. ASSUME NEW b \in Blobbers, pc = "commit", b \in todo, Counted(b), UNCHANGED <<pc, mask, change, ret>>
       PROVE  Goal
  <2>1. /\ b \in mask /\ b \notin rollbackMask /\ rollbackMask \in SUBSET Blobbers
        /\ took \in [Indices -> SUBSET Blobbers]
    BY <1>12 DEF TypeInv
  <2>2. IsFiniteSet(rollbackMask) /\ Cardinality(rollbackMask) \in Nat BY <2>1, BlobberSets
  <2>3. consensus' = Cardinality(rollbackMask') BY <1>12, <2>1, <2>2, <1>b, FS_AddElement DEF Counted
  <2>4. took'[k] = IF k \in Mine(b) THEN took[k] \cup {b} ELSE took[k] BY <1>12, <2>1, <1>a DEF Counted
  <2>5. k \in Mine(b) \/ b \in took[k] BY <1>12, <2>1, <1>a, <1>b DEF Mine, Running
  <2>6. rollbackMask' \subseteq took'[k]
    <3>1. rollbackMask' = rollbackMask \cup {b} BY <1>12 DEF Counted
    <3>2. rollbackMask \subseteq took[k] BY <1>12, <1>b
    <3> QED BY <3>1, <3>2, <2>4, <2>5
  <2>7. took[k] \subseteq took'[k] BY <2>4
  <2> QED BY <1>12, <2>3, <2>6, <2>7, <1>b, <1>0 DEF Running
<1>13. ASSUME NEW b \in Blobbers, CommitNothing(b) \/ CommitOK(b) PROVE Goal
  BY <1>13, <1>12 DEF CommitNothing, CommitOK
<1>14. ASSUME NEW b \in Blobbers, CommitFails(b) PROVE Goal
  BY <1>14, <1>b, <1>0 DEF CommitFails, Running
<1>15. CASE BatchDone
  <2>1. pc = "commit" /\ consensus >= Thresh /\ UNCHANGED took /\ pc' \in {"return", "connect"}
    BY <1>15 DEF BatchDone, Return
  <2>2. took[k] \in SUBSET Blobbers /\ rollbackMask \subseteq took[k] BY <2>1, <1>a, <1>b DEF TypeInv
  <2>3. Cardinality(rollbackMask) <= Cardinality(took[k]) /\ Cardinality(took[k]) \in Nat
    BY <2>2, BlobberSets, FS_Subset
  <2>4. Cardinality(took'[k]) >= Thresh BY <2>1, <2>3, <1>b, BlobberSets DEF TypeInv
  <2> QED BY <2>1, <2>4 DEF Running
<1>16. CASE BatchFails BY <1>16, <1>3 DEF BatchFails, Return
<1> QED BY <1>4, <1>5, <1>6, <1>7, <1>8, <1>9, <1>10, <1>11, <1>13, <1>14, <1>15, <1>16, <1>17, <1>a DEF Steps

-----------------------------------------------------------------------------
(* The blobbers that no exchange failed with                               *)

LEMMA StepStatus ==
  ASSUME TypeInv, StatusInv, Steps PROVE StatusInv'
<1> USE DEF StatusInv, Return
<1>1. CASE Connect BY <1>1 DEF Connect
<1>2. CASE Collect BY <1>2 DEF Collect
<1>3. CASE CollectFails BY <1>3 DEF CollectFails
<1>4. CASE CloseBatch BY <1>4 DEF CloseBatch, Launch
<1>5. ASSUME NEW k \in Range(batch), OpProcess(k) \/ DeleteProcess(k) PROVE StatusInv'
  <2>1. /\ pc = "process" /\ UNCHANGED <<pc, batch>>
        /\ \/ st' = [st EXCEPT ![k] = "done"] /\ UNCHANGED cancelled
           \/ cancelled' = TRUE
    BY <1>5 DEF OpProcess, DeleteProcess, OpEnds
  <2>2. st \in [Range(batch) -> {"run", "done", "gone"}] BY <2>1 DEF TypeInv, Running
  <2> QED BY <2>1, <2>2
<1>6. ASSUME NEW k \in Range(batch), OpSkipped(k) PROVE StatusInv' BY <1>6 DEF OpSkipped
<1>7. CASE AllProcessed
  <2>1. /\ pc = "process" /\ UNCHANGED <<batch, st, cancelled>> /\ pc' \in {"lock", "return"}
        /\ pc' = "lock" => ~cancelled
        /\ \A k \in Range(batch) : st[k] # "run"
    BY <1>7 DEF AllProcessed
  <2>2. st \in [Range(batch) -> {"run", "done", "gone"}] BY <2>1 DEF TypeInv, Running
  <2> QED BY <2>1, <2>2
<1>8. CASE Locked BY <1>8 DEF Locked
<1>9. CASE LockFails BY <1>9 DEF LockFails
<1>10. ASSUME NEW b \in Blobbers, CommitPanics(b) PROVE StatusInv' BY <1>10 DEF CommitPanics
<1>11. ASSUME NEW b \in Blobbers, CommitNothing(b) PROVE StatusInv' BY <1>11 DEF CommitNothing
<1>12. ASSUME NEW b \in Blobbers, CommitOK(b) PROVE StatusInv' BY <1>12 DEF CommitOK
<1>13. ASSUME NEW b \in Blobbers, CommitFails(b) PROVE StatusInv' BY <1>13 DEF CommitFails
<1>14. CASE BatchDone BY <1>14 DEF BatchDone
<1>15. CASE BatchFails BY <1>15 DEF BatchFails
<1> QED BY <1>1, <1>2, <1>3, <1>4, <1>5, <1>6, <1>7, <1>8, <1>9, <1>10, <1>11, <1>12, <1>13, <1>14, <1>15
     DEF Steps

\* An operation that enough blobbers accepted was accepted by all blobbers that no
\* exchange failed with: they have the same tree, and enough blobbers include one of them.
LEMMA GoodAnswers ==
  ASSUME TypeInv, NEW k, NEW bad, NEW F \in SUBSET Blobbers,
         Cardinality(F) < Thresh, bad \subseteq F,
         Asked(k) \subseteq Blobbers,
         \A b, c \in Blobbers \ F : tree[b] = tree[c],
         ops[k].kind # "delete", Cardinality(OKs(k, bad)) >= OpThresh(k),
         NEW b \in Blobbers \ F, b \in Asked(k)
  PROVE  Needless(ops[k], tree[b]) \/ b \in OpMask(k, bad)
<1>1. CASE ops[k].kind = "dir" BY <1>1 DEF OpMask, Accepts
<1>2. CASE ops[k].kind # "dir"
  <2>1. OKs(k, bad) \in SUBSET Blobbers BY DEF OKs, OpMask
  <2>2. ~(OKs(k, bad) \subseteq F)
    <3> SUFFICES ASSUME OKs(k, bad) \subseteq F PROVE FALSE
      OBVIOUS
    <3>1. Cardinality(OKs(k, bad)) <= Cardinality(F) BY BlobberSets, FS_Subset
    <3>2. Cardinality(OKs(k, bad)) \in Nat /\ Cardinality(F) \in Nat BY <2>1, BlobberSets
    <3> QED BY <1>2, <3>1, <3>2, BlobberSets DEF OpThresh
  <2>3. PICK c \in OKs(k, bad) : c \notin F BY <2>2
  <2>4. tree[b] = tree[c] /\ c \in Blobbers BY <2>1, <2>3
  <2>5. c \in OpMask(k, bad) \/ Needless(ops[k], tree[c]) BY <2>3 DEF OKs
  <2> QED BY <2>4, <2>5 DEF OpMask
<1> QED BY <1>1, <1>2

\* What the operation built for a blobber that answered.
LEMMA GoodBuild ==
  ASSUME NEW k, NEW bad, NEW b \in connMask, b \in Blobbers, b \notin bad,
         ops[k].kind # "delete", b \in OpMask(k, bad) \/ Needless(ops[k], tree[b])
  PROVE  BuildChange(k, bad)[b] = IF Needless(ops[k], tree[b]) THEN "empty" ELSE "change"
<1>1. CASE ops[k].kind = "dir" BY <1>1 DEF BuildChange
<1>2. CASE ops[k].kind # "dir"
  <2>1. BuildChange(k, bad)[b] = IF b \in OpMask(k, bad) THEN "change" ELSE "empty"
    BY <1>2 DEF BuildChange
  <2>2. b \in OpMask(k, bad) => ~Needless(ops[k], tree[b]) BY <1>2 DEF OpMask, Accepts, Needless
  <2> QED BY <2>1, <2>2
<1> QED BY <1>1, <1>2

\* The touched blobbers are only added to, and a batch that goes on was not cancelled.
LEMMA HitGrows ==
  ASSUME TypeInv, TypeInv', StatusInv, Steps
  PROVE  /\ hit \subseteq hit' /\ (FewHit' => FewHit)
         /\ pc' # "return" /\ ~cancelled' => pc # "return" /\ ~cancelled
<1>1. hit \subseteq hit'
  BY DEF Steps, Connect, Collect, CollectFails, CloseBatch, OpProcess, DeleteProcess, OpFails, OpSkipped,
         AllProcessed, Locked, LockFails, CommitPanics, CommitNothing, CommitOK, CommitFails, BatchDone,
         BatchFails, Fail
<1>2. pc # "return"
  BY DEF Steps, Connect, Collect, CollectFails, CloseBatch, OpProcess, DeleteProcess, OpSkipped, AllProcessed, Locked,
         LockFails, CommitPanics, CommitNothing, CommitOK, CommitFails, BatchDone, BatchFails
<1>3. CloseBatch \/ (cancelled => cancelled')
  BY DEF Steps, Connect, Collect, CollectFails, OpProcess, DeleteProcess, OpEnds, OpSkipped, AllProcessed, Locked,
         LockFails, CommitPanics, CommitNothing, CommitOK, CommitFails, BatchDone, BatchFails
<1>4. CloseBatch => ~cancelled BY DEF CloseBatch, StatusInv
<1>5. FewHit' => FewHit
  <2>1. hit \in SUBSET Blobbers /\ hit' \in SUBSET Blobbers BY DEF TypeInv
  <2>2. Cardinality(hit) \in Nat /\ Cardinality(hit') \in Nat /\ Cardinality(hit) <= Cardinality(hit')
    BY <1>1, <2>1, BlobberSets, FS_Subset
  <2> QED BY <2>2, BlobberSets DEF FewHit
<1> QED BY <1>1, <1>2, <1>3, <1>4, <1>5

LEMMA ConnectClean ==
  ASSUME TypeInv, Connect, pc' # "return", CleanSet PROVE CleanSet'
<1>1. PICK m \in SUBSET Blobbers : connMask' = m /\ pc' = "collect" /\ hit' = hit \cup (Blobbers \ m)
  BY DEF Connect, Return, Fail
<1>2. /\ pc = "connect" /\ base' = tree
      /\ UNCHANGED <<ops, staged, tree>>
  BY DEF Connect, blobs
<1>3. ASSUME NEW b \in Blobbers \ hit' PROVE Clean(b)'
  <2>1. Clean(b) /\ b \in m BY <1>1 DEF CleanSet
  <2> QED BY <1>1, <1>2, <2>1 DEF Clean, Running, Settled, Connections
<1>4. \A b, c \in Blobbers \ hit' : Agree(b, c)' BY <1>1, <1>2 DEF CleanSet, Agree
<1> QED BY <1>3, <1>4 DEF CleanSet

LEMMA CloseBatchClean ==
  ASSUME TypeInv, OwnInv, CloseBatch, CleanSet PROVE CleanSet'
<1>1. /\ pc = "collect" /\ pc' \in {"connect", "process"} /\ UNCHANGED <<ops, tree, staged, batch, base, connMask, moConn, hit>>
      /\ st' = [k \in Range(batch) |-> "run"]
      /\ change' = [k \in Range(batch) |-> [b \in Blobbers |-> "nil"]]
  BY DEF CloseBatch, Launch, blobs
<1>2. ASSUME NEW b \in Blobbers \ hit PROVE Clean(b)'
  <2>1. Clean(b) BY DEF CleanSet
  <2>2. b \in connMask /\ \A c \in Connections : staged[c][b] = {} BY <1>1, <2>1 DEF Clean
  <2>3. Mine(b)' = {} BY <1>1 DEF Mine
  <2>4. moConn \in Connections BY DEF TypeInv
  <2>5. ~Settled(b)' BY <1>1 DEF Settled
  <2> QED BY <1>1, <2>2, <2>3, <2>4, <2>5 DEF Clean, Connections
<1>3. \A b, c \in Blobbers \ hit : Agree(b, c)' BY <1>1 DEF CleanSet, Agree, OwnInv
<1> QED BY <1>1, <1>2, <1>3 DEF CleanSet

\* What operation k leaves with a blobber that no failure touched.
Answered(k, b, m, ch, S) ==
  /\ ch[b] = IF Needless(ops[k], base[b]) THEN "empty" ELSE "change"
  /\ b \in m \/ Needless(ops[k], base[b])
  /\ b \in S <=> ~Needless(ops[k], base[b])

LEMMA AnsweredClean ==
  ASSUME TypeInv, OwnInv, ~cancelled', CleanSet, NEW k \in Range(batch),
         NEW n, NEW m, NEW ch, NEW S, NEW failed, NEW touched, Processes(k, n, m, ch, S, failed, touched),
         hit \subseteq hit', \A b \in Blobbers \ hit' : Answered(k, b, m, ch, S)
  PROVE  CleanSet'
<1>1. /\ staged' = Stage(k, S)
      /\ mask' = mask \cup m
      /\ change' = [change EXCEPT ![k] = ch]
      /\ took' = [took EXCEPT ![k] = {b \in Blobbers : Needless(ops[k], tree[b])}]
      /\ st' = [st EXCEPT ![k] = "done"]
  BY DEF Processes, OpEnds
<1>2. /\ pc = "process" /\ st[k] = "run" /\ k \in Indices
      /\ UNCHANGED <<ops, tree, pc, moConn, batch, connMask, todo, base>>
  BY BatchIndices DEF Processes
<1>6. \A b \in Blobbers : tree[b] = base[b] BY <1>2 DEF OwnInv
<1>8. /\ st \in [Range(batch) -> {"run", "done", "gone"}]
      /\ change \in [Range(batch) -> [Blobbers -> {"change", "empty", "nil"}]]
      /\ took \in [Indices -> SUBSET Blobbers]
  BY <1>2 DEF TypeInv, Running
<1>9. ASSUME NEW b \in Blobbers \ hit' PROVE Clean(b)'
  <2>1. Clean(b) /\ b \in connMask BY <1>2 DEF CleanSet, Clean
  <2>5. /\ ch[b] = IF Needless(ops[k], base[b]) THEN "empty" ELSE "change"
        /\ ~Needless(ops[k], base[b]) => b \in m
        /\ staged'[moConn][b] =
               IF Needless(ops[k], base[b]) THEN staged[moConn][b] ELSE staged[moConn][b] \cup {k}
        /\ \A c \in Connections : c # moConn => staged'[c][b] = staged[c][b]
    <3>1. Answered(k, b, m, ch, S) OBVIOUS
    <3>2. /\ Stage(k, S)[moConn][b] = IF b \in S THEN staged[moConn][b] \cup {k} ELSE staged[moConn][b]
          /\ \A c \in Connections : c # moConn => Stage(k, S)[c][b] = staged[c][b]
      <4>1. moConn \in Connections /\ staged \in [Connections -> [Blobbers -> SUBSET Indices]]
        BY DEF TypeInv
      <4>2. b \in Blobbers OBVIOUS
      <4> QED BY <4>1, <4>2 DEF Stage
    <3> QED BY <3>1, <3>2, <1>1 DEF Answered
  <2>6. /\ change'[k][b] = ch[b] /\ st'[k] = "done"
        /\ took'[k] = {d \in Blobbers : Needless(ops[k], tree[d])}
        /\ \A j \in Range(batch) : j # k => change'[j] = change[j] /\ st'[j] = st[j] /\ took'[j] = took[j]
    BY <1>1, <1>2, <1>8, BatchIndices
  <2>7. OpClean(k, b)' BY <2>5, <2>6, <1>1, <1>2, <1>6 DEF OpClean
  <2>8. ~Settled(b) /\ ~Settled(b)' BY <1>2 DEF Settled
  <2>9. change[k][b] = "nil" /\ staged[moConn][b] = Mine(b) BY <2>1, <2>8, <1>2 DEF Clean, Running
  <2>10. \A j \in Range(batch) : j # k => IF st'[j] = "done" THEN OpClean(j, b)' ELSE change'[j][b] = "nil"
    <3>1. \A j \in Range(batch) : IF st[j] = "done" THEN OpClean(j, b) ELSE change[j][b] = "nil"
      BY <2>1, <1>2 DEF Clean, Running
    <3> QED BY <3>1, <2>6, <1>1, <1>2 DEF OpClean
  <2>11. Mine(b)' = IF Needless(ops[k], base[b]) THEN Mine(b) ELSE Mine(b) \cup {k}
    BY <2>5, <2>6, <2>9, <1>2 DEF Mine
  <2>12. staged'[moConn][b] = Mine(b)' BY <2>5, <2>9, <2>11
  <2>13. \A c \in Connections : c # moConn => staged'[c][b] = {} BY <2>1, <2>5, <1>2 DEF Clean
  <2>14. Connections' = Connections BY <1>2 DEF Connections
  <2>15. \A j \in Range(batch) : IF st'[j] = "done" THEN OpClean(j, b)' ELSE change'[j][b] = "nil"
    BY <2>6, <2>7, <2>10
  <2> QED BY <2>1, <2>8, <2>12, <2>13, <2>14, <2>15, <1>2 DEF Clean
<1>10. \A b, c \in Blobbers \ hit' : Agree(b, c)' BY <1>2 DEF CleanSet, Agree
<1> QED BY <1>9, <1>10 DEF CleanSet

LEMMA ProcessClean ==
  ASSUME TypeInv, OwnInv, NEW k \in Range(batch), OpProcess(k), ~cancelled', ~cancelled, FewHit',
         TypeInv', CleanSet
  PROVE  CleanSet'
<1>0. PICK bad \in SUBSET Asked(k) : \E heard \in SUBSET bad :
       /\ Fail(Cardinality(bad), bad)
       /\ staged' = Stage(k, {b \in OpMask(k, bad) \cup heard : ~Needless(ops[k], tree[b])})
       /\ OpEnds(k, Cardinality(OKs(k, bad)), OpMask(k, bad), BuildChange(k, bad))
  BY DEF OpProcess, OpFails
<1>1. PICK heard \in SUBSET bad :
       /\ Fail(Cardinality(bad), bad)
       /\ staged' = Stage(k, {b \in OpMask(k, bad) \cup heard : ~Needless(ops[k], tree[b])})
       /\ OpEnds(k, Cardinality(OKs(k, bad)), OpMask(k, bad), BuildChange(k, bad))
  BY <1>0
<1> DEFINE S == {b \in OpMask(k, bad) \cup heard : ~Needless(ops[k], tree[b])}
<1>2. /\ Cardinality(OKs(k, bad)) >= OpThresh(k) /\ ops[k].kind # "delete"
      /\ pc = "process" /\ hit' = hit \cup bad
  BY <1>1 DEF OpEnds, OpProcess, Fail
<1>3. Asked(k) \subseteq Blobbers /\ k \in Indices BY BatchIndices DEF Asked, TypeInv
<1>4. Processes(k, Cardinality(OKs(k, bad)), OpMask(k, bad), BuildChange(k, bad), S, bad, bad)
  <2>1. OpMask(k, bad) \in SUBSET Blobbers /\ bad \in SUBSET Blobbers BY <1>3 DEF OpMask
  <2>2. OpFails(bad, bad) BY <1>1 DEF OpFails
  <2> QED BY <1>1, <2>1, <2>2, BuildTypes DEF OpProcess, Processes
<1>5. Cardinality(hit') < Thresh /\ hit' \in SUBSET Blobbers
  <2>1. Cardinality(hit') <= N - Thresh /\ 2 * Thresh > N /\ hit' \in SUBSET Blobbers BY DEF FewHit, TypeInv
  <2> QED BY <2>1, BlobberSets
<1>6. \A b \in Blobbers : tree[b] = base[b] BY <1>2 DEF OwnInv
<1>7. \A b, c \in Blobbers \ hit : base[b] = base[c] BY <1>2 DEF CleanSet, Agree
<1>8. ASSUME NEW b \in Blobbers \ hit' PROVE Answered(k, b, OpMask(k, bad), BuildChange(k, bad), S)
  <2>1. Clean(b) /\ b \notin bad /\ b \notin heard BY <1>2 DEF CleanSet
  <2>2. b \in connMask /\ b \in Asked(k) BY <2>1, <1>2 DEF Clean, Asked
  <2>3. \A d, c \in Blobbers \ hit' : tree[d] = tree[c] BY <1>2, <1>6, <1>7
  <2>4. Needless(ops[k], tree[b]) \/ b \in OpMask(k, bad)
    <3>1. bad \subseteq hit' BY <1>2
    <3> QED BY <3>1, <2>2, <2>3, <1>2, <1>3, <1>5, GoodAnswers
  <2>5. BuildChange(k, bad)[b] = IF Needless(ops[k], tree[b]) THEN "empty" ELSE "change"
    BY <2>1, <2>2, <2>4, <1>2, GoodBuild
  <2>6. b \in S <=> ~Needless(ops[k], tree[b]) BY <2>1, <2>4
  <2> QED BY <2>4, <2>5, <2>6, <1>6 DEF Answered
<1>9. hit \subseteq hit' BY <1>2
<1> HIDE DEF S
<1> QED BY <1>4, <1>8, <1>9, AnsweredClean

\* A delete: a blobber that no failure touched went by a tree like its own, and nobody
\* took it out of the mask who fetched its tree.
LEMMA DeleteClean ==
  ASSUME TypeInv, OwnInv, NEW k \in Range(batch), DeleteProcess(k), ~cancelled', ~cancelled, CleanSet
  PROVE  CleanSet'
<1>1. PICK read \in Reads, end \in [connMask -> {"ok", "tree", "send", "heard", "busy"}] :
       /\ Fail(Cardinality({b \in connMask : end[b] # "ok"}), DeleteTouches(k, read, end))
       /\ staged' = Stage(k, DeleteStages(k, read, end))
       /\ OpEnds(k, Cardinality({b \in connMask : end[b] = "ok"}), DeleteMask(k, read, end),
                 DeleteChange(k, read, end))
  BY DEF DeleteProcess, OpFails
<1>2. pc = "process" /\ ops[k].kind = "delete" /\ hit' = hit \cup DeleteTouches(k, read, end)
  BY <1>1 DEF DeleteProcess, Fail
<1>3. connMask \subseteq Blobbers /\ k \in Indices BY BatchIndices DEF TypeInv
<1>4. Processes(k, Cardinality({b \in connMask : end[b] = "ok"}), DeleteMask(k, read, end),
                DeleteChange(k, read, end), DeleteStages(k, read, end),
                {b \in connMask : end[b] # "ok"}, DeleteTouches(k, read, end))
  <2>1. /\ {b \in connMask : end[b] # "ok"} \in SUBSET Blobbers
        /\ DeleteTouches(k, read, end) \in SUBSET Blobbers
        /\ DeleteMask(k, read, end) \in SUBSET Blobbers
    BY <1>3 DEF DeleteTouches, DeleteMask, Reads
  <2>2. OpFails({b \in connMask : end[b] # "ok"}, DeleteTouches(k, read, end)) BY <1>1 DEF OpFails
  <2> QED BY <1>1, <2>1, <2>2, BuildTypes DEF DeleteProcess, Processes
<1>5. ASSUME NEW b \in Blobbers \ hit'
      PROVE  Answered(k, b, DeleteMask(k, read, end), DeleteChange(k, read, end), DeleteStages(k, read, end))
  <2>1. b \in connMask BY <1>2 DEF CleanSet, Clean
  <2>2. /\ end[b] = "ok" /\ (HasPath(k, b) <=> HasPath(k, read[b]))
        /\ \A c \in connMask : read[c] = b => end[c] # "tree"
    BY <1>2, <2>1 DEF DeleteTouches, HasPath
  <2>3. Needless(ops[k], base[b]) <=> ~HasPath(k, b) BY <1>2 DEF OwnInv, HasPath, Needless
  <2>4. b \in Fetched(k, read, end) <=> HasPath(k, b) BY <2>1, <2>2 DEF Fetched
  <2>5. HasPath(k, b) => b \in DeleteMask(k, read, end)
    <3>1. ASSUME HasPath(k, b), NEW c \in connMask, read[c] = b PROVE c \in Fetched(k, read, end)
      BY <2>2, <3>1 DEF Fetched
    <3> QED BY <3>1, <2>1, <2>2 DEF DeleteMask
  <2>6. b \in DeleteStages(k, read, end) <=> HasPath(k, b) BY <2>2, <2>4 DEF DeleteStages
  <2>7. DeleteChange(k, read, end)[b] = IF HasPath(k, b) THEN "change" ELSE "empty"
    BY <2>4 DEF DeleteChange
  <2> QED BY <2>3, <2>5, <2>6, <2>7 DEF Answered
<1>6. hit \subseteq hit' BY <1>2
<1> QED BY <1>4, <1>5, <1>6, AnsweredClean

LEMMA LockedClean ==
  ASSUME TypeInv, OwnInv, StatusInv, Locked, CleanSet PROVE CleanSet'
<1>1. PICK held \in SUBSET Blobbers, kept \in SUBSET mask :
        hit' = hit \cup (mask \ held) /\ mask' = (mask \cap held) \cup kept /\ todo' = mask'
  BY DEF Locked, Fail
<1>2. /\ pc = "lock" /\ pc' = "commit"
      /\ UNCHANGED <<ops, tree, staged, moConn, batch, connMask, st, change, base, took>>
  BY DEF Locked, blobs
<1>5. ASSUME NEW b \in Blobbers \ hit' PROVE Clean(b)'
  <2>1. Clean(b) /\ (b \in mask => b \in mask') BY <1>1 DEF CleanSet
  <2>2. Mine(b)' = Mine(b) /\ Connections' = Connections BY <1>2 DEF Mine, Connections
  <2>3. \A k \in Range(batch) : st[k] = "done" /\ OpClean(k, b) BY <2>1, <1>2 DEF Clean, Running, StatusInv
  <2>4. \A k \in Range(batch) : OpClean(k, b)' BY <2>1, <2>3, <1>2 DEF OpClean
  <2>5. b \notin mask' => Mine(b) = {} BY <2>1, <2>3 DEF OpClean, Mine
  <2>6. staged[moConn][b] = Mine(b) /\ b \in connMask BY <2>1, <1>2 DEF Clean, Running, Settled
  <2>7. Settled(b)' <=> b \notin mask' BY <1>1, <1>2 DEF Settled
  <2>8. tree[b] = base[b] BY <1>2 DEF OwnInv
  <2>9. \A c \in Connections : c # moConn => staged'[c][b] = {} BY <2>1, <1>2 DEF Clean
  <2>10. staged'[moConn'][b] = IF Settled(b)' THEN {} ELSE Mine(b)' BY <2>2, <2>5, <2>6, <2>7, <1>2
  <2>11. Settled(b)' => Mine(b)' = {} /\ tree'[b] = base'[b] BY <2>2, <2>5, <2>7, <2>8, <1>2
  <2>12. \A k \in Range(batch') : st'[k] = "done" /\ OpClean(k, b)' BY <2>3, <2>4, <1>2
  <2> QED BY <2>2, <2>6, <2>9, <2>10, <2>11, <2>12, <1>2 DEF Clean
<1>6. \A b, c \in Blobbers \ hit' : Agree(b, c)' BY <1>1, <1>2 DEF CleanSet, Agree
<1> QED BY <1>5, <1>6 DEF CleanSet

\* A commit to one blobber leaves the others as they were.
LEMMA CommitOther ==
  ASSUME TypeInv, pc = "commit", NEW b \in Blobbers, NEW c \in Blobbers \ {b},
         UNCHANGED <<ops, pc, moConn, batch, connMask, mask, st, change, base>>,
         todo' = todo \ {b}, UNCHANGED took \/ Counted(b), UNCHANGED blobs \/ Committed(b),
         Clean(c)
  PROVE  Clean(c)'
<1>1. Mine(c)' = Mine(c) /\ OwnTree(c)' = OwnTree(c) /\ Connections' = Connections
  BY DEF Mine, OwnTree, Connections
<1>2. tree'[c] = tree[c] BY DEF Committed, TypeInv, blobs
<1>3. \A d \in Connections : staged'[d][c] = staged[d][c]
  <2>1. moConn \in Connections /\ staged \in [Connections -> [Blobbers -> SUBSET Indices]]
    BY DEF TypeInv
  <2>2. CASE UNCHANGED blobs BY <2>2 DEF blobs
  <2>3. CASE Committed(b) BY <2>1, <2>3 DEF Committed
  <2> QED BY <2>2, <2>3
<1>4. \A k \in Indices : c \in took'[k] <=> c \in took[k]
  <2>1. took \in [Indices -> SUBSET Blobbers] BY DEF TypeInv
  <2>2. CASE UNCHANGED took BY <2>2
  <2>3. CASE Counted(b) BY <2>1, <2>3 DEF Counted
  <2> QED BY <2>2, <2>3
<1>5. Settled(c)' = Settled(c) BY DEF Settled
<1>6. \A k \in Range(batch) : OpClean(k, c)' <=> OpClean(k, c) BY <1>4, BatchIndices DEF OpClean
<1>7. Mine(c) \subseteq Indices /\ moConn \in Connections BY BatchIndices DEF Mine, TypeInv
<1> QED BY <1>1, <1>2, <1>3, <1>4, <1>5, <1>6, <1>7 DEF Clean, Running

\* A commit that was counted leaves its blobber clean.
LEMMA CommitOwn ==
  ASSUME TypeInv, OwnInv, pc = "commit", NEW b \in Blobbers, b \in todo,
         UNCHANGED <<ops, pc, moConn, batch, connMask, mask, st, change, base>>,
         todo' = todo \ {b}, Counted(b),
         \/ Mine(b) = {} /\ UNCHANGED blobs
         \/ Mine(b) # {} /\ Committed(b),
         Clean(b)
  PROVE  Clean(b)'
<1>1. Mine(b)' = Mine(b) /\ OwnTree(b)' = OwnTree(b) /\ Connections' = Connections
  BY DEF Mine, OwnTree, Connections
<1>2. moConn \in Connections /\ staged \in [Connections -> [Blobbers -> SUBSET Indices]]
  BY DEF TypeInv
<1>3. tree[b] = base[b] /\ Settled(b)' /\ ~Settled(b) BY DEF OwnInv, Settled
<1>4. tree'[b] = IF Mine(b) = {} THEN base[b] ELSE OwnTree(b)
  BY <1>3 DEF blobs, Committed, TypeInv, OwnTree
<1>5. staged[moConn][b] = Mine(b) BY <1>3 DEF Clean, Running
<1>6. staged'[moConn][b] = {} BY <1>2, <1>5 DEF blobs, Committed
<1>7. \A d \in Connections : d # moConn => staged'[d][b] = {}
  BY <1>2 DEF blobs, Committed, Clean
<1>8. Range(batch) \subseteq Indices /\ took \in [Indices -> SUBSET Blobbers] BY BatchIndices DEF TypeInv
<1>9. \A k \in Range(batch) : took[k] \subseteq took'[k] /\ (k \in Mine(b) => b \in took'[k])
  BY <1>8 DEF Counted
<1>10. \A k \in Range(batch) : OpClean(k, b) => OpClean(k, b)' BY <1>9 DEF OpClean
<1>11. Mine(b) \subseteq Range(batch) BY DEF Mine
<1> QED BY <1>1, <1>3, <1>4, <1>6, <1>7, <1>9, <1>10, <1>11 DEF Clean, Running

LEMMA CommitClean ==
  ASSUME TypeInv, OwnInv, NEW b \in Blobbers, CommitNothing(b) \/ CommitOK(b) \/ CommitFails(b), CleanSet
  PROVE  CleanSet'
<1>1. /\ pc = "commit" /\ b \in todo /\ todo' = todo \ {b}
      /\ UNCHANGED <<ops, pc, moConn, batch, connMask, mask, st, change, base>>
  BY DEF CommitNothing, CommitOK, CommitFails
<1>2. UNCHANGED took \/ Counted(b) BY DEF CommitNothing, CommitOK, CommitFails
<1>3. UNCHANGED blobs \/ Committed(b) BY DEF CommitNothing, CommitOK, CommitFails
<1>4. hit \subseteq hit' BY DEF CommitNothing, CommitOK, CommitFails, Fail
<1>5. \A c \in Blobbers \ hit' : c # b => Clean(c)' BY <1>1, <1>2, <1>3, <1>4, CommitOther DEF CleanSet
<1>6. \A c, d \in Blobbers \ hit' : Agree(c, d)' BY <1>1, <1>4 DEF CleanSet, Agree
<1>7. ASSUME b \notin hit' PROVE Clean(b)'
  <2>1. Clean(b) BY <1>4, <1>7 DEF CleanSet
  <2>2. CASE CommitNothing(b) \/ CommitOK(b)
    <3>1. Counted(b) /\ ((Mine(b) = {} /\ UNCHANGED blobs) \/ (Mine(b) # {} /\ Committed(b)))
      BY <2>2 DEF CommitNothing, CommitOK
    <3> QED BY <2>1, <3>1, <1>1, CommitOwn
  <2>3. CASE CommitFails(b)
    <3>1. Mine(b) # staged[moConn][b] BY <1>7, <2>3 DEF CommitFails, Fail
    <3> QED BY <3>1, <2>1, <1>1 DEF Clean, Running, Settled
  <2> QED BY <2>2, <2>3
<1> QED BY <1>5, <1>6, <1>7 DEF CleanSet

\* When all commits have ended, what is clean has all changes of the batch.
LEMMA DoneClean ==
  ASSUME TypeInv, OwnInv, StatusInv, FewHit, BatchDone, CleanSet
  PROVE  /\ pc' = "connect" => CleanSet'
         /\ \A k \in Range(batch) : Cardinality(took[k]) >= Thresh
<1>1. /\ pc = "commit" /\ todo = {}
      /\ UNCHANGED <<ops, tree, staged, moConn, batch, connMask, hit>>
  BY DEF BatchDone, blobs
<1>2. \A b \in Blobbers \ hit : Clean(b) /\ Settled(b) BY <1>1 DEF CleanSet, Settled
<1>3. \A b \in Blobbers \ hit : \A k \in Range(batch) : OpClean(k, b)
  BY <1>1, <1>2 DEF Clean, StatusInv, Running
<1>4. \A b, c \in Blobbers \ hit : tree[b] = tree[c]
  <2>1. SUFFICES ASSUME NEW b \in Blobbers \ hit, NEW c \in Blobbers \ hit PROVE tree[b] = tree[c]
    OBVIOUS
  <2>2. base[b] = base[c] BY <1>1 DEF CleanSet, Agree
  <2>3. \A k \in Range(batch) : change[k][b] = change[k][c] BY <2>2, <1>3 DEF OpClean
  <2>4. Mine(b) = Mine(c) BY <2>3 DEF Mine
  <2>5. OwnTree(b) = OwnTree(c) BY <2>2, <2>4 DEF OwnTree
  <2> QED BY <2>2, <2>4, <2>5, <1>2 DEF Clean
<1>5. ASSUME pc' = "connect" PROVE CleanSet'
  <2>1. ASSUME NEW b \in Blobbers \ hit PROVE Clean(b)'
    <3>1. \A c \in Connections : staged[c][b] = {} BY <1>1, <1>2 DEF Clean, Running
    <3> QED BY <3>1, <1>1, <1>5 DEF Clean, Running, Settled, Connections
  <2>2. \A b, c \in Blobbers \ hit : Agree(b, c)' BY <1>1, <1>4, <1>5 DEF Agree
  <2> QED BY <2>1, <2>2, <1>1 DEF CleanSet
<1>6. ASSUME NEW k \in Range(batch) PROVE Cardinality(took[k]) >= Thresh
  <2>1. \A b \in Blobbers \ hit : b \in took[k]
    <3>1. SUFFICES ASSUME NEW b \in Blobbers \ hit PROVE b \in took[k]
      OBVIOUS
    <3>2. OpClean(k, b) /\ \A j \in Mine(b) : b \in took[j] BY <1>2, <1>3 DEF Clean
    <3>3. CASE Needless(ops[k], base[b]) BY <3>2, <3>3 DEF OpClean
    <3>4. CASE ~Needless(ops[k], base[b])
      <4>1. k \in Mine(b) BY <3>2, <3>4 DEF OpClean, Mine
      <4> QED BY <3>2, <4>1
    <3> QED BY <3>3, <3>4
  <2>2. took[k] \in SUBSET Blobbers BY BatchIndices DEF TypeInv
  <2>3. Cardinality(Blobbers \ hit) = N - Cardinality(hit)
    <3>1. IsFiniteSet(Blobbers) /\ Cardinality(Blobbers) = N BY BlobberSets
    <3>2. Cardinality(Blobbers \ hit) = Cardinality(Blobbers) - Cardinality(Blobbers \cap hit)
      BY <3>1, FS_Difference
    <3>3. Blobbers \cap hit = hit BY DEF TypeInv
    <3> QED BY <3>1, <3>2, <3>3
  <2>4. Cardinality(Blobbers \ hit) <= Cardinality(took[k]) /\ Cardinality(took[k]) \in Nat
    BY <2>1, <2>2, BlobberSets, FS_Subset
  <2>5. Cardinality(hit) <= N - Thresh /\ Cardinality(hit) \in Nat
    BY BlobberSets DEF FewHit, TypeInv
  <2> QED BY <2>3, <2>4, <2>5, BlobberSets
<1> QED BY <1>5, <1>6

\* Steps that touch nothing of what a clean blobber has.
LEMMA QuietClean ==
  ASSUME TypeInv, StatusInv, CleanInv, FewHit, Collect \/ AllProcessed, pc' # "return", ~cancelled', CleanSet
  PROVE  CleanSet'
<1>1. CASE Collect
  <2>1. /\ pc = "collect" /\ pc' = "collect"
        /\ UNCHANGED <<ops, tree, staged, moConn, connMask, base, hit>>
    BY <1>1 DEF Collect, blobs
  <2> QED BY <2>1 DEF CleanSet, Clean, Agree, Running, Settled, Connections
<1>2. CASE AllProcessed
  <2>1. /\ pc = "process" /\ pc' = "lock"
        /\ UNCHANGED <<ops, tree, staged, moConn, batch, connMask, mask, st, change, base, took, hit>>
    BY <1>2 DEF AllProcessed, Return, blobs
  <2>2. ASSUME NEW b \in Blobbers \ hit PROVE Clean(b)'
    <3>1. Clean(b) BY DEF CleanSet
    <3>2. Mine(b)' = Mine(b) /\ \A k : OpClean(k, b)' = OpClean(k, b) BY <2>1 DEF Mine, OpClean
    <3> QED BY <2>1, <3>1, <3>2 DEF Clean, Running, Settled, Connections
  <2> QED BY <2>1, <2>2 DEF CleanSet, Agree
<1> QED BY <1>1, <1>2

LEMMA StepClean ==
  ASSUME TypeInv, TypeInv', OwnInv, StatusInv, CleanInv, FullInv, Steps
  PROVE  CleanInv' /\ FullInv'
<1>0. FewHit' => FewHit BY HitGrows
<1>1. ASSUME FewHit', pc' # "return", ~cancelled' PROVE CleanSet'
  <2>0. FewHit /\ pc # "return" /\ ~cancelled BY <1>0, <1>1, HitGrows
  <2>1. CleanSet BY <2>0 DEF CleanInv
  <2>2. CASE Connect BY <2>1, <2>2, <1>1, ConnectClean
  <2>3. CASE Collect \/ AllProcessed BY <2>0, <2>1, <2>3, <1>1, QuietClean
  <2>4. CASE CloseBatch BY <2>1, <2>4, CloseBatchClean
  <2>5. ASSUME NEW k \in Range(batch), OpProcess(k) PROVE CleanSet'
    BY <2>0, <2>1, <2>5, <1>1, ProcessClean
  <2>11. ASSUME NEW k \in Range(batch), DeleteProcess(k) PROVE CleanSet'
    BY <2>0, <2>1, <2>11, <1>1, DeleteClean
  <2>6. ASSUME NEW k \in Range(batch), OpSkipped(k) PROVE FALSE
    BY <2>0, <2>6 DEF OpSkipped
  <2>7. CASE Locked BY <2>1, <2>7, LockedClean
  <2>8. ASSUME NEW b \in Blobbers, CommitNothing(b) \/ CommitOK(b) \/ CommitFails(b) PROVE CleanSet'
    BY <2>1, <2>8, CommitClean
  <2>9. CASE BatchDone
    <3>1. pc' = "connect" BY <2>9, <1>1 DEF BatchDone, Return
    <3> QED BY <2>0, <2>1, <2>9, <3>1, DoneClean
  <2>10. CASE CollectFails \/ LockFails \/ BatchFails \/ \E b \in Blobbers : CommitPanics(b)
    <3>1. pc' = "return" BY <2>10 DEF CollectFails, LockFails, BatchFails, CommitPanics, Return
    <3> QED BY <3>1, <1>1
  <2> QED BY <2>2, <2>3, <2>4, <2>5, <2>6, <2>7, <2>8, <2>9, <2>10, <2>11 DEF Steps
<1>2. ASSUME FewHit', pc' = "connect" \/ ret' = "ok", NEW k \in Range(batch')
      PROVE  Cardinality(took'[k]) >= Thresh
  <2>1. ret = "ok" => pc = "return" BY DEF TypeInv
  <2>2. CASE CloseBatch
    <3>1. batch' = <<>>
      BY <2>1, <2>2, <1>2 DEF CloseBatch, Launch
    <3>2. Range(batch') = {} BY <3>1 DEF Range
    <3> QED BY <3>2, <1>2
  <2>3. CASE BatchDone
    <3>1. pc = "commit" /\ UNCHANGED <<batch, took, cancelled>> BY <2>3 DEF BatchDone
    <3>2. ~cancelled BY <3>1 DEF StatusInv
    <3>3. CleanSet BY <3>1, <3>2, <1>0, <1>2 DEF CleanInv
    <3>4. \A j \in Range(batch) : Cardinality(took[j]) >= Thresh BY <2>3, <3>3, <1>0, <1>2, DoneClean
    <3> QED BY <3>1, <3>4, <1>2
  <2>4. CASE ~CloseBatch /\ ~BatchDone
    <3>1. pc' # "connect" /\ ret' # "ok"
      BY <2>1, <2>4
         DEF Steps, Connect, Collect, CollectFails, OpProcess, DeleteProcess, OpSkipped, AllProcessed, Locked, LockFails,
             CommitPanics, CommitNothing, CommitOK, CommitFails, BatchFails, Return
    <3> QED BY <3>1, <1>2
  <2> QED BY <2>2, <2>3, <2>4
<1>3. CleanInv' BY <1>1 DEF CleanInv
<1>4. FullInv' BY <1>2 DEF FullInv
<1> QED BY <1>3, <1>4

LEMMA InitClean ==
  Init => OwnInv /\ SingleInv /\ StatusInv /\ CleanInv /\ FullInv
<1> SUFFICES ASSUME Init PROVE OwnInv /\ SingleInv /\ StatusInv /\ CleanInv /\ FullInv
  OBVIOUS
<1>1. /\ pc = "connect" /\ batch = <<>> /\ cancelled = FALSE /\ fails = 0
      /\ base = tree /\ tree = [b \in Blobbers |-> Start]
      /\ staged = [c \in Connections |-> [b \in Blobbers |-> {}]]
  BY DEF Init
<1>2. OwnInv BY <1>1 DEF OwnInv, OnlyOwnChanges
<1>3. Len(batch) # 1 /\ Range(batch) = {} BY <1>1 DEF Range
<1>4. SingleInv BY <1>3 DEF SingleInv
<1>5. StatusInv BY <1>1 DEF StatusInv
<1>6. FullInv BY <1>3 DEF FullInv
<1>7. \A b \in Blobbers : Clean(b) BY <1>1 DEF Clean, Running, Settled
<1>8. CleanSet BY <1>1, <1>7 DEF CleanSet, Agree
<1>9. CleanInv BY <1>8 DEF CleanInv
<1> QED BY <1>2, <1>4, <1>5, <1>6, <1>9

LEMMA StutterClean ==
  ASSUME TypeInv, OwnInv, SingleInv, StatusInv, CleanInv, FullInv, UNCHANGED vars
  PROVE  OwnInv' /\ SingleInv' /\ StatusInv' /\ CleanInv' /\ FullInv'
<1> USE DEF vars, blobs
<1>1. \A b \in Blobbers : Mine(b)' = Mine(b) /\ OwnTree(b)' = OwnTree(b) BY DEF Mine, OwnTree
<1>2. OwnInv' BY <1>1 DEF OwnInv, OnlyOwnChanges
<1>3. SingleInv' BY DEF SingleInv, Running
<1>4. StatusInv' /\ FullInv' BY DEF StatusInv, FullInv, FewHit
<1>5. \A b \in Blobbers : Clean(b) => Clean(b)'
  BY <1>1 DEF Clean, OpClean, Settled, Running, Connections
<1>6. CleanSet => CleanSet' BY <1>5 DEF CleanSet, Agree
<1>7. CleanInv' BY <1>6 DEF CleanInv, FewHit
<1> QED BY <1>2, <1>3, <1>4, <1>7

\* Every operation of a batch that Process reported as completed is held by a threshold of
\* the blobbers, with failures touching no more blobbers than there are to spare and a
\* threshold above half, or in a batch of one operation, not a delete, with any failures, whatever the
\* operations and the batches they are split into (multi_operation_worker.go:146-310).
THEOREM CompletedHolds == Spec => []CompletedOnThreshold
<1> DEFINE Inv == OwnInv /\ SingleInv /\ StatusInv /\ CleanInv /\ FullInv
<1>1. Init => Inv BY InitClean
<1>2. TypeInv /\ TypeInv' /\ Inv /\ [Next]_vars => Inv'
  BY NextSteps, StutterClean, StepOwn, StepSingle, StepStatus, StepClean
<1>3. TypeInv /\ Inv => CompletedOnThreshold
  <2> SUFFICES ASSUME TypeInv, SingleInv, FullInv, pc = "connect" \/ ret = "ok",
                      FewHit \/ (Len(batch) = 1 /\ ops[batch[1]].kind # "delete"), NEW k \in Range(batch)
               PROVE  Cardinality(took[k]) >= Thresh
    BY DEF CompletedOnThreshold
  <2>1. CASE FewHit BY <2>1 DEF FullInv
  <2>2. CASE Len(batch) = 1 /\ ops[batch[1]].kind # "delete" BY <2>2, OneRange DEF SingleInv
  <2> QED BY <2>1, <2>2
<1> QED BY <1>1, <1>2, <1>3, TypesAlways, PTL DEF Spec
=============================================================================
