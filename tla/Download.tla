------------------------------- MODULE Download -------------------------------
(***************************************************************************)
(* DownloadRequest.processDownload: n goroutines each fetch one piece of    *)
(* the file from datashards blobbers and pass it to one writer goroutine    *)
(* through a channel; the writer writes the pieces in order.                *)
(*                                                                         *)
(* The goroutines share req.downloadMask.  A piece is fetched in rounds     *)
(* (getBlocksDataFromBlobbers): downloadBlock asks a number of blobbers     *)
(* and waits for that many results; the failed ones are made up for in the  *)
(* next round.                                                              *)
(***************************************************************************)
EXTENDS Integers, Sequences, FiniteSets

CONSTANTS
  N,           \* len(req.blobbers)
  datashards,  \* req.datashards, also req.consensusThresh
  Pieces,      \* n: how many pieces the file has
  MaxFail,     \* bound: block downloads that fail
  MaySkip      \* may blobbers be marked to be skipped by earlier errors

ASSUME DownloadConstants ==
  /\ N \in Nat /\ datashards \in 1 .. N
  /\ Pieces \in Nat \ {0}
  /\ MaxFail \in Nat
  /\ MaySkip \in BOOLEAN

VARIABLES
  downloadMask,  \* req.downloadMask
  skip,          \* the blobbers with IsSkip()
  st,            \* per piece: where its goroutine is
  mask,          \* per piece: mask of the next downloadBlock
  required,      \* per piece: requiredDownloads of it
  remaining,     \* per piece: remainingMask it returned
  pending,       \* per piece: requests without a result
  awaited,       \* per piece: results the receive loop still waits for
  failed,        \* per piece: failed results of the round
  shards,        \* per piece: the blobbers whose shard was filled in
  blocks,        \* the channel to the writer
  closed,        \* whether it is closed
  writer,        \* the writer goroutine
  next,          \* its loop variable i
  buffer,        \* its out-of-order pieces
  written,       \* history: the pieces written to the file
  main,          \* processDownload itself
  canceled,      \* req.isDownloadCanceled
  fails,         \* history: how many block downloads failed
  broken         \* history: the blobbers removed from the mask

pieceVars == <<st, mask, required, remaining, pending, awaited, failed, shards>>
writerVars == <<blocks, closed, writer, next, buffer, written>>
vars == <<downloadMask, skip, st, mask, required, remaining, pending, awaited,
          failed, shards, blocks, closed, writer, next, buffer, written, main, canceled,
          fails, broken>>

Indices == 0 .. N-1   \* of req.blobbers
Jobs == 0 .. Pieces-1
States == {"init", "start", "wait", "decode", "done", "error"}

\* processReadMarker left a mask of at least consensusThresh blobbers.
Init ==
  /\ downloadMask \in {m \in SUBSET Indices : Cardinality(m) >= datashards}
  /\ skip \in IF MaySkip THEN SUBSET Indices ELSE {{}}
  /\ st = [j \in Jobs |-> "init"]
  /\ mask = [j \in Jobs |-> {}]
  /\ required = [j \in Jobs |-> datashards]
  /\ remaining = [j \in Jobs |-> {}]
  /\ pending = [j \in Jobs |-> {}]
  /\ awaited = [j \in Jobs |-> 0]
  /\ failed = [j \in Jobs |-> 0]
  /\ shards = [j \in Jobs |-> {}]
  /\ blocks = <<>>
  /\ closed = FALSE
  /\ writer = "run"
  /\ next = 0
  /\ buffer = {}
  /\ written = <<>>
  /\ main = "run"
  /\ canceled = FALSE
  /\ fails = 0
  /\ broken = {}

-----------------------------------------------------------------------------
(* getBlocksDataFromBlobbers and downloadBlock                             *)

\* The first k blobbers of m in index order.
FirstOf(m, k) == {b \in m : Cardinality({c \in m : c < b}) < k}

\* mask := req.downloadMask
Begin(j) ==
  /\ st[j] = "init"
  /\ st' = [st EXCEPT ![j] = "start"]
  /\ mask' = [mask EXCEPT ![j] = downloadMask]
  /\ UNCHANGED <<downloadMask, skip, required, remaining, pending, awaited,
                 failed, shards, writerVars, main, canceled, fails, broken>>

\* insufficient_blobbers
Insufficient(j) ==
  /\ st[j] = "start"
  /\ Cardinality(mask[j]) < required[j]
  /\ st' = [st EXCEPT ![j] = "error"]
  /\ UNCHANGED <<downloadMask, skip, mask, required, remaining, pending, awaited,
                 failed, shards, writerVars, main, canceled, fails, broken>>

\* Mutant: the round goes over the mask it was given.
ChosenFromArgument(j) == FirstOf(mask[j], required[j])

\* The blobbers a round goes over.
Chosen(j) == FirstOf(downloadMask, required[j])

\* Those that will send a result: a skipped one sends an error, and after it no
\* other is asked (skipDownload is never reset).
Asked(j) == {b \in Chosen(j) : b \in skip \/ \A c \in Chosen(j) \cap skip : b < c}

\* The loop over req.downloadMask.  It stops at requiredDownloads blobbers, and
\* remainingMask is the loop variable at that point: the last one is still in it.
AskBlobbers(j) ==
  /\ st[j] = "start"
  /\ Cardinality(mask[j]) >= required[j]
  /\ st' = [st EXCEPT ![j] = "wait"]
  /\ pending' = [pending EXCEPT ![j] = Asked(j)]
  /\ remaining' = [remaining EXCEPT ![j] =
       IF Cardinality(Chosen(j)) = required[j]
         THEN {b \in downloadMask : \A c \in Chosen(j) : c <= b}
         ELSE {}]
  /\ awaited' = [awaited EXCEPT ![j] = required[j]]
  /\ failed' = [failed EXCEPT ![j] = 0]
  /\ UNCHANGED <<downloadMask, skip, mask, required, shards, writerVars, main, canceled,
                 fails, broken>>

\* A result is received from rspCh.
Received(j, b) ==
  /\ b \in pending[j]
  /\ pending' = [pending EXCEPT ![j] = @ \ {b}]
  /\ awaited' = [awaited EXCEPT ![j] = @ - 1]
  /\ UNCHANGED <<skip, st, mask, required, remaining, writerVars, main, canceled>>

\* downloadBlobberBlock delivered the blocks; fillShards.
BlockOK(j, b) ==
  /\ b \notin skip
  /\ Received(j, b)
  /\ shards' = [shards EXCEPT ![j] = @ \cup {b}]
  /\ UNCHANGED <<downloadMask, failed, fails, broken>>

\* It failed three times, fillShards could not decrypt, or the blobber is skipped.
BlockFails(j, b) ==
  /\ b \in skip \/ fails < MaxFail
  /\ Received(j, b)
  /\ fails' = IF b \in skip THEN fails ELSE fails + 1
  /\ failed' = [failed EXCEPT ![j] = @ + 1]
  /\ downloadMask' = downloadMask \ {b}
  /\ broken' = broken \cup {b}
  /\ UNCHANGED shards

\* The round is over: the next one makes up for the failed blobbers.
NextRound(j) ==
  /\ st[j] = "wait" /\ awaited[j] = 0
  /\ failed[j] # 0
  /\ IF failed[j] > Cardinality(remaining[j])
       THEN st' = [st EXCEPT ![j] = "error"] /\ UNCHANGED <<required, mask>>
       ELSE /\ st' = [st EXCEPT ![j] = "start"]
            /\ required' = [required EXCEPT ![j] = failed[j]]
            /\ mask' = [mask EXCEPT ![j] = remaining[j]]
  /\ UNCHANGED <<downloadMask, skip, remaining, pending, awaited, failed, shards,
                 writerVars, main, canceled, fails, broken>>

RoundsOver(j) ==
  /\ st[j] = "wait" /\ awaited[j] = 0
  /\ failed[j] = 0
  /\ st' = [st EXCEPT ![j] = "decode"]
  /\ UNCHANGED <<downloadMask, skip, mask, required, remaining, pending, awaited,
                 failed, shards, writerVars, main, canceled, fails, broken>>

\* Mutant: one shard more than needed is asked for.
DecodeNeedsMore(j) ==
  /\ st[j] = "decode"
  /\ IF canceled \/ Cardinality(shards[j]) <= datashards
       THEN st' = [st EXCEPT ![j] = "error"] /\ UNCHANGED blocks
       ELSE st' = [st EXCEPT ![j] = "done"] /\ blocks' = Append(blocks, j)
  /\ UNCHANGED <<downloadMask, skip, mask, required, remaining, pending, awaited,
                 failed, shards, closed, writer, next, buffer, written, main, canceled, fails,
                 broken>>

\* getBlocksData: erasure decoding needs datashards shards; then the goroutine looks
\* at isDownloadCanceled and sends the piece.
Decode(j) ==
  /\ st[j] = "decode"
  /\ IF canceled \/ Cardinality(shards[j]) < datashards
       THEN st' = [st EXCEPT ![j] = "error"] /\ UNCHANGED blocks
       ELSE st' = [st EXCEPT ![j] = "done"] /\ blocks' = Append(blocks, j)
  /\ UNCHANGED <<downloadMask, skip, mask, required, remaining, pending, awaited,
                 failed, shards, closed, writer, next, buffer, written, main, canceled, fails,
                 broken>>

-----------------------------------------------------------------------------
(* The writer goroutine                                                    *)

Writes(j) ==
  /\ written' = Append(written, j)
  /\ next' = next + 1

\* The piece the writer needs is already in its buffer.
WriteBuffered ==
  /\ writer = "run" /\ next \in buffer
  /\ Writes(next)
  /\ buffer' = buffer \ {next}
  /\ UNCHANGED <<downloadMask, skip, pieceVars, blocks, closed, writer, main, canceled, fails,
                 broken>>

\* Mutant: a piece that is not the next one is written all the same.
TakeAnyBlock ==
  /\ writer = "run" /\ next < Pieces /\ next \notin buffer
  /\ blocks # <<>>
  /\ blocks' = Tail(blocks)
  /\ Writes(Head(blocks))
  /\ UNCHANGED <<downloadMask, skip, pieceVars, buffer, closed, writer, main, canceled, fails,
                 broken>>

\* It takes the next piece from the channel: write it or keep it for later.  The
\* range loop cannot end before its piece comes: close follows the last send.
TakeBlock ==
  /\ writer = "run" /\ next < Pieces /\ next \notin buffer
  /\ blocks # <<>>
  /\ blocks' = Tail(blocks)
  /\ IF Head(blocks) = next
       THEN Writes(next) /\ UNCHANGED buffer
       ELSE buffer' = buffer \cup {Head(blocks)} /\ UNCHANGED <<written, next>>
  /\ UNCHANGED <<downloadMask, skip, pieceVars, closed, writer, main, canceled, fails, broken>>

\* Write fails, or the hash of the whole file is wrong: errorCB and return, without
\* wg.Done().
WriteFails ==
  /\ fails < MaxFail
  /\ fails' = fails + 1
  /\ writer = "run" /\ next < Pieces
  /\ next \in buffer \/ (blocks # <<>> /\ Head(blocks) = next)
  /\ writer' = "failed"
  /\ UNCHANGED <<downloadMask, skip, pieceVars, blocks, closed, next, buffer, written, main,
                 canceled, broken>>

\* All pieces handled: Sync, wg.Done().
WriterDone ==
  /\ writer = "run" /\ next = Pieces
  /\ writer' = "done"
  /\ UNCHANGED <<downloadMask, skip, pieceVars, blocks, closed, next, buffer, written, main,
                 canceled, fails, broken>>

-----------------------------------------------------------------------------
(* processDownload                                                         *)

\* eg.Wait() with an error: errorCB, and the writer is left behind.
DownloadFails ==
  /\ main = "run"
  /\ \A j \in Jobs : st[j] \in {"done", "error"}
  /\ \E j \in Jobs : st[j] = "error"
  /\ main' = "error"
  /\ UNCHANGED <<downloadMask, skip, pieceVars, writerVars, canceled, fails, broken>>

\* eg.Wait() without one: close(blocks).
CloseBlocks ==
  /\ main = "run"
  /\ \A j \in Jobs : st[j] = "done"
  /\ closed' = TRUE
  /\ main' = "closed"
  /\ UNCHANGED <<downloadMask, skip, pieceVars, blocks, writer, next, buffer, written, canceled,
                 fails, broken>>

\* wg.Wait(), then statusCallback.Completed.
Completed ==
  /\ main = "closed" /\ writer = "done"
  /\ main' = "completed"
  /\ UNCHANGED <<downloadMask, skip, pieceVars, writerVars, canceled, fails, broken>>

\* CancelDownload
CancelDownload ==
  /\ MaxFail > 0 /\ main = "run" /\ ~canceled
  /\ canceled' = TRUE
  /\ UNCHANGED <<downloadMask, skip, pieceVars, writerVars, main, fails, broken>>

-----------------------------------------------------------------------------
Fetch(j) ==
  \/ Begin(j) \/ Insufficient(j) \/ AskBlobbers(j) \/ NextRound(j) \/ RoundsOver(j) \/ Decode(j)
  \/ \E b \in Indices : BlockOK(j, b)

Next ==
  \/ \E j \in Jobs : Fetch(j)
  \/ \E j \in Jobs, b \in Indices : BlockFails(j, b)
  \/ WriteBuffered \/ TakeBlock \/ WriteFails \/ WriterDone
  \/ DownloadFails \/ CloseBlocks \/ Completed
  \/ CancelDownload

Spec == Init /\ [][Next]_vars

\* The goroutines run and an asked blobber answers; nothing has to fail.
Fairness ==
  /\ \A j \in Jobs : WF_vars(Fetch(j))
  /\ WF_vars(WriteBuffered \/ TakeBlock \/ WriterDone)
  /\ WF_vars(DownloadFails \/ CloseBlocks \/ Completed)

FairSpec == Spec /\ Fairness

-----------------------------------------------------------------------------
\* The type invariant.
TypeOK ==
  /\ downloadMask \in SUBSET Indices
  /\ skip \in SUBSET Indices
  /\ st \in [Jobs -> States]
  /\ mask \in [Jobs -> SUBSET Indices]
  /\ required \in [Jobs -> 1 .. datashards]
  /\ remaining \in [Jobs -> SUBSET Indices]
  /\ pending \in [Jobs -> SUBSET Indices]
  /\ awaited \in [Jobs -> 0 .. datashards]
  /\ failed \in [Jobs -> 0 .. datashards]
  /\ shards \in [Jobs -> SUBSET Indices]
  /\ blocks \in Seq(Jobs)
  /\ closed \in BOOLEAN
  /\ writer \in {"run", "failed", "done"}
  /\ next \in 0 .. Pieces
  /\ buffer \in SUBSET Jobs
  /\ written \in Seq(Jobs)
  /\ main \in {"run", "closed", "completed", "error"}
  /\ canceled \in BOOLEAN
  /\ fails \in 0 .. MaxFail
  /\ broken \in SUBSET Indices

\* The writer goroutine: whatever order the pieces arrive in, the file always holds
\* the pieces 0, 1, 2, ... in this order, and all of them when Completed is called.
WrittenInOrder ==
  /\ \A k \in DOMAIN written : written[k] = k - 1
  /\ main = "completed" => Len(written) = Pieces

\* downloadBlock: a blobber that failed for one piece is not asked again, neither for
\* it nor, once the failure is known, by the goroutine of another piece.
FailedNotAskedAgain ==
  [][\A j \in Jobs : st[j] = "start" /\ st'[j] = "wait" => pending'[j] \cap broken = {}]_vars

\* processDownload: if no blobber fails or is skipped, nothing fails to be written and
\* nobody cancels, the download completes, in whatever order the pieces arrive.
DownloadCompletes ==
  skip = {} => <>(main = "completed" \/ fails > 0 \/ canceled)
=============================================================================
