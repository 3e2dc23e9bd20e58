-------------------------------- MODULE ReadProofs --------------------------------
(*****************************************************************************)
(* Three components that read the allocation, for every number of blobbers,  *)
(* shards, pieces, children, paths, edits and failures:                      *)
(*                                                                           *)
(* a download writes its pieces in order and does not ask a blobber again    *)
(* that failed (Download); what a download, a ticket or a copy reads is not  *)
(* undone by the writer afterwards (Listing); the operations of a difference *)
(* make two folders equal, delete on both what one side deleted, and leave   *)
(* nothing for the sync that is repeated (Sync).                             *)
(*****************************************************************************)
EXTENDS Download, Listing, Sync, FiniteSetTheorems, WellFoundedInduction, TLAPS

\* A receive loop waits for at least the requests without a result, and the results
\* still to come and the failed ones together are one round.
RoundsBounded ==
  \A j \in Jobs : /\ Cardinality(pending[j]) <= awaited[j]
                  /\ awaited[j] + failed[j] <= datashards

\* A blobber that was removed from the mask does not come back.
BrokenStayOut == broken \cap downloadMask = {}

\* The writer's counter is the length of the file, and it stops after the last piece.
WriterCounts ==
  /\ next = Len(written)
  /\ \A k \in DOMAIN written : written[k] = k - 1
  /\ writer = "done" => next = Pieces
  /\ main = "completed" => writer = "done"

DInv == TypeOK /\ RoundsBounded /\ BrokenStayOut /\ WriterCounts

-----------------------------------------------------------------------------
(* Sets of blobbers                                                         *)

LEMMA FiniteMasks ==
  ASSUME NEW m \in SUBSET Indices
  PROVE  IsFiniteSet(m) /\ Cardinality(m) \in Nat
<1>1. IsFiniteSet(0 .. N-1) BY DownloadConstants, FS_Interval
<1>2. IsFiniteSet(m) BY <1>1, FS_Subset DEF Indices
<1> QED BY <1>2, FS_CardinalityType

\* The first k blobbers of a mask are at most k: their ranks are different numbers
\* below k.
LEMMA FirstOfSize ==
  ASSUME NEW m \in SUBSET Indices, NEW k \in Nat
  PROVE  FirstOf(m, k) \subseteq m /\ Cardinality(FirstOf(m, k)) <= k
<1> DEFINE below(b) == {c \in m : c < b}
           F == FirstOf(m, k)
           rank == [b \in F |-> Cardinality(below(b))]
<1>0. \A b \in m : b \in Int BY DownloadConstants DEF Indices
<1>1. F \subseteq m BY DEF FirstOf
<1>2. \A b \in F : below(b) \in SUBSET Indices /\ rank[b] \in Nat /\ rank[b] < k
  BY FiniteMasks DEF FirstOf
<1>3. rank \in [F -> 0 .. k-1] BY <1>2
<1>4. ASSUME NEW a \in F, NEW b \in F, a < b PROVE rank[a] < rank[b]
  <2> HIDE DEF F
  <2>1. a \in m /\ b \in m /\ a \in Int /\ b \in Int BY <1>0, <1>1
  <2>6. (\A c \in m : c < a => c < b) /\ ~(a < a) BY <2>1, <1>0, <1>4
  <2>2. below(a) \in SUBSET below(b) /\ a \in below(b) /\ a \notin below(a)
    BY <2>1, <2>6, <1>4
  <2>3. IsFiniteSet(below(b)) BY <1>2, FiniteMasks
  <2>4. /\ Cardinality(below(a)) <= Cardinality(below(b))
        /\ Cardinality(below(b)) # Cardinality(below(a))
    BY <2>2, <2>3, FS_Subset
  <2>5. Cardinality(below(a)) \in Nat /\ Cardinality(below(b)) \in Nat BY <1>2
  <2> QED BY <2>4, <2>5
<1>5. rank \in Injection(F, 0 .. k-1)
  <2> SUFFICES ASSUME NEW a \in F, NEW b \in F, rank[a] = rank[b] PROVE a = b
    BY <1>3 DEF Injection, IsInjective
  <2>1. a \in Int /\ b \in Int BY <1>0, <1>1
  <2>2. ~(a < b) /\ ~(b < a) BY <1>2, <1>4
  <2> QED BY <2>1, <2>2
<1>6. IsFiniteSet(0 .. k-1) /\ Cardinality(0 .. k-1) = k BY FS_Interval
<1>7. Cardinality(F) <= Cardinality(0 .. k-1) BY <1>5, <1>6, FS_Injection
<1> QED BY <1>1, <1>6, <1>7

LEMMA AskedSize ==
  ASSUME DInv, NEW j \in Jobs
  PROVE  /\ Chosen(j) \subseteq downloadMask /\ Asked(j) \in SUBSET Indices
         /\ Asked(j) \subseteq downloadMask /\ Cardinality(Asked(j)) <= required[j]
<1>1. downloadMask \in SUBSET Indices /\ required[j] \in Nat
  BY DownloadConstants DEF DInv, TypeOK
<1>2. Chosen(j) \subseteq downloadMask /\ Cardinality(Chosen(j)) <= required[j]
  BY <1>1, FirstOfSize DEF Chosen
<1>3. Asked(j) \in SUBSET Chosen(j) BY DEF Asked
<1>4. IsFiniteSet(Chosen(j)) /\ Cardinality(Chosen(j)) \in Nat BY <1>1, <1>2, FiniteMasks
<1>5. Cardinality(Asked(j)) <= Cardinality(Chosen(j)) BY <1>3, <1>4, FS_Subset
<1>6. Cardinality(Asked(j)) \in Nat BY <1>1, <1>2, <1>3, FiniteMasks
<1> QED BY <1>1, <1>2, <1>3, <1>4, <1>5, <1>6

-----------------------------------------------------------------------------
(* The invariant                                                            *)

LEMMA DInit == Init => DInv
<1> SUFFICES ASSUME Init PROVE DInv OBVIOUS
<1> USE DownloadConstants DEF Init
<1>1. TypeOK
  <2>1. skip \in SUBSET Indices /\ downloadMask \in SUBSET Indices OBVIOUS
  <2>2. /\ st \in [Jobs -> States] /\ required \in [Jobs -> 1 .. datashards]
        /\ awaited \in [Jobs -> 0 .. datashards] /\ failed \in [Jobs -> 0 .. datashards]
    BY DEF States
  <2>3. /\ mask \in [Jobs -> SUBSET Indices] /\ remaining \in [Jobs -> SUBSET Indices]
        /\ pending \in [Jobs -> SUBSET Indices] /\ shards \in [Jobs -> SUBSET Indices]
    OBVIOUS
  <2>4. blocks \in Seq(Jobs) /\ written \in Seq(Jobs) OBVIOUS
  <2>5. next \in 0 .. Pieces /\ fails \in 0 .. MaxFail OBVIOUS
  <2> QED BY <2>1, <2>2, <2>3, <2>4, <2>5 DEF TypeOK
<1>2. RoundsBounded BY FS_EmptySet DEF RoundsBounded
<1>3. BrokenStayOut /\ WriterCounts BY DEF BrokenStayOut, WriterCounts
<1> QED BY <1>1, <1>2, <1>3 DEF DInv

\* The types of the variables that only the goroutines of the pieces change.
PieceTypes ==
  /\ st \in [Jobs -> States]
  /\ mask \in [Jobs -> SUBSET Indices]
  /\ required \in [Jobs -> 1 .. datashards]
  /\ remaining \in [Jobs -> SUBSET Indices]
  /\ pending \in [Jobs -> SUBSET Indices]
  /\ awaited \in [Jobs -> 0 .. datashards]
  /\ failed \in [Jobs -> 0 .. datashards]
  /\ shards \in [Jobs -> SUBSET Indices]

\* A step of a piece that leaves the masks and the writer alone.
LEMMA PieceStep ==
  ASSUME DInv, PieceTypes', RoundsBounded',
         UNCHANGED <<downloadMask, skip, writerVars, main, canceled, fails, broken>>
  PROVE  DInv'
BY DEF DInv, TypeOK, PieceTypes, BrokenStayOut, WriterCounts, writerVars

\* Rounds of a piece in which no result arrives.
LEMMA RoundStep ==
  ASSUME DInv, NEW j \in Jobs,
         Begin(j) \/ Insufficient(j) \/ AskBlobbers(j) \/ NextRound(j) \/ RoundsOver(j)
  PROVE  DInv'
<1> USE DownloadConstants DEF DInv, TypeOK
<1>1. CASE Begin(j)
  <2>1. PieceTypes' BY <1>1 DEF Begin, PieceTypes, States
  <2>2. RoundsBounded' BY <1>1 DEF Begin, RoundsBounded
  <2> QED BY <2>1, <2>2, <1>1, PieceStep DEF Begin
<1>2. CASE Insufficient(j)
  <2>1. PieceTypes' BY <1>2 DEF Insufficient, PieceTypes, States
  <2>2. RoundsBounded' BY <1>2 DEF Insufficient, RoundsBounded
  <2> QED BY <2>1, <2>2, <1>2, PieceStep DEF Insufficient
<1>3. CASE AskBlobbers(j)
  <2>1. /\ Asked(j) \in SUBSET Indices /\ Cardinality(Asked(j)) <= required[j]
        /\ required[j] \in 1 .. datashards
    BY AskedSize
  <2>2. PieceTypes'
    <3>1. remaining' \in [Jobs -> SUBSET Indices] BY <1>3 DEF AskBlobbers
    <3>2. awaited' \in [Jobs -> 0 .. datashards] /\ failed' \in [Jobs -> 0 .. datashards]
      BY <1>3, <2>1 DEF AskBlobbers
    <3>3. pending' \in [Jobs -> SUBSET Indices] /\ st' \in [Jobs -> States]
      BY <1>3, <2>1 DEF AskBlobbers, States
    <3> QED BY <3>1, <3>2, <3>3, <1>3 DEF PieceTypes, AskBlobbers
  <2>3. RoundsBounded'
    <3> SUFFICES ASSUME NEW i \in Jobs
                 PROVE  /\ Cardinality(pending'[i]) <= awaited'[i]
                        /\ awaited'[i] + failed'[i] <= datashards
      BY DEF RoundsBounded
    <3>1. CASE i = j BY <3>1, <1>3, <2>1 DEF AskBlobbers
    <3>2. CASE i # j BY <3>2, <1>3 DEF AskBlobbers, RoundsBounded
    <3> QED BY <3>1, <3>2
  <2> QED BY <2>2, <2>3, <1>3, PieceStep DEF AskBlobbers
<1>4. CASE NextRound(j)
  <2>1. PieceTypes'
    <3>1. failed[j] \in 1 .. datashards BY <1>4 DEF NextRound
    <3>2. st' \in [Jobs -> States] BY <1>4 DEF NextRound, States
    <3>3. required' \in [Jobs -> 1 .. datashards] /\ mask' \in [Jobs -> SUBSET Indices]
      BY <1>4, <3>1 DEF NextRound
    <3> QED BY <3>2, <3>3, <1>4 DEF PieceTypes, NextRound
  <2>2. RoundsBounded' BY <1>4 DEF NextRound, RoundsBounded
  <2> QED BY <2>1, <2>2, <1>4, PieceStep DEF NextRound
<1>5. CASE RoundsOver(j)
  <2>1. PieceTypes' BY <1>5 DEF RoundsOver, PieceTypes, States
  <2>2. RoundsBounded' BY <1>5 DEF RoundsOver, RoundsBounded
  <2> QED BY <2>1, <2>2, <1>5, PieceStep DEF RoundsOver
<1> QED BY <1>1, <1>2, <1>3, <1>4, <1>5

\* What receiving a result does to the round.
LEMMA ReceivedStep ==
  ASSUME DInv, NEW j \in Jobs, NEW b \in Indices, Received(j, b),
         NEW d \in {0, 1}, failed' = [failed EXCEPT ![j] = @ + d]
  PROVE  /\ pending' \in [Jobs -> SUBSET Indices]
         /\ awaited' \in [Jobs -> 0 .. datashards]
         /\ failed' \in [Jobs -> 0 .. datashards]
         /\ RoundsBounded'
<1> USE DownloadConstants DEF DInv, TypeOK, Received
<1>1. /\ IsFiniteSet(pending[j]) /\ Cardinality(pending[j]) \in Nat
      /\ Cardinality(pending[j] \ {b}) = Cardinality(pending[j]) - 1
      /\ Cardinality(pending[j] \ {b}) \in Nat
  BY FiniteMasks, FS_RemoveElement
<1>2. awaited[j] \in 1 .. datashards /\ failed[j] + d \in 0 .. datashards
  BY <1>1 DEF RoundsBounded
<1>3. pending' \in [Jobs -> SUBSET Indices] OBVIOUS
<1>4. awaited' \in [Jobs -> 0 .. datashards] /\ failed' \in [Jobs -> 0 .. datashards]
  BY <1>2
<1>5. RoundsBounded'
  <2> SUFFICES ASSUME NEW i \in Jobs
               PROVE  /\ Cardinality(pending'[i]) <= awaited'[i]
                      /\ awaited'[i] + failed'[i] <= datashards
    BY DEF RoundsBounded
  <2>1. CASE i = j
    <3>1. /\ Cardinality(pending[j]) <= awaited[j] /\ awaited[j] + failed[j] <= datashards
          /\ pending'[j] = pending[j] \ {b} /\ awaited'[j] = awaited[j] - 1
          /\ failed'[j] = failed[j] + d
      BY DEF RoundsBounded
    <3> QED BY <2>1, <3>1, <1>1, <1>2
  <2>2. CASE i # j
    <3>1. pending'[i] = pending[i] /\ awaited'[i] = awaited[i] /\ failed'[i] = failed[i]
      BY <2>2
    <3> QED BY <3>1 DEF RoundsBounded
  <2> QED BY <2>1, <2>2
<1> QED BY <1>3, <1>4, <1>5

\* downloadBlobberBlock returns.
LEMMA ResultStep ==
  ASSUME DInv, NEW j \in Jobs, NEW b \in Indices, BlockOK(j, b) \/ BlockFails(j, b)
  PROVE  DInv'
<1> USE DownloadConstants DEF DInv, TypeOK
<1>1. CASE BlockOK(j, b)
  <2>1. Received(j, b) /\ failed' = [failed EXCEPT ![j] = @ + 0] BY <1>1 DEF BlockOK
  <2>2. /\ pending' \in [Jobs -> SUBSET Indices]
        /\ awaited' \in [Jobs -> 0 .. datashards]
        /\ failed' \in [Jobs -> 0 .. datashards]
        /\ RoundsBounded'
    BY <2>1, ReceivedStep
  <2>3. shards' \in [Jobs -> SUBSET Indices] BY <1>1 DEF BlockOK
  <2>4. PieceTypes' BY <2>1, <2>2, <2>3 DEF PieceTypes, Received
  <2> QED BY <2>2, <2>4, <1>1, PieceStep DEF BlockOK, Received
<1>2. CASE BlockFails(j, b)
  <2>1. Received(j, b) /\ failed' = [failed EXCEPT ![j] = @ + 1] BY <1>2 DEF BlockFails
  <2>2. /\ pending' \in [Jobs -> SUBSET Indices]
        /\ awaited' \in [Jobs -> 0 .. datashards]
        /\ failed' \in [Jobs -> 0 .. datashards]
        /\ RoundsBounded'
    BY <2>1, ReceivedStep
  <2>3. /\ downloadMask' \in SUBSET Indices /\ broken' \in SUBSET Indices
        /\ fails' \in 0 .. MaxFail /\ BrokenStayOut'
    BY <1>2 DEF BlockFails, BrokenStayOut
  <2>4. UNCHANGED <<skip, st, mask, required, remaining, shards, writerVars, main, canceled>>
    BY <1>2 DEF BlockFails, Received
  <2>5. WriterCounts' BY <2>4 DEF WriterCounts, writerVars
  <2>6. TypeOK' BY <2>2, <2>3, <2>4 DEF writerVars
  <2> QED BY <2>2, <2>3, <2>5, <2>6
<1> QED BY <1>1, <1>2

\* The piece is decoded and sent to the writer.
LEMMA DecodeStep ==
  ASSUME DInv, NEW j \in Jobs, Decode(j)
  PROVE  DInv'
<1> USE DEF DInv
<1>1. UNCHANGED <<downloadMask, skip, mask, required, remaining, pending, awaited, failed, shards,
                  closed, writer, next, buffer, written, main, canceled, fails, broken>>
  BY DEF Decode
<1>2. st' \in [Jobs -> States] BY DEF Decode, TypeOK, States
<1>3. blocks' \in Seq(Jobs)
  <2>1. blocks \in Seq(Jobs) BY DEF TypeOK
  <2>2. Append(blocks, j) \in Seq(Jobs) BY <2>1
  <2> QED BY <2>1, <2>2 DEF Decode
<1>4. TypeOK' BY <1>1, <1>2, <1>3 DEF TypeOK
<1>5. RoundsBounded' /\ BrokenStayOut' /\ WriterCounts'
  BY <1>1 DEF RoundsBounded, BrokenStayOut, WriterCounts
<1> QED BY <1>4, <1>5

\* The writer writes the piece its counter names.
LEMMA WritesNext ==
  ASSUME DInv, Writes(next), next \in Jobs, writer' = writer, main' = main, writer = "run"
  PROVE  /\ next' \in 0 .. Pieces /\ written' \in Seq(Jobs)
         /\ WriterCounts'
<1> USE DownloadConstants
<1>1. /\ next \in Int /\ 0 <= next /\ next < Pieces /\ next' = next + 1
      /\ written \in Seq(Jobs) /\ written' = Append(written, next)
      /\ next = Len(written) /\ \A k \in DOMAIN written : written[k] = k - 1
      /\ main # "completed"
  BY DEF DInv, TypeOK, Writes, Jobs, WriterCounts
<1>2. written' \in Seq(Jobs) BY <1>1
<1>3. Len(written') = next' BY <1>1
<1>4. ASSUME NEW k \in DOMAIN written' PROVE written'[k] = k - 1
  <2>1. k \in 1 .. Len(written) + 1 BY <1>1
  <2>2. CASE k \in 1 .. Len(written) BY <2>2, <1>1
  <2>3. CASE k = Len(written) + 1 BY <2>3, <1>1
  <2> QED BY <1>1, <2>1, <2>2, <2>3
<1> QED BY <1>1, <1>2, <1>3, <1>4 DEF WriterCounts

LEMMA WriterStep ==
  ASSUME DInv, WriteBuffered \/ TakeBlock \/ WriteFails \/ WriterDone
  PROVE  DInv'
<1> USE DEF DInv
<1>1. CASE WriteBuffered
  <2>1. UNCHANGED <<downloadMask, skip, pieceVars, blocks, closed, writer, main, canceled, fails,
                    broken>> /\ writer = "run" /\ Writes(next) /\ next \in Jobs
    BY <1>1 DEF WriteBuffered, TypeOK
  <2>2. next' \in 0 .. Pieces /\ written' \in Seq(Jobs) /\ WriterCounts' BY <2>1, WritesNext
  <2>3. buffer' \in SUBSET Jobs BY <1>1 DEF WriteBuffered, TypeOK
  <2>4. TypeOK' BY <2>1, <2>2, <2>3 DEF TypeOK, pieceVars
  <2>5. RoundsBounded' /\ BrokenStayOut' BY <2>1 DEF RoundsBounded, BrokenStayOut, pieceVars
  <2> QED BY <2>2, <2>4, <2>5
<1>2. CASE TakeBlock
  <2>1. UNCHANGED <<downloadMask, skip, pieceVars, closed, writer, main, canceled, fails, broken>>
        /\ writer = "run" /\ blocks # <<>> /\ blocks' = Tail(blocks)
    BY <1>2 DEF TakeBlock
  <2>2. blocks \in Seq(Jobs) /\ Head(blocks) \in Jobs /\ blocks' \in Seq(Jobs)
    BY <2>1 DEF TypeOK
  <2>3. /\ next' \in 0 .. Pieces /\ written' \in Seq(Jobs) /\ WriterCounts'
        /\ buffer' \in SUBSET Jobs
    <3>1. CASE Head(blocks) = next
      <4>1. Writes(next) /\ buffer' = buffer BY <1>2, <3>1 DEF TakeBlock
      <4> QED BY <3>1, <4>1, <2>1, <2>2, WritesNext DEF TypeOK
    <3>2. CASE Head(blocks) # next
      <4>1. UNCHANGED <<written, next>> /\ buffer' = buffer \cup {Head(blocks)}
        BY <1>2, <3>2 DEF TakeBlock
      <4> QED BY <4>1, <2>1, <2>2 DEF TypeOK, WriterCounts
    <3> QED BY <3>1, <3>2
  <2>4. TypeOK' BY <2>1, <2>2, <2>3 DEF TypeOK, pieceVars
  <2>5. RoundsBounded' /\ BrokenStayOut' BY <2>1 DEF RoundsBounded, BrokenStayOut, pieceVars
  <2> QED BY <2>3, <2>4, <2>5
<1>3. CASE WriteFails
  <2>1. UNCHANGED <<downloadMask, skip, pieceVars, blocks, closed, next, buffer, written, main,
                    canceled, broken>> /\ writer = "run" /\ writer' = "failed"
    BY <1>3 DEF WriteFails
  <2>2. fails' \in 0 .. MaxFail BY <1>3, DownloadConstants DEF WriteFails, TypeOK
  <2>3. TypeOK' BY <2>1, <2>2 DEF TypeOK, pieceVars
  <2>4. RoundsBounded' /\ BrokenStayOut' BY <2>1 DEF RoundsBounded, BrokenStayOut, pieceVars
  <2>5. WriterCounts' BY <2>1 DEF WriterCounts
  <2> QED BY <2>3, <2>4, <2>5
<1>4. CASE WriterDone
  <2>1. UNCHANGED <<downloadMask, skip, pieceVars, blocks, closed, next, buffer, written, main,
                    canceled, fails, broken>> /\ next = Pieces /\ writer' = "done"
    BY <1>4 DEF WriterDone
  <2>2. TypeOK' BY <2>1 DEF TypeOK, pieceVars
  <2>3. RoundsBounded' /\ BrokenStayOut' BY <2>1 DEF RoundsBounded, BrokenStayOut, pieceVars
  <2>4. WriterCounts' BY <2>1 DEF WriterCounts
  <2> QED BY <2>2, <2>3, <2>4
<1> QED BY <1>1, <1>2, <1>3, <1>4

\* processDownload itself, and CancelDownload.
LEMMA MainStep ==
  ASSUME DInv, DownloadFails \/ CloseBlocks \/ Completed \/ CancelDownload
  PROVE  DInv'
<1> USE DEF DInv
<1>1. UNCHANGED <<downloadMask, skip, pieceVars, blocks, writer, next, buffer, written, fails, broken>>
  BY DEF DownloadFails, CloseBlocks, Completed, CancelDownload, writerVars
<1>2. /\ main' \in {"run", "closed", "completed", "error"}
      /\ main' = "completed" => writer = "done"
      /\ closed' \in BOOLEAN /\ canceled' \in BOOLEAN
  BY DEF DownloadFails, CloseBlocks, Completed, CancelDownload, writerVars, TypeOK, WriterCounts
<1>3. TypeOK' BY <1>1, <1>2 DEF TypeOK, pieceVars
<1>4. RoundsBounded' /\ BrokenStayOut' BY <1>1 DEF RoundsBounded, BrokenStayOut, pieceVars
<1>5. WriterCounts' BY <1>1, <1>2 DEF WriterCounts
<1> QED BY <1>3, <1>4, <1>5

LEMMA DStep == DInv /\ [Next]_vars => DInv'
<1> SUFFICES ASSUME DInv, [Next]_vars PROVE DInv' OBVIOUS
<1>1. ASSUME NEW j \in Jobs, Fetch(j) PROVE DInv'
  BY <1>1, RoundStep, DecodeStep, ResultStep DEF Fetch
<1>2. ASSUME NEW j \in Jobs, NEW b \in Indices, BlockFails(j, b) PROVE DInv'
  BY <1>2, ResultStep
<1>3. CASE WriteBuffered \/ TakeBlock \/ WriteFails \/ WriterDone BY <1>3, WriterStep
<1>4. CASE DownloadFails \/ CloseBlocks \/ Completed \/ CancelDownload BY <1>4, MainStep
<1>5. CASE UNCHANGED vars
  BY <1>5 DEF vars, DInv, TypeOK, RoundsBounded, BrokenStayOut, WriterCounts
<1> QED BY <1>1, <1>2, <1>3, <1>4, <1>5 DEF Next

LEMMA DownloadInvariant == Spec => []DInv
BY DInit, DStep, PTL DEF Spec

-----------------------------------------------------------------------------
\* Type correctness: a round never awaits fewer results than none, nor counts more
\* failures than it asked blobbers.
THEOREM TypeCorrect == Spec => []TypeOK
<1>1. DInv => TypeOK BY DEF DInv
<1> QED BY <1>1, DownloadInvariant, PTL

\* Whatever order the pieces arrive in, the file holds 0, 1, 2, ... and all of them when
\* Completed is called.
THEOREM FileInOrder == Spec => []WrittenInOrder
<1>1. DInv => WrittenInOrder BY DEF DInv, WriterCounts, WrittenInOrder
<1> QED BY <1>1, DownloadInvariant, PTL

\* A blobber that failed for a piece is not asked again, by any goroutine.
THEOREM NotAskedAgain == Spec => FailedNotAskedAgain
<1>1. ASSUME DInv, [Next]_vars, NEW j \in Jobs, st[j] = "start", st'[j] = "wait"
      PROVE  pending'[j] \cap broken = {}
  <2>1. AskBlobbers(j)
    <3> USE <1>1 DEF DInv, TypeOK
    <3>1. ASSUME NEW i \in Jobs, Fetch(i) PROVE AskBlobbers(j)
      <4>1. CASE AskBlobbers(i)
        <5>1. i # j => st'[j] = st[j] BY <4>1 DEF AskBlobbers
        <5> QED BY <4>1, <5>1
      <4>2. CASE Begin(i) BY <4>2 DEF Begin
      <4>3. CASE Insufficient(i) BY <4>3 DEF Insufficient
      <4>4. CASE NextRound(i) BY <4>4 DEF NextRound
      <4>5. CASE RoundsOver(i) BY <4>5 DEF RoundsOver
      <4>6. CASE Decode(i) BY <4>6 DEF Decode
      <4>7. ASSUME NEW b \in Indices, BlockOK(i, b) PROVE FALSE
        BY <4>7 DEF BlockOK, Received
      <4> QED BY <3>1, <4>1, <4>2, <4>3, <4>4, <4>5, <4>6, <4>7 DEF Fetch
    <3>2. ASSUME NEW i \in Jobs, NEW b \in Indices, BlockFails(i, b) PROVE FALSE
      BY <3>2 DEF BlockFails, Received
    <3>3. ~(WriteBuffered \/ TakeBlock \/ WriteFails \/ WriterDone)
      BY DEF WriteBuffered, TakeBlock, WriteFails, WriterDone, pieceVars
    <3>4. ~(DownloadFails \/ CloseBlocks \/ Completed \/ CancelDownload)
      BY DEF DownloadFails, CloseBlocks, Completed, CancelDownload, pieceVars
    <3>5. ~UNCHANGED vars BY DEF vars
    <3> QED BY <3>1, <3>2, <3>3, <3>4, <3>5 DEF Next
  <2>2. pending'[j] = Asked(j) BY <1>1, <2>1 DEF AskBlobbers, DInv, TypeOK
  <2>3. Asked(j) \subseteq downloadMask BY <1>1, AskedSize
  <2> QED BY <1>1, <2>2, <2>3 DEF DInv, BrokenStayOut
<1>2. DInv /\ [Next]_vars =>
        [\A j \in Jobs : st[j] = "start" /\ st'[j] = "wait" => pending'[j] \cap broken = {}]_vars
  BY <1>1
<1> QED BY <1>2, DownloadInvariant, PTL DEF Spec, FailedNotAskedAgain

-----------------------------------------------------------------------------
(* Listing                                                                  *)

Errs == {"none", "network", "invalid_path", "unlooked"}
Replies == [err : Errs, kids : SUBSET (Names \X Nat)]
Views == [Blobbers -> [Names -> Nat]]

\* The part of the types the argument needs.
Types ==
  /\ view \in Views /\ before \in Views /\ write \in Nat /\ child \in Names
  /\ phase \in {"idle", "commit", "undo"} /\ done \in SUBSET Blobbers
  /\ stamp \in [Blobbers -> Nat]
  /\ op \in Kinds \cup {"none"} /\ arrived \in SUBSET Blobbers
  /\ reply \in [Blobbers -> Replies]

\* The write at hand, or the last one.
Current == <<child, write>>
Old(n, v) == <<n, v>> \in acked /\ v <= write

\* What a blobber has was acknowledged, or is the current write and not undone yet; what it
\* would be put back to was acknowledged.
Kept(b, n) ==
  \/ view[b][n] = 0 \/ Old(n, view[b][n])
  \/ /\ <<n, view[b][n]>> = Current /\ b \in done
     /\ phase = "commit" \/ (phase = "undo" /\ b \in todo)
HeldIsKept == \A b \in Blobbers, n \in Names : Kept(b, n)
BeforeIsKept == \A b \in Blobbers, n \in Names : before[b][n] = 0 \/ Old(n, before[b][n])
\* No blobber commits a write twice, and a write that ended without its consensus is not
\* acknowledged.
DoneOnce ==
  /\ phase = "commit" => \A b \in done : stamp[b] = write
  /\ phase # "commit" /\ Current \notin acked => Cardinality(done) < consensusThreshold
\* Of a version that was not acknowledged the request has answers only from the blobbers
\* that committed it, and too few when its write has ended.
AnswersAreFew ==
  \A c \in Names \X Nat : c \notin acked =>
    /\ c = Current => Voters(Blobbers, c) \subseteq done
    /\ c # Current => Cardinality(Voters(Blobbers, c)) < consensusThreshold
AnswersAreOld == \A b \in Blobbers : \A c \in reply[b].kids : c[2] <= write

Clean == HeldIsKept /\ BeforeIsKept /\ DoneOnce /\ AnswersAreFew /\ AnswersAreOld
LInv == Types /\ (~loose => Clean)

-----------------------------------------------------------------------------

LEMMA Shards ==
  /\ DataShards \in Nat /\ DataShards > 0 /\ IsFiniteSet(Blobbers)
  /\ consensusThreshold \in Nat /\ consensusThreshold > 0
  /\ \A o : Thresh(o) \in Nat
BY ListingConstants DEF Thresh, consensusThreshold

LEMMA SubsetCounts ==
  ASSUME NEW S \in SUBSET Blobbers, NEW T \in SUBSET S
  PROVE  /\ IsFiniteSet(S) /\ Cardinality(S) \in Nat
         /\ IsFiniteSet(T) /\ Cardinality(T) \in Nat /\ Cardinality(T) <= Cardinality(S)
BY Shards, FS_Subset, FS_CardinalityType

-----------------------------------------------------------------------------

\* What a request returns is voted for by the threshold of blobbers.
LEMMA ResultsAreVoted ==
  ASSUME Types, NEW o \in Kinds, o # "repair", NEW r \in Results(o), NEW c \in r.kids
  PROVE  c \in Names \X Nat /\ Cardinality(Voters(Blobbers, c)) >= Thresh(o)
<1> DEFINE Voted(d) == d \in Names \X Nat /\ Cardinality(Voters(Blobbers, d)) >= Thresh(o)
<1>k. \A b \in Blobbers : reply[b].kids \in SUBSET (Names \X Nat)
  BY DEF Types, Replies
<1>a. arrived \in SUBSET Blobbers BY DEF Types
<1>m. ASSUME NEW d, NEW B \in SUBSET Blobbers, d \in populateChildren(B, o) PROVE Voted(d)
  <2>0. Cardinality(Voters(B, d)) >= Thresh(o) /\ d \in Candidates(B)
    BY <1>m DEF populateChildren
  <2>1. Voters(Blobbers, d) \in SUBSET Blobbers /\ Voters(B, d) \in SUBSET Voters(Blobbers, d)
    BY DEF Voters
  <2>2. /\ Cardinality(Voters(B, d)) \in Nat /\ Cardinality(Voters(Blobbers, d)) \in Nat
        /\ Cardinality(Voters(B, d)) <= Cardinality(Voters(Blobbers, d))
    BY <2>1, SubsetCounts
  <2>3. d \in Names \X Nat BY <2>0, <1>k DEF Candidates
  <2> QED BY <2>0, <2>2, <2>3, Shards
<1>f. \A x, S : Returns(x, S).kids = S /\ Fails(x).kids = {}
  BY DEF Returns, Fails
<1>p. ASSUME NEW q \in OfPages(o), NEW d \in q.kids PROVE Voted(d)
  <2>1. PICK p \in Pages(o) : q.kids = p
    BY <1>p, <1>f DEF OfPages
  <2>2. Agreeing(p) \subseteq Voters(Blobbers, d)
    BY <1>a, <2>1, <1>p DEF Agreeing, Good, Voters
  <2>3. Cardinality(Agreeing(p)) >= Thresh(o)
    BY <2>1 DEF Pages
  <2>4. d \in Names \X Nat
    BY <1>a, <1>k, <2>1, <1>p DEF Pages, Good
  <2>5. Cardinality(Voters(Blobbers, d)) >= Thresh(o)
    <3>1. Voters(Blobbers, d) \in SUBSET Blobbers BY DEF Voters
    <3> QED BY <2>2, <2>3, <3>1, SubsetCounts, Shards
  <2> QED BY <2>4, <2>5
<1>1. CASE o \in {"list", "ticket"}
  <2>1. r = GetListFromBlobbers(o)
    BY <1>1 DEF Results
  <2>2. c \in populateChildren(Counted, o)
    BY <1>1, <2>1, <1>f DEF GetListFromBlobbers
  <2>3. Counted \in SUBSET Blobbers
    BY <1>a DEF Counted
  <2> QED BY <2>2, <2>3, <1>m
<1>2. CASE o = "refs"
  <2>1. r \in OfPages(o)
    BY <1>2, <1>f DEF Results, GetRefs
  <2> QED BY <2>1, <1>p
<1>3. CASE o = "recent"
  <2>1. r \in OfPages(o)
    BY <1>3 DEF Results
  <2> QED BY <2>1, <1>p
<1>4. CASE o = "meta"
  <2>1. PICK n \in Names : r \in getFileConsensus(o, n)
    BY <1>4 DEF Results
  <2> DEFINE selected == {d \in populateChildren(arrived, o) : d[1] = n}
  <2>2. r \in (IF selected = {} THEN {Fails(o)} ELSE {Returns(o, {d}) : d \in selected})
    BY <2>1 DEF getFileConsensus
  <2>3. c \in selected
    <3> HIDE DEF selected
    <3>1. CASE selected = {} BY <2>2, <3>1, <1>f
    <3>2. CASE selected # {}
      <4>1. PICK d \in selected : r = Returns(o, {d}) BY <2>2, <3>2
      <4> QED BY <4>1, <1>f
    <3> QED BY <3>1, <3>2
  <2>4. c \in populateChildren(arrived, o) BY <2>3
  <2> QED BY <2>4, <1>a, <1>m
<1> QED BY <1>1, <1>2, <1>3, <1>4 DEF Kinds

-----------------------------------------------------------------------------

LEMMA LInit == ListingInit => LInv
<1> SUFFICES ASSUME ListingInit PROVE LInv OBVIOUS
<1>1. Types
  BY DEF ListingInit, Types, Views, NoView, Replies, Errs, Silent
<1>2. \A c : Voters(Blobbers, c) = {}
  BY DEF ListingInit, Voters, Silent
<1>3. Cardinality({}) < consensusThreshold BY FS_EmptySet, Shards
<1>4. Clean
  BY <1>2, <1>3 DEF ListingInit, NoView, Silent, Clean, HeldIsKept, Kept, BeforeIsKept,
     DoneOnce, AnswersAreFew, AnswersAreOld
<1> QED BY <1>1, <1>4 DEF LInv

\* An answer is what the blobber has.
LEMMA KidsOfView ==
  ASSUME Types, NEW b \in Blobbers, NEW c \in Kids(b)
  PROVE  \E n \in Names : c = <<n, view[b][n]>> /\ view[b][n] \in Nat \ {0}
BY DEF Types, Views, Kids

-----------------------------------------------------------------------------
(* Listing: the steps                                                       *)

\* A writer that begins: the write before it ended with its consensus or with answers of
\* too few blobbers.
LEMMA BeginStep ==
  ASSUME LInv, Begins, Types', ~loose, UNCHANGED <<acked, reply>>,
         \A b \in Blobbers, n \in Names : view'[b][n] = 0 \/ Old(n, view'[b][n]),
         \A b \in Blobbers, n \in Names : before'[b][n] = 0 \/ Old(n, before'[b][n])
  PROVE  Clean'
<1> USE DEF LInv
<1>w. write \in Nat /\ write' = write + 1 /\ done' = {} BY DEF Begins, Types
<1>v. \A c : Voters(Blobbers, c)' = Voters(Blobbers, c) BY DEF Voters
<1>0. Cardinality({}) < consensusThreshold BY FS_EmptySet, Shards
<1>t. \A b \in Blobbers, n \in Names : view'[b][n] \in Nat /\ before'[b][n] \in Nat
  BY DEF Types, Views
<1>o. \A n, v : <<n, v>> \in acked' /\ v <= write' => Old(n, v)' BY DEF Old
<1>1. HeldIsKept'
  <2>1. ASSUME NEW b \in Blobbers, NEW n \in Names
        PROVE  \/ view'[b][n] = 0
               \/ <<n, view'[b][n]>> \in acked' /\ view'[b][n] <= write'
    BY <1>w, <1>t DEF Old
  <2>2. ASSUME NEW b \in Blobbers, NEW n \in Names PROVE Kept(b, n)'
    BY <2>1, <1>o DEF Kept
  <2> QED BY <2>2 DEF HeldIsKept
<1>2. BeforeIsKept'
  <2>1. ASSUME NEW b \in Blobbers, NEW n \in Names
        PROVE  \/ before'[b][n] = 0
               \/ <<n, before'[b][n]>> \in acked' /\ before'[b][n] <= write'
    BY <1>w, <1>t DEF Old
  <2> QED BY <2>1, <1>o DEF BeforeIsKept
<1>3. DoneOnce' BY <1>w, <1>0 DEF DoneOnce
<1>4. AnswersAreOld'
  <2>1. \A b \in Blobbers : \A c \in reply[b].kids : c[2] \in Nat
    BY DEF Types, Replies
  <2> QED BY <1>w, <2>1 DEF Clean, AnswersAreOld
<1>5. AnswersAreFew'
  <2> SUFFICES ASSUME NEW c \in Names \X Nat, c \notin acked
               PROVE  /\ c = Current' => Voters(Blobbers, c) = {}
                      /\ Cardinality(Voters(Blobbers, c)) < consensusThreshold
    BY <1>v DEF AnswersAreFew
  <2>1. c = Current' => Voters(Blobbers, c) = {}
    BY <1>w DEF Clean, AnswersAreOld, Current, Voters
  <2>2. CASE c = Current
    <3>1. Voters(Blobbers, c) \in SUBSET done /\ Cardinality(done) < consensusThreshold
      BY <2>2 DEF Clean, AnswersAreFew, DoneOnce, Begins
    <3>2. done \in SUBSET Blobbers BY DEF Types
    <3> QED BY <2>1, <3>1, <3>2, SubsetCounts, Shards
  <2>3. CASE c # Current
    BY <2>1, <2>3 DEF Clean, AnswersAreFew
  <2> QED BY <2>1, <2>2, <2>3
<1> QED BY <1>1, <1>2, <1>3, <1>4, <1>5 DEF Clean

\* Between two writes every blobber has only what was acknowledged.
LEMMA IdleIsOld ==
  ASSUME LInv, ~loose, phase = "idle", NEW b \in Blobbers, NEW n \in Names
  PROVE  /\ view[b][n] = 0 \/ Old(n, view[b][n])
         /\ before[b][n] = 0 \/ Old(n, before[b][n])
BY DEF LInv, Clean, HeldIsKept, Kept, BeforeIsKept

LEMMA WriteStep ==
  ASSUME LInv, NEW S \in SUBSET Blobbers, NEW n \in Names, Write(S, n) PROVE LInv'
<1>1. Types' BY DEF LInv, Types, Write, Begins, requestVars
<1>2. ASSUME ~loose' PROVE Clean'
  <2>1. ~loose /\ Begins /\ UNCHANGED <<acked, reply, view, before>>
    BY <1>2 DEF Write, Read, requestVars
  <2> QED BY <1>1, <2>1, BeginStep, IdleIsOld DEF Begins
<1> QED BY <1>1, <1>2 DEF LInv

LEMMA RollBackStep ==
  ASSUME LInv, NEW S \in SUBSET Blobbers, CheckRollsBack(S) PROVE LInv'
<1>1. PICK R \in SUBSET Blobbers : RolledBack(R)
  BY DEF CheckRollsBack, VersionMap, Marked
<1>2. \A b \in Blobbers : view'[b] \in {view[b], before[b]} BY <1>1 DEF RolledBack
<1>3. Types'
  <2>1. view' \in Views BY <1>1 DEF RolledBack, LInv, Types, Views
  <2> QED BY <2>1 DEF LInv, Types, CheckRollsBack, Begins, requestVars
<1>4. ASSUME ~loose' PROVE Clean'
  <2>1. ~loose /\ Begins /\ UNCHANGED <<acked, reply, before>>
    BY <1>4 DEF CheckRollsBack, Read, requestVars
  <2>2. ASSUME NEW b \in Blobbers, NEW n \in Names
        PROVE  /\ view'[b][n] = 0 \/ Old(n, view'[b][n])
               /\ before'[b][n] = 0 \/ Old(n, before'[b][n])
    BY <2>1, <1>2, IdleIsOld DEF Begins
  <2> QED BY <1>3, <2>1, <2>2, BeginStep
<1> QED BY <1>3, <1>4 DEF LInv

LEMMA RepairStep ==
  ASSUME LInv, NEW S \in SUBSET Blobbers, CheckRepairs(S) PROVE LInv'
<1>1. PICK M \in SUBSET Names, to \in [Names -> 0 .. MaxWrites] :
        /\ \A n \in M : Repaired(n, to[n])
        /\ view' = [b \in Blobbers |-> [n \in Names |-> IF n \in M THEN to[n] ELSE view[b][n]]]
        /\ before' = [b \in Blobbers |-> IF view'[b] = view[b] THEN before[b] ELSE view[b]]
  BY DEF CheckRepairs
<1>2. \A n \in Names : to[n] \in Nat BY ListingConstants
<1>3. Types'
  <2>1. view' \in Views BY <1>1, <1>2 DEF LInv, Types, Views
  <2>2. before' \in Views BY <1>1 DEF LInv, Types, Views
  <2> QED BY <2>1, <2>2 DEF LInv, Types, CheckRepairs, Begins, requestVars
<1>4. ASSUME ~loose' PROVE Clean'
  <2>1. ~loose /\ Begins /\ UNCHANGED <<acked, reply>>
    BY <1>4 DEF CheckRepairs, Read, requestVars
  <2>2. ASSUME NEW n \in M, to[n] # 0 PROVE Old(n, to[n])
    <3>1. Cardinality(Holders(<<n, to[n]>>)) >= DataShards
      BY <1>1, <2>2 DEF Repaired
    <3>2. Holders(<<n, to[n]>>) # {} BY <3>1, FS_EmptySet, Shards
    <3>3. PICK b \in Blobbers : <<n, to[n]>> \in Kids(b) BY <3>2 DEF Holders
    <3>4. view[b][n] = to[n] BY <3>3, KidsOfView DEF LInv
    <3> QED BY <2>1, <2>2, <3>4, IdleIsOld DEF Begins
  <2>3. ASSUME NEW b \in Blobbers, NEW n \in Names
        PROVE  /\ view'[b][n] = 0 \/ Old(n, view'[b][n])
               /\ before'[b][n] = 0 \/ Old(n, before'[b][n])
    <3>1. view'[b][n] = (IF n \in M THEN to[n] ELSE view[b][n]) /\ before'[b] \in {before[b], view[b]}
      BY <1>1
    <3> QED BY <3>1, <2>1, <2>2, IdleIsOld DEF Begins
  <2> QED BY <1>3, <2>1, <2>3, BeginStep
<1> QED BY <1>3, <1>4 DEF LInv

LEMMA CommitStep ==
  ASSUME LInv, NEW b \in Blobbers, Commit(b) \/ CommitUnheard(b) PROVE LInv'
<1> USE DEF LInv
<1>0. /\ view' = [view EXCEPT ![b] = [view[b] EXCEPT ![child] = write]]
      /\ before' = [before EXCEPT ![b] = view[b]]
      /\ stamp' = [stamp EXCEPT ![b] = write]
      /\ phase = "commit" /\ stamp[b] # write
      /\ UNCHANGED <<phase, write, child, todo, acked, op, arrived, reply>>
  BY DEF Commit, CommitUnheard, Applied, requestVars
<1>1. Types'
  <2>1. view' \in Views /\ before' \in Views BY <1>0 DEF Types, Views
  <2>2. done' \in SUBSET Blobbers BY DEF Types, Commit, CommitUnheard
  <2> QED BY <1>0, <2>1, <2>2 DEF Types
<1>2. ASSUME ~loose' PROVE Clean'
  <2>1. ~loose /\ done' = done \cup {b} BY <1>2 DEF Commit, CommitUnheard
  <2>2. Clean BY <2>1
  <2>n. b \notin done BY <2>2, <1>0 DEF Clean, DoneOnce
  <2>3. HeldIsKept'
    <3> SUFFICES ASSUME NEW e \in Blobbers, NEW n \in Names PROVE Kept(e, n)'
      BY DEF HeldIsKept
    <3>1. Kept(e, n) BY <2>2 DEF Clean, HeldIsKept
    <3>2. CASE e = b /\ n = child
      <4>1. view'[e][n] = write BY <1>0, <3>2 DEF Types, Views
      <4> QED BY <4>1, <3>2, <1>0, <2>1 DEF Kept, Current
    <3>3. CASE ~(e = b /\ n = child)
      <4>1. view'[e][n] = view[e][n] BY <1>0, <3>3 DEF Types, Views
      <4> QED BY <4>1, <3>1, <1>0, <2>1 DEF Kept, Current, Old
    <3> QED BY <3>2, <3>3
  <2>4. BeforeIsKept'
    <3> SUFFICES ASSUME NEW e \in Blobbers, NEW n \in Names
                 PROVE  before'[e][n] = 0 \/ Old(n, before'[e][n])
      BY <1>0 DEF BeforeIsKept, Old
    <3>1. CASE e = b
      <4>1. before'[e] = view[b] BY <1>0, <3>1 DEF Types, Views
      <4>2. Kept(b, n) BY <2>2 DEF Clean, HeldIsKept
      <4> QED BY <4>1, <4>2, <2>n DEF Kept
    <3>2. CASE e # b
      <4>1. before'[e] = before[e] BY <1>0, <3>2 DEF Types, Views
      <4> QED BY <4>1, <2>2 DEF Clean, BeforeIsKept
    <3> QED BY <3>1, <3>2
  <2>5. DoneOnce'
    <3>1. ASSUME NEW e \in done' PROVE stamp'[e] = write
      <4>1. CASE e = b /\ b \in DOMAIN stamp BY <4>1, <1>0
      <4>2. CASE e # b BY <4>2, <1>0, <2>1, <2>2 DEF Clean, DoneOnce
      <4>3. b \in DOMAIN stamp BY DEF Types
      <4> QED BY <4>1, <4>2, <4>3
    <3> QED BY <3>1, <1>0 DEF DoneOnce
  <2>6. \A c : Voters(Blobbers, c)' = Voters(Blobbers, c) BY <1>0 DEF Voters
  <2>7. AnswersAreFew' BY <2>6, <2>2, <2>1, <1>0 DEF Clean, AnswersAreFew, Current
  <2>8. AnswersAreOld' BY <2>2, <1>0 DEF Clean, AnswersAreOld
  <2> QED BY <2>3, <2>4, <2>5, <2>7, <2>8 DEF Clean
<1> QED BY <1>1, <1>2

LEMMA FinishStep == ASSUME LInv, Finish PROVE LInv'
<1> USE DEF LInv
<1>0. /\ phase = "commit" /\ UNCHANGED <<view, before, stamp, write, child, done, loose, op, arrived, reply>>
      /\ phase' \in {"idle", "undo"}
      /\ acked \subseteq acked' /\ acked' \subseteq acked \cup {Current}
  BY DEF Finish, requestVars, Current
<1>1. Types' BY <1>0 DEF Types
<1>2. ASSUME ~loose' PROVE Clean'
  <2>1. Clean BY <1>0, <1>2
  <2>w. Current' = Current /\ write \in Nat /\ Current[2] = write BY <1>0 DEF Current, Types
  <2>o. \A n, v : Old(n, v) => Old(n, v)' BY <1>0 DEF Old
  <2>f. /\ isConsensusOk => Current \in acked' /\ phase' = "idle"
        /\ ~isConsensusOk => phase' = "undo" /\ todo' = done
    BY DEF Finish, Current
  <2>2. HeldIsKept'
    <3> SUFFICES ASSUME NEW e \in Blobbers, NEW n \in Names PROVE Kept(e, n)'
      BY DEF HeldIsKept
    <3>1. Kept(e, n) /\ view'[e][n] = view[e][n] BY <2>1, <1>0 DEF Clean, HeldIsKept
    <3>2. CASE isConsensusOk BY <3>1, <3>2, <2>w, <2>o, <2>f, <1>0 DEF Kept, Old
    <3>3. CASE ~isConsensusOk BY <3>1, <3>3, <2>w, <2>o, <2>f, <1>0 DEF Kept
    <3> QED BY <3>2, <3>3
  <2>3. BeforeIsKept' BY <2>1, <2>o, <1>0 DEF Clean, BeforeIsKept
  <2>4. DoneOnce'
    <3>1. Cardinality(done) \in Nat BY SubsetCounts DEF Types
    <3> QED BY <1>0, <2>w, <2>f, <3>1, Shards DEF DoneOnce, isConsensusOk
  <2>5. \A c : Voters(Blobbers, c)' = Voters(Blobbers, c) BY <1>0 DEF Voters
  <2>6. AnswersAreFew' BY <2>1, <2>5, <2>w, <1>0 DEF Clean, AnswersAreFew
  <2>7. AnswersAreOld' BY <2>1, <1>0 DEF Clean, AnswersAreOld
  <2> QED BY <2>2, <2>3, <2>4, <2>6, <2>7 DEF Clean
<1> QED BY <1>1, <1>2

LEMMA UndoStep == ASSUME LInv, UndoEnds \/ \E b \in Blobbers : Undo(b) PROVE LInv'
<1> USE DEF LInv
<1>0. /\ phase = "undo" /\ phase' \in {"idle", "undo"}
      /\ UNCHANGED <<before, stamp, write, child, done, acked, op, arrived, reply>>
      /\ \A b \in Blobbers : view'[b] \in {view[b], before[b]}
      /\ view' \in Views
  <2>1. CASE UndoEnds BY <2>1 DEF UndoEnds, requestVars, Types
  <2>2. ASSUME NEW b \in Blobbers, Undo(b)
        PROVE  /\ phase = "undo" /\ phase' = "undo"
               /\ UNCHANGED <<before, stamp, write, child, done, acked, op, arrived, reply>>
               /\ \A e \in Blobbers : view'[e] \in {view[e], before[e]}
               /\ view' \in Views
    BY <2>2 DEF Undo, RolledBack, requestVars, Types, Views
  <2> QED BY <2>1, <2>2
<1>1. Types' BY <1>0 DEF Types
<1>2. ASSUME ~loose' PROVE Clean'
  <2>0. ~loose
    <3>1. CASE UndoEnds BY <1>2, <3>1, Zenon DEF UndoEnds
    <3>2. ASSUME NEW b \in Blobbers, Undo(b) PROVE ~loose BY <1>2, <3>2 DEF Undo
    <3> QED BY <3>1, <3>2
  <2>1. Clean BY <2>0
  <2>w. Current' = Current /\ (\A n, v : Old(n, v)' = Old(n, v)) BY <1>0 DEF Current, Old
  <2>2. HeldIsKept'
    <3> SUFFICES ASSUME NEW e \in Blobbers, NEW n \in Names PROVE Kept(e, n)'
      BY DEF HeldIsKept
    <3>1. Kept(e, n) /\ (before[e][n] = 0 \/ Old(n, before[e][n]))
      BY <2>1 DEF Clean, HeldIsKept, BeforeIsKept
    <3>2. CASE UndoEnds
      <4>1. todo = {} /\ view' = view BY <3>2, <1>2 DEF UndoEnds
      <4> QED BY <4>1, <3>1, <2>w, <1>0 DEF Kept
    <3>3. ASSUME NEW b \in Blobbers, Undo(b) PROVE Kept(e, n)'
      <4>1. /\ todo' = todo \ {b} /\ phase' = "undo"
            /\ view'[e] = (IF e = b THEN before[e] ELSE view[e])
        BY <3>3 DEF Undo, RolledBack
      <4> QED BY <4>1, <3>1, <2>w, <1>0 DEF Kept
    <3> QED BY <3>2, <3>3
  <2>3. BeforeIsKept' BY <2>1, <2>w, <1>0 DEF Clean, BeforeIsKept
  <2>4. DoneOnce' BY <2>1, <2>w, <1>0 DEF Clean, DoneOnce
  <2>5. \A c : Voters(Blobbers, c)' = Voters(Blobbers, c) BY <1>0 DEF Voters
  <2>6. AnswersAreFew' BY <2>1, <2>5, <2>w, <1>0 DEF Clean, AnswersAreFew
  <2>7. AnswersAreOld' BY <2>1, <1>0 DEF Clean, AnswersAreOld
  <2> QED BY <2>2, <2>3, <2>4, <2>6, <2>7 DEF Clean
<1> QED BY <1>1, <1>2

\* A step of the request leaves the writer's side alone.
LEMMA RequestKeeps ==
  ASSUME LInv, UNCHANGED commitVars, Types', ~loose => AnswersAreFew' /\ AnswersAreOld'
  PROVE  LInv'
<1>1. /\ HeldIsKept' = HeldIsKept /\ BeforeIsKept' = BeforeIsKept /\ DoneOnce' = DoneOnce
      /\ loose' = loose
  BY DEF commitVars, HeldIsKept, Kept, BeforeIsKept, DoneOnce, Current, Old
<1> QED BY <1>1 DEF LInv, Clean

LEMMA ArriveStep ==
  ASSUME LInv, NEW b \in Blobbers, Answer(b) \/ NoAnswer(b) PROVE LInv'
<1> USE DEF LInv
<1>1. PICK a \in Replies :
        /\ a.kids \subseteq Kids(b) /\ reply' = [reply EXCEPT ![b] = a]
        /\ arrived' = arrived \cup {b} /\ UNCHANGED <<commitVars, op>>
  <2>1. Kids(b) \in SUBSET (Names \X Nat) BY KidsOfView
  <2> DEFINE ans == [err |-> IF Kids(b) = {} THEN "invalid_path" ELSE "none", kids |-> Kids(b)]
  <2>2. /\ ans \in Replies /\ Silent \in Replies /\ Unlooked \in Replies
        /\ ans.kids = Kids(b) /\ Silent.kids = {} /\ Unlooked.kids = {}
    BY <2>1 DEF Replies, Errs, Silent, Unlooked
  <2> HIDE DEF ans
  <2>3. CASE Answer(b)
    <3>1. Arrives(b, ans) BY <2>3 DEF Answer, ans
    <3> QED BY <3>1, <2>2 DEF Arrives
  <2>4. CASE NoAnswer(b)
    <3>1. Arrives(b, Silent) BY <2>4 DEF NoAnswer
    <3> QED BY <3>1, <2>2 DEF Arrives
  <2> QED BY <2>3, <2>4
<1>2. Types' BY <1>1 DEF Types, commitVars
<1>3. /\ reply'[b].kids = a.kids
      /\ \A e \in Blobbers : e # b => reply'[e] = reply[e]
  BY <1>1 DEF Types
<1>4. ASSUME ~loose PROVE AnswersAreFew' /\ AnswersAreOld'
  <2>1. Clean BY <1>4
  <2>u. Current' = Current /\ write' = write /\ acked' = acked /\ done' = done
    BY <1>1 DEF commitVars, Current
  <2>2. ASSUME NEW c \in a.kids
        PROVE  c[2] <= write /\ (c \in acked \/ (c = Current /\ b \in done))
    <3>1. PICK n \in Names : c = <<n, view[b][n]>> /\ view[b][n] \in Nat \ {0}
      BY <1>1, KidsOfView
    <3>2. Kept(b, n) BY <2>1 DEF Clean, HeldIsKept
    <3> QED BY <3>1, <3>2 DEF Kept, Old, Current, Types
  <2>3. AnswersAreOld' BY <1>3, <2>1, <2>2, <2>u DEF Clean, AnswersAreOld
  <2>4. ASSUME NEW c \in Names \X Nat, c \notin acked
        PROVE  /\ c = Current => Voters(Blobbers, c)' \subseteq done
               /\ c # Current => Cardinality(Voters(Blobbers, c)') < consensusThreshold
    <3>1. CASE c = Current
      <4>1. Voters(Blobbers, c) \subseteq done BY <2>1, <2>4, <3>1 DEF Clean, AnswersAreFew
      <4>2. Voters(Blobbers, c)' \subseteq done BY <4>1, <2>2, <2>4, <1>3 DEF Voters
      <4> QED BY <4>2, <3>1
    <3>2. CASE c # Current
      <4>1. Cardinality(Voters(Blobbers, c)) < consensusThreshold
        BY <2>1, <2>4, <3>2 DEF Clean, AnswersAreFew
      <4>2. Voters(Blobbers, c)' \in SUBSET Voters(Blobbers, c) /\ Voters(Blobbers, c) \in SUBSET Blobbers
        BY <2>2, <2>4, <3>2, <1>3 DEF Voters
      <4> QED BY <4>1, <4>2, <3>2, SubsetCounts, Shards
    <3> QED BY <3>1, <3>2
  <2>5. AnswersAreFew' BY <2>4, <2>u DEF AnswersAreFew
  <2> QED BY <2>3, <2>5
<1> QED BY <1>1, <1>2, <1>4, RequestKeeps

LEMMA StartReturnStep ==
  ASSUME LInv, Return \/ \E o \in Requests : Start(o) PROVE LInv'
<1> USE DEF LInv
<1>1. CASE Return
  <2>1. /\ UNCHANGED commitVars /\ op' = "none" /\ arrived' = {}
        /\ reply' = [b \in Blobbers |-> Silent] /\ Silent.kids = {} /\ Silent \in Replies
    BY <1>1 DEF Return, Silent, Replies, Errs
  <2>2. Types' BY <2>1 DEF Types, commitVars
  <2>3. \A c : Voters(Blobbers, c)' = {} BY <2>1 DEF Voters
  <2>4. AnswersAreFew' /\ AnswersAreOld'
    BY <2>1, <2>3, FS_EmptySet, Shards DEF AnswersAreFew, AnswersAreOld
  <2> QED BY <2>1, <2>2, <2>4, RequestKeeps
<1>2. ASSUME NEW o \in Requests, Start(o) PROVE LInv'
  <2>1. UNCHANGED <<commitVars, arrived, reply>> /\ op' = o /\ o \in Kinds
    BY <1>2, ListingConstants DEF Start
  <2>2. Types' BY <2>1 DEF Types, commitVars
  <2>3. AnswersAreFew' = AnswersAreFew /\ AnswersAreOld' = AnswersAreOld
    BY <2>1 DEF AnswersAreFew, AnswersAreOld, Voters, Current, commitVars
  <2> QED BY <2>1, <2>2, <2>3, RequestKeeps DEF Clean
<1> QED BY <1>1, <1>2

LEMMA LStep == LInv /\ [ListingNext]_listingVars => LInv'
<1> SUFFICES ASSUME LInv, [ListingNext]_listingVars PROVE LInv' OBVIOUS
<1>1. CASE UNCHANGED listingVars
  <2>1. Types' = Types /\ Clean' = Clean /\ loose' = loose
    BY <1>1 DEF listingVars, Types, Clean, HeldIsKept, Kept, BeforeIsKept, DoneOnce, AnswersAreFew,
       AnswersAreOld, Voters, Current, Old
  <2> QED BY <2>1 DEF LInv
<1>2. CASE ListingNext
  BY <1>2, WriteStep, RollBackStep, RepairStep, CommitStep, FinishStep, UndoStep, ArriveStep,
     StartReturnStep DEF ListingNext
<1> QED BY <1>1, <1>2

\* For every number of shards, blobbers, children and writes, a page of refs, the meta data
\* of a file, the recently added refs and a list by auth ticket show only what is or will
\* be acknowledged, never what the writer rolls back, whatever answers arrive first and
\* however far commits, rollbacks and repairs are, as long as every commit is heard, every
\* rollback succeeds and every marker is read.
THEOREM ReadsAreKept == ListingSpec => []NoDirtyReads
<1>1. LInv => NoDirtyReads
  <2> SUFFICES ASSUME LInv, Answered, op \notin {"list", "repair"}, ~loose,
                      NEW r \in Results(op), NEW c \in r.kids
               PROVE  c \in acked \/ (c = Current /\ isConsensusOk)
    BY DEF NoDirtyReads, Current
  <2>1. op \in Kinds BY DEF Answered, LInv, Types
  <2>2. c \in Names \X Nat /\ Cardinality(Voters(Blobbers, c)) >= consensusThreshold
    BY <2>1, ResultsAreVoted DEF LInv, Thresh
  <2>3. Voters(Blobbers, c) \in SUBSET Blobbers /\ done \in SUBSET Blobbers
    BY DEF Voters, LInv, Types
  <2>4. c \notin acked =>
          /\ c = Current => Voters(Blobbers, c) \subseteq done
          /\ c # Current => Cardinality(Voters(Blobbers, c)) < consensusThreshold
    BY <2>2 DEF LInv, Clean, AnswersAreFew
  <2>5. CASE c \notin acked
    <3>1. Cardinality(Voters(Blobbers, c)) \in Nat BY <2>3, SubsetCounts
    <3>2. c = Current /\ Voters(Blobbers, c) \in SUBSET done
      BY <2>2, <2>4, <2>5, <3>1, Shards
    <3> QED BY <2>2, <2>3, <3>1, <3>2, SubsetCounts, Shards DEF isConsensusOk
  <2> QED BY <2>5
<1> QED BY <1>1, LInit, LStep, PTL DEF ListingSpec

-----------------------------------------------------------------------------
(* Sync: prefixes                                                           *)

\* Paths are sequences of names.
NameSeqs == Seq(Nat)

LEMMA PrefixMeaning ==
  ASSUME NEW a \in NameSeqs, NEW b \in NameSeqs
  PROVE  IsPrefix(a, b) <=> Len(a) <= Len(b) /\ \A i \in 1 .. Len(a) : a[i] = b[i]
<1>1. Len(a) \in Nat /\ Len(b) \in Nat BY DEF NameSeqs
<1>2. SubSeq(a, 1, Len(a)) = [i \in 1 .. Len(a) |-> a[i]] BY <1>1 DEF NameSeqs
<1>3. ASSUME Len(a) <= Len(b)
      PROVE  SubSeq(b, 1, Len(a)) = [i \in 1 .. Len(a) |-> b[i]]
  BY <1>1, <1>3 DEF NameSeqs
<1>4. ASSUME Len(a) <= Len(b)
      PROVE  SubSeq(a, 1, Len(a)) = SubSeq(b, 1, Len(a)) <=> \A i \in 1 .. Len(a) : a[i] = b[i]
  BY <1>2, <1>3, <1>4, Zenon
<1> QED BY <1>1, <1>4, Zenon DEF IsPrefix

LEMMA PrefixOrder ==
  ASSUME NEW a \in NameSeqs, NEW b \in NameSeqs, NEW c \in NameSeqs
  PROVE  /\ IsPrefix(a, a)
         /\ IsPrefix(a, b) /\ IsPrefix(b, c) => IsPrefix(a, c)
         /\ IsPrefix(a, b) /\ IsPrefix(b, a) => a = b
         /\ IsPrefix(a, b) /\ Len(a) = Len(b) => a = b
         /\ IsPrefix(a, b) => Len(a) <= Len(b)
<1>1. Len(a) \in Nat /\ Len(b) \in Nat /\ Len(c) \in Nat BY DEF NameSeqs
<1>2. IsPrefix(a, a) BY <1>1, PrefixMeaning
<1>3. IsPrefix(a, b) /\ IsPrefix(b, c) => IsPrefix(a, c) BY <1>1, PrefixMeaning
<1>4. ASSUME IsPrefix(a, b), Len(a) = Len(b) PROVE a = b
  <2>1. \A i \in 1 .. Len(a) : a[i] = b[i] BY <1>4, PrefixMeaning
  <2> QED BY <2>1, <1>4 DEF NameSeqs
<1>5. IsPrefix(a, b) /\ IsPrefix(b, a) => Len(a) = Len(b) BY <1>1, PrefixMeaning
<1>6. IsPrefix(a, b) => Len(a) <= Len(b) BY PrefixMeaning
<1> QED BY <1>2, <1>3, <1>4, <1>5, <1>6

\* The first names of a path.
LEMMA Cut ==
  ASSUME NEW a \in NameSeqs, NEW b \in NameSeqs, IsPrefix(a, b), NEW n \in Nat, Len(a) <= n, n <= Len(b)
  PROVE  /\ SubSeq(b, 1, n) \in NameSeqs /\ Len(SubSeq(b, 1, n)) = n
         /\ IsPrefix(a, SubSeq(b, 1, n)) /\ IsPrefix(SubSeq(b, 1, n), b)
<1> DEFINE c == SubSeq(b, 1, n)
<1>1. Len(a) \in Nat /\ Len(b) \in Nat BY DEF NameSeqs
<1>2. c \in NameSeqs /\ Len(c) = n /\ \A i \in 1 .. n : c[i] = b[i] BY <1>1 DEF NameSeqs
<1>3. \A i \in 1 .. Len(a) : a[i] = b[i] BY PrefixMeaning
<1> HIDE DEF c
<1>4. IsPrefix(c, b) BY <1>1, <1>2, PrefixMeaning
<1>5. IsPrefix(a, c) BY <1>1, <1>2, <1>3, PrefixMeaning
<1> QED BY <1>2, <1>4, <1>5 DEF c

LEMMA PrefixIsCut ==
  ASSUME NEW a \in NameSeqs, NEW b \in NameSeqs, IsPrefix(a, b)
  PROVE  a = SubSeq(b, 1, Len(a))
<1>1. Len(a) \in Nat /\ Len(b) \in Nat BY DEF NameSeqs
<1>2. Len(a) <= Len(b) /\ \A i \in 1 .. Len(a) : a[i] = b[i] BY PrefixMeaning
<1> QED BY <1>1, <1>2 DEF NameSeqs

LEMMA LeastNumber ==
  ASSUME NEW T \in SUBSET Nat, T # {}
  PROVE  \E m \in T : \A n \in T : m <= n
<1> DEFINE R == {p \in Nat \X Nat : p[1] < p[2]}
<1>1. IsWellFoundedOn(R, Nat) BY NatLessThanWellFounded DEF OpToRel
<1>2. \A n, k \in Nat : n < k => <<n, k>> \in R OBVIOUS
<1> HIDE DEF R
<1>3. \E m \in T : \A n \in T : <<n, m>> \notin R BY <1>1, WFMin
<1>4. PICK m \in T : \A n \in T : <<n, m>> \notin R BY <1>3
<1>5. ASSUME NEW n \in T PROVE m <= n
  <2>1. m \in Nat /\ n \in Nat OBVIOUS
  <2>2. ~(n < m) BY <2>1, <1>2, <1>4, Zenon
  <2> QED BY <2>1, <2>2
<1> QED BY <1>5

-----------------------------------------------------------------------------
(* Sync: the paths                                                          *)

LEMMA RemotePathName == RemotePath \in NameSeqs /\ Remote \subseteq NameSeqs
<1>1. Remote \subseteq NameSeqs BY SyncConstants, Zenon DEF NameSeqs
<1>2. <<>> \in NameSeqs BY DEF NameSeqs
<1> QED BY <1>1, <1>2, SyncConstants DEF Remote

LEMMA StripAbs ==
  ASSUME NEW p \in Synced
  PROVE  Strip(p) \in NameSeqs /\ Abs(Strip(p)) = p /\ Strip(p) \in Paths
<1>1. p \in NameSeqs /\ RemotePath \in NameSeqs /\ IsPrefix(RemotePath, p)
  BY RemotePathName DEF Synced, Below
<1>2. Len(p) \in Nat /\ Len(RemotePath) \in Nat BY <1>1 DEF NameSeqs
<1>3. Len(RemotePath) <= Len(p) /\ \A i \in 1 .. Len(RemotePath) : RemotePath[i] = p[i]
  BY <1>1, PrefixMeaning
<1>4. Strip(p) \in NameSeqs /\ Len(Strip(p)) = Len(p) - Len(RemotePath)
      /\ \A i \in 1 .. Len(p) - Len(RemotePath) : Strip(p)[i] = p[i + Len(RemotePath)]
  BY <1>1, <1>2, <1>3 DEF NameSeqs, Strip
<1>5. Abs(Strip(p)) \in NameSeqs /\ Len(Abs(Strip(p))) = Len(p)
      /\ \A i \in 1 .. Len(p) : Abs(Strip(p))[i] =
            IF i <= Len(RemotePath) THEN RemotePath[i] ELSE Strip(p)[i - Len(RemotePath)]
  BY <1>1, <1>2, <1>3, <1>4 DEF NameSeqs, Abs
<1>6. \A i \in 1 .. Len(p) : Abs(Strip(p))[i] = p[i]
  <2> TAKE i \in 1 .. Len(p)
  <2>1. CASE i <= Len(RemotePath) BY <2>1, <1>2, <1>3, <1>5
  <2>2. CASE i > Len(RemotePath)
    <3>1. i - Len(RemotePath) \in 1 .. Len(p) - Len(RemotePath) BY <2>2, <1>2
    <3>2. Strip(p)[i - Len(RemotePath)] = p[i - Len(RemotePath) + Len(RemotePath)]
      BY <3>1, <1>4
    <3> QED BY <3>2, <2>2, <1>2, <1>5
  <2> QED BY <2>1, <2>2, <1>2
<1>7. Abs(Strip(p)) = p
  <2>1. IsPrefix(Abs(Strip(p)), p) BY <1>1, <1>2, <1>5, <1>6, PrefixMeaning
  <2> QED BY <2>1, <1>1, <1>5, PrefixOrder
<1> QED BY <1>4, <1>7 DEF Paths

LEMMA PathFacts ==
  ASSUME NEW q \in Paths
  PROVE  q \in NameSeqs /\ Abs(q) \in Synced /\ Abs(q) \in Remote /\ Strip(Abs(q)) = q /\ q \in Keys
         /\ Abs(q) \in NameSeqs
<1>1. PICK p \in Synced : q = Strip(p) BY DEF Paths
<1>2. Abs(q) = p /\ q \in NameSeqs BY <1>1, StripAbs
<1> QED BY <1>1, <1>2, RemotePathName DEF Synced, Keys

LEMMA AbsMeaning ==
  ASSUME NEW q \in NameSeqs
  PROVE  /\ Abs(q) \in NameSeqs /\ Len(Abs(q)) = Len(RemotePath) + Len(q)
         /\ \A i \in 1 .. Len(RemotePath) : Abs(q)[i] = RemotePath[i]
         /\ \A i \in 1 .. Len(q) : Abs(q)[i + Len(RemotePath)] = q[i]
<1>1. RemotePath \in NameSeqs BY RemotePathName
<1>2. Len(q) \in Nat /\ Len(RemotePath) \in Nat BY <1>1 DEF NameSeqs
<1> QED BY <1>1, <1>2 DEF NameSeqs, Abs

LEMMA AbsBelow ==
  ASSUME NEW q \in Paths, NEW d \in Paths
  PROVE  Below(Abs(q), Abs(d)) <=> Below(q, d)
<1>1. q \in NameSeqs /\ d \in NameSeqs /\ RemotePath \in NameSeqs BY PathFacts, RemotePathName
<1>2. Len(q) \in Nat /\ Len(d) \in Nat /\ Len(RemotePath) \in Nat BY <1>1 DEF NameSeqs
<1>3. Abs(q) \in NameSeqs /\ Abs(d) \in NameSeqs BY <1>1, AbsMeaning
<1>4. Len(Abs(q)) = Len(RemotePath) + Len(q) /\ Len(Abs(d)) = Len(RemotePath) + Len(d)
  BY <1>1, AbsMeaning
<1>5. ASSUME Below(q, d) PROVE Below(Abs(q), Abs(d))
  <2>1. Len(d) <= Len(q) /\ \A i \in 1 .. Len(d) : d[i] = q[i] BY <1>1, <1>5, PrefixMeaning DEF Below
  <2>2. ASSUME NEW i \in 1 .. Len(Abs(d)) PROVE Abs(d)[i] = Abs(q)[i]
    <3>1. CASE i <= Len(RemotePath)
      <4>1. i \in 1 .. Len(RemotePath) BY <3>1, <1>2, <1>4
      <4>2. Abs(d)[i] = RemotePath[i] BY <4>1, <1>1, AbsMeaning
      <4>3. Abs(q)[i] = RemotePath[i] BY <4>1, <1>1, AbsMeaning
      <4> QED BY <4>2, <4>3
    <3>2. CASE i > Len(RemotePath)
      <4>1. PICK k \in 1 .. Len(d) : i = k + Len(RemotePath)
        <5>1. i - Len(RemotePath) \in 1 .. Len(d) /\ i = (i - Len(RemotePath)) + Len(RemotePath)
          BY <3>2, <1>2, <1>4
        <5> QED BY <5>1
      <4>2. k \in 1 .. Len(q) BY <2>1, <1>2
      <4>3. Abs(d)[k + Len(RemotePath)] = d[k] /\ Abs(q)[k + Len(RemotePath)] = q[k]
        BY <4>2, <1>1, AbsMeaning
      <4> QED BY <4>1, <4>3, <2>1
    <3> QED BY <3>1, <3>2, <1>2, <1>4
  <2>3. Len(Abs(d)) <= Len(Abs(q)) BY <2>1, <1>2, <1>4
  <2> QED BY <2>2, <2>3, <1>3, PrefixMeaning DEF Below
<1>6. ASSUME Below(Abs(q), Abs(d)) PROVE Below(q, d)
  <2>1. Len(Abs(d)) <= Len(Abs(q)) /\ \A i \in 1 .. Len(Abs(d)) : Abs(d)[i] = Abs(q)[i]
    BY <1>3, <1>6, PrefixMeaning DEF Below
  <2>2. Len(d) <= Len(q) BY <2>1, <1>2, <1>4
  <2>3. ASSUME NEW k \in 1 .. Len(d) PROVE d[k] = q[k]
    <3>1. k + Len(RemotePath) \in 1 .. Len(Abs(d)) /\ k \in 1 .. Len(q) BY <1>2, <1>4, <2>2
    <3>2. Abs(d)[k + Len(RemotePath)] = d[k] /\ Abs(q)[k + Len(RemotePath)] = q[k]
      BY <3>1, <1>1, AbsMeaning
    <3> QED BY <3>1, <3>2, <2>1
  <2> QED BY <2>2, <2>3, <1>1, PrefixMeaning DEF Below
<1> QED BY <1>5, <1>6

LEMMA AbsEqual ==
  ASSUME NEW q \in Paths, NEW d \in Paths
  PROVE  Abs(q) = Abs(d) <=> q = d
BY PathFacts

\* What is above another path is a directory.
LEMMA AboveIsDir ==
  ASSUME NEW p \in Remote, NEW d \in NameSeqs, Below(p, d), p # d, d # <<>>
  PROVE  d \in Dirs
<1>1. p \in NameSeqs BY RemotePathName
<1>2. d = SubSeq(p, 1, Len(d)) BY <1>1, PrefixIsCut DEF Below
<1>3. Len(d) \in Nat /\ Len(p) \in Nat /\ Len(d) # 0 BY <1>1 DEF NameSeqs
<1>4. Len(d) <= Len(p) /\ Len(d) # Len(p) BY <1>1, PrefixOrder DEF Below
<1>5. Len(d) \in 1 .. Len(p)-1 BY <1>3, <1>4
<1> QED BY <1>2, <1>5, SyncConstants

LEMMA FileIsLowest ==
  ASSUME NEW q \in Paths, NEW d \in Paths, Below(q, d), q # d
  PROVE  IsDir(d)
<1>1. Below(Abs(q), Abs(d)) /\ Abs(q) # Abs(d) BY AbsBelow, AbsEqual
<1>2. Abs(q) \in Remote /\ Abs(d) \in NameSeqs /\ Abs(d) \in Remote BY PathFacts
<1>3. Abs(d) # <<>> BY <1>2, SyncConstants
<1> QED BY <1>1, <1>2, <1>3, AboveIsDir DEF IsDir

-----------------------------------------------------------------------------
(* Sync: trees                                                              *)

\* What is in the folder, its directories are too.
Closed(t) == \A q, d \in DOMAIN t : Below(q, d) /\ t[q] # 0 => t[d] # 0

LEMMA WithClosed ==
  ASSUME NEW S \in SUBSET NameSeqs, NEW t \in [S -> Nat], NEW p \in S, NEW v \in Nat, v # 0, Closed(t)
  PROVE  With(t, p, v) \in [S -> Nat] /\ Closed(With(t, p, v))
<1> DEFINE u == With(t, p, v)
<1>1. u \in [S -> Nat] BY DEF With
<1>2. ASSUME NEW q \in S, NEW d \in S, Below(q, d), u[q] # 0 PROVE u[d] # 0
  <2>1. CASE d = p BY <2>1 DEF With
  <2>2. CASE d # p /\ Below(p, d) BY <2>2 DEF With
  <2>3. CASE d # p /\ ~Below(p, d)
    <3>1. ~Below(p, q) BY <1>2, <2>3, PrefixOrder DEF Below
    <3>2. q # p BY <1>2, <2>3
    <3>3. u[q] = t[q] /\ u[d] = t[d] BY <2>3, <3>1, <3>2 DEF With
    <3> QED BY <3>3, <1>2 DEF Closed
  <2> QED BY <2>1, <2>2, <2>3
<1> QED BY <1>1, <1>2 DEF Closed

LEMMA WithoutClosed ==
  ASSUME NEW S \in SUBSET NameSeqs, NEW t \in [S -> Nat], NEW p \in S, Closed(t)
  PROVE  Without(t, p) \in [S -> Nat] /\ Closed(Without(t, p))
<1> DEFINE u == Without(t, p)
<1>1. u \in [S -> Nat] BY DEF Without
<1>2. ASSUME NEW q \in S, NEW d \in S, Below(q, d), u[q] # 0 PROVE u[d] # 0
  <2>1. ~Below(q, p) /\ t[q] # 0 BY <1>2 DEF Without
  <2>2. ~Below(d, p) BY <1>2, <2>1, PrefixOrder DEF Below
  <2>3. t[d] # 0 BY <1>2, <2>1 DEF Closed
  <2> QED BY <2>2, <2>3 DEF Without
<1> QED BY <1>1, <1>2 DEF Closed
-----------------------------------------------------------------------------
(* Sync: operations                                                         *)

\* The operations of a difference: one per path, of files but for the deletions.
Ops == {"Conflict", "Update", "Download", "Upload", "Delete", "LocalDelete"}
Deletions == {"Delete", "LocalDelete"}
DiffTypes(D) ==
  /\ D \subseteq [op : Ops, path : Paths]
  /\ \A x, y \in D : x.path = y.path => x = y
  /\ \A x \in D : x.op \in Deletions \/ ~IsDir(x.path)

\* What an operation does to the two folders.
Moves(l, r, m, s, o, q) ==
  \/ o = "Download" /\ r[q] # 0 /\ m = With(l, q, r[q]) /\ s = r
  \/ o \in {"Upload", "Update"} /\ l[q] # 0 /\ s = With(r, q, l[q]) /\ m = l
  \/ o = "Delete" /\ s = Without(r, q) /\ m = l
  \/ o = "LocalDelete" /\ m = Without(l, q) /\ s = r
  \/ /\ \/ o = "Conflict"
        \/ o = "Download" /\ r[q] = 0
        \/ o \in {"Upload", "Update"} /\ l[q] = 0
     /\ m = l /\ s = r

\* The operations of kind o are on paths below which t has nothing.
Empty(D, o, t) ==
  \A x \in D : x.op = o => \A q \in Paths : Below(q, x.path) => t[q] = 0
\* A file is downloaded or uploaded where there is none, updated where there is one.
Fits(D, l, r) ==
  \A x \in D : /\ x.op = "Download" => l[x.path] = 0
               /\ x.op = "Upload" => r[x.path] = 0
               /\ x.op = "Update" => l[x.path] # 0 /\ r[x.path] # 0
\* The operation decides about the file q.
Covers(x, q) ==
  \/ x.op \in {"Download", "Upload", "Update"} /\ x.path = q
  \/ x.op \in Deletions /\ Below(q, x.path)
\* Every file that differs is a conflict or some operation is still to settle it.
Settles(D, C, l, r) ==
  \A q \in Paths : \/ IsDir(q) \/ l[q] = r[q] \/ q \in C
                   \/ \E x \in D : Covers(x, q)
\* The files of G are gone on both sides or some deletion is still to remove them.
Removes(D, G, l, r) ==
  \A q \in G : \/ l[q] = 0 /\ r[q] = 0
               \/ \E x \in D : x.op \in Deletions /\ Below(q, x.path)

\* The sorted list begins with x.
First(D, x) == \A y \in D : ~Before(y.path, x.path)

LEMMA WithAtFile ==
  ASSUME NEW t \in [Paths -> Nat], NEW y \in Paths, NEW v, NEW q \in Paths, ~IsDir(q), q # y
  PROVE  With(t, y, v)[q] = t[q]
<1>1. ~Below(y, q) BY FileIsLowest
<1> QED BY <1>1 DEF With

LEMMA WithAt ==
  ASSUME NEW t \in [Paths -> Nat], NEW y \in Paths, NEW v
  PROVE  With(t, y, v)[y] = v
BY DEF With

LEMMA WithNonzero ==
  ASSUME NEW t \in [Paths -> Nat], NEW y \in Paths, NEW v, v # 0, NEW q \in Paths, t[q] # 0
  PROVE  With(t, y, v)[q] # 0
BY DEF With

LEMMA WithoutAt ==
  ASSUME NEW t \in [Paths -> Nat], NEW y \in Paths, NEW q \in Paths
  PROVE  Without(t, y)[q] = IF Below(q, y) THEN 0 ELSE t[q]
BY DEF Without

\* A deletion comes before what is below it.
LEMMA DeletionFirst ==
  ASSUME NEW D, DiffTypes(D), NEW x \in D, First(D, x), NEW y \in D, y # x
  PROVE  ~Below(x.path, y.path)
BY DEF DiffTypes, First, Before, Below

LEMMA WithKeepsEmpty ==
  ASSUME NEW D, DiffTypes(D), NEW x \in D, First(D, x), NEW t \in [Paths -> Nat], NEW v,
         NEW o, x.op # o, Empty(D, o, t)
  PROVE  Empty(D \ {x}, o, With(t, x.path, v))
<1> SUFFICES ASSUME NEW y \in D, y # x, y.op = o, NEW q \in Paths, Below(q, y.path)
             PROVE  With(t, x.path, v)[q] = 0
  BY DEF Empty
<1>1. x.path \in Paths /\ y.path \in Paths BY DEF DiffTypes
<1>2. x.path \in NameSeqs /\ y.path \in NameSeqs /\ q \in NameSeqs BY <1>1, PathFacts
<1>3. ~Below(x.path, y.path) BY DeletionFirst
<1>4. ~Below(x.path, q) BY <1>2, <1>3, PrefixOrder DEF Below
<1>5. q # x.path BY <1>3
<1> QED BY <1>1, <1>4, <1>5 DEF Empty, With

LEMMA WithoutKeepsEmpty ==
  ASSUME NEW D, DiffTypes(D), NEW x \in D, NEW t \in [Paths -> Nat], NEW o, Empty(D, o, t)
  PROVE  Empty(D \ {x}, o, Without(t, x.path))
BY DEF Empty, Without, DiffTypes

\* An operation that is carried out in its turn, folder by folder.
LEMMA MoveTypes ==
  ASSUME NEW l \in [Paths -> Nat], NEW r \in [Paths -> Nat], NEW m, NEW s, NEW o \in Ops,
         NEW q \in Paths, Moves(l, r, m, s, o, q)
  PROVE  m \in [Paths -> Nat] /\ s \in [Paths -> Nat]
BY DEF Moves, With, Without

LEMMA MoveKeepsDeletes ==
  ASSUME NEW D, DiffTypes(D), NEW x \in D, First(D, x),
         NEW l \in [Paths -> Nat], NEW r \in [Paths -> Nat], NEW m, NEW s,
         Moves(l, r, m, s, x.op, x.path), Empty(D, "Delete", l)
  PROVE  Empty(D \ {x}, "Delete", m)
<1>1. CASE m = l BY <1>1 DEF Empty
<1>2. CASE x.op = "Download" /\ m = With(l, x.path, r[x.path])
  BY <1>2, WithKeepsEmpty
<1>3. CASE x.op = "LocalDelete" /\ m = Without(l, x.path) BY <1>3, WithoutKeepsEmpty
<1> QED BY <1>1, <1>2, <1>3 DEF Moves

LEMMA MoveKeepsLocalDeletes ==
  ASSUME NEW D, DiffTypes(D), NEW x \in D, First(D, x),
         NEW l \in [Paths -> Nat], NEW r \in [Paths -> Nat], NEW m, NEW s,
         Moves(l, r, m, s, x.op, x.path), Empty(D, "LocalDelete", r)
  PROVE  Empty(D \ {x}, "LocalDelete", s)
<1>1. CASE s = r BY <1>1 DEF Empty
<1>2. CASE x.op \in {"Upload", "Update"} /\ s = With(r, x.path, l[x.path])
  BY <1>2, WithKeepsEmpty
<1>3. CASE x.op = "Delete" /\ s = Without(r, x.path) BY <1>3, WithoutKeepsEmpty
<1> QED BY <1>1, <1>2, <1>3 DEF Moves

\* What the difference needs of the two folders while it is carried out.
Sound(D, l, r) == Empty(D, "Delete", l) /\ Empty(D, "LocalDelete", r) /\ Fits(D, l, r)

LEMMA MoveKeepsFits ==
  ASSUME NEW D, DiffTypes(D), NEW x \in D, First(D, x),
         NEW l \in [Paths -> Nat], NEW r \in [Paths -> Nat], NEW m, NEW s,
         Moves(l, r, m, s, x.op, x.path), Sound(D, l, r)
  PROVE  Fits(D \ {x}, m, s)
<1> SUFFICES ASSUME NEW y \in D, y # x
             PROVE  /\ y.op = "Download" => m[y.path] = 0
                    /\ y.op = "Upload" => s[y.path] = 0
                    /\ y.op = "Update" => m[y.path] # 0 /\ s[y.path] # 0
  BY DEF Fits
<1>1. x.path \in Paths /\ y.path \in Paths /\ x.path # y.path
      /\ (y.op \in Deletions \/ ~IsDir(y.path))
  BY DEF DiffTypes
<1>2. CASE y.op \in Deletions BY <1>2 DEF Deletions
<1> SUFFICES ASSUME ~IsDir(y.path)
             PROVE  /\ y.op = "Download" => m[y.path] = 0
                    /\ y.op = "Upload" => s[y.path] = 0
                    /\ y.op = "Update" => m[y.path] # 0 /\ s[y.path] # 0
  BY <1>1, <1>2
<1>3. /\ y.op = "Download" => l[y.path] = 0
      /\ y.op = "Upload" => r[y.path] = 0
      /\ y.op = "Update" => l[y.path] # 0 /\ r[y.path] # 0
  BY DEF Sound, Fits
<1>4. CASE m = l /\ s = r BY <1>3, <1>4
<1>5. CASE m = With(l, x.path, r[x.path]) /\ s = r
  <2>1. m[y.path] = l[y.path] BY <1>1, <1>5, WithAtFile
  <2> QED BY <2>1, <1>3, <1>5
<1>6. CASE s = With(r, x.path, l[x.path]) /\ m = l
  <2>1. s[y.path] = r[y.path] BY <1>1, <1>6, WithAtFile
  <2> QED BY <2>1, <1>3, <1>6
<1>7. CASE x.op = "Delete" /\ s = Without(r, x.path) /\ m = l
  <2>1. s[y.path] = IF Below(y.path, x.path) THEN 0 ELSE r[y.path] BY <1>1, <1>7, WithoutAt
  <2>2. Below(y.path, x.path) => l[y.path] = 0 BY <1>1, <1>7 DEF Sound, Empty
  <2> QED BY <2>1, <2>2, <1>3, <1>7
<1>8. CASE x.op = "LocalDelete" /\ m = Without(l, x.path) /\ s = r
  <2>1. m[y.path] = IF Below(y.path, x.path) THEN 0 ELSE l[y.path] BY <1>1, <1>8, WithoutAt
  <2>2. Below(y.path, x.path) => r[y.path] = 0 BY <1>1, <1>8 DEF Sound, Empty
  <2> QED BY <2>1, <2>2, <1>3, <1>8
<1> QED BY <1>4, <1>5, <1>6, <1>7, <1>8 DEF Moves

\* The file at q: equal files stay equal, and a covered one is settled.
LEMMA MoveSettles ==
  ASSUME NEW D, DiffTypes(D), NEW x \in D,
         NEW l \in [Paths -> Nat], NEW r \in [Paths -> Nat], NEW m, NEW s,
         Moves(l, r, m, s, x.op, x.path), Sound(D, l, r),
         NEW q \in Paths, ~IsDir(q), l[q] = r[q] \/ Covers(x, q)
  PROVE  m[q] = s[q]
<1>1. x.path \in Paths BY DEF DiffTypes
<1>2. /\ x.op = "Download" => l[x.path] = 0
      /\ x.op = "Upload" => r[x.path] = 0
      /\ x.op = "Update" => l[x.path] # 0 /\ r[x.path] # 0
      /\ x.op = "Delete" /\ Below(q, x.path) => l[q] = 0
      /\ x.op = "LocalDelete" /\ Below(q, x.path) => r[q] = 0
  BY DEF Sound, Fits, Empty
<1>4. CASE m = l /\ s = r
           /\ \/ x.op = "Conflict"
              \/ x.op = "Download" /\ r[x.path] = 0
              \/ x.op \in {"Upload", "Update"} /\ l[x.path] = 0
  BY <1>2, <1>4 DEF Covers, Deletions
<1>5. CASE x.op = "Download" /\ m = With(l, x.path, r[x.path]) /\ s = r
  <2>1. CASE q = x.path BY <2>1, <1>1, <1>5, WithAt
  <2>2. CASE q # x.path
    <3>1. m[q] = l[q] BY <2>2, <1>1, <1>5, WithAtFile
    <3> QED BY <3>1, <2>2, <1>5 DEF Covers, Deletions
  <2> QED BY <2>1, <2>2
<1>6. CASE x.op \in {"Upload", "Update"} /\ s = With(r, x.path, l[x.path]) /\ m = l
  <2>1. CASE q = x.path BY <2>1, <1>1, <1>6, WithAt
  <2>2. CASE q # x.path
    <3>1. s[q] = r[q] BY <2>2, <1>1, <1>6, WithAtFile
    <3> QED BY <3>1, <2>2, <1>6 DEF Covers, Deletions
  <2> QED BY <2>1, <2>2
<1>7. CASE x.op = "Delete" /\ s = Without(r, x.path) /\ m = l
  <2>1. s[q] = IF Below(q, x.path) THEN 0 ELSE r[q] BY <1>1, <1>7, WithoutAt
  <2> QED BY <2>1, <1>2, <1>7 DEF Covers
<1>8. CASE x.op = "LocalDelete" /\ m = Without(l, x.path) /\ s = r
  <2>1. m[q] = IF Below(q, x.path) THEN 0 ELSE l[q] BY <1>1, <1>8, WithoutAt
  <2> QED BY <2>1, <1>2, <1>8 DEF Covers
<1> QED BY <1>4, <1>5, <1>6, <1>7, <1>8 DEF Moves

LEMMA MoveKeepsSettles ==
  ASSUME NEW D, DiffTypes(D), NEW x \in D,
         NEW l \in [Paths -> Nat], NEW r \in [Paths -> Nat], NEW m, NEW s,
         Moves(l, r, m, s, x.op, x.path), Sound(D, l, r), NEW C, Settles(D, C, l, r)
  PROVE  Settles(D \ {x}, C, m, s)
<1> SUFFICES ASSUME NEW q \in Paths, ~IsDir(q), q \notin C, m[q] # s[q]
             PROVE  \E y \in D \ {x} : Covers(y, q)
  BY DEF Settles
<1>1. l[q] # r[q] /\ ~Covers(x, q) BY MoveSettles
<1> QED BY <1>1 DEF Settles

\* What is gone on both sides stays gone.
LEMMA MoveKeepsRemoves ==
  ASSUME NEW D, DiffTypes(D), NEW x \in D,
         NEW l \in [Paths -> Nat], NEW r \in [Paths -> Nat], NEW m, NEW s,
         Moves(l, r, m, s, x.op, x.path), Sound(D, l, r),
         NEW G \in SUBSET {q \in Paths : ~IsDir(q)}, Removes(D, G, l, r)
  PROVE  Removes(D \ {x}, G, m, s)
<1> SUFFICES ASSUME NEW q \in G, ~(m[q] = 0 /\ s[q] = 0)
             PROVE  \E y \in D \ {x} : y.op \in Deletions /\ Below(q, y.path)
  BY DEF Removes
<1>1. x.path \in Paths /\ q \in Paths /\ ~IsDir(q) BY DEF DiffTypes
<1>2. /\ x.op = "Delete" /\ Below(q, x.path) => l[q] = 0
      /\ x.op = "LocalDelete" /\ Below(q, x.path) => r[q] = 0
  BY <1>1 DEF Sound, Empty
<1>3. ASSUME l[q] = 0, r[q] = 0 PROVE m[q] = 0 /\ s[q] = 0
  <2>1. CASE m = l /\ s = r BY <2>1, <1>3
  <2>2. CASE r[x.path] # 0 /\ m = With(l, x.path, r[x.path]) /\ s = r
    <3>1. q # x.path BY <2>2, <1>3
    <3> QED BY <3>1, <2>2, <1>1, <1>3, WithAtFile
  <2>3. CASE l[x.path] # 0 /\ s = With(r, x.path, l[x.path]) /\ m = l
    <3>1. q # x.path BY <2>3, <1>3
    <3> QED BY <3>1, <2>3, <1>1, <1>3, WithAtFile
  <2>4. CASE s = Without(r, x.path) /\ m = l BY <2>4, <1>1, <1>3, WithoutAt
  <2>5. CASE m = Without(l, x.path) /\ s = r BY <2>5, <1>1, <1>3, WithoutAt
  <2> QED BY <2>1, <2>2, <2>3, <2>4, <2>5 DEF Moves
<1>4. ASSUME x.op \in Deletions, Below(q, x.path) PROVE m[q] = 0 /\ s[q] = 0
  <2>1. CASE x.op = "Delete"
    <3>1. s = Without(r, x.path) /\ m = l BY <2>1 DEF Moves
    <3> QED BY <3>1, <2>1, <1>1, <1>2, <1>4, WithoutAt
  <2>2. CASE x.op = "LocalDelete"
    <3>1. m = Without(l, x.path) /\ s = r BY <2>2 DEF Moves
    <3> QED BY <3>1, <2>2, <1>1, <1>2, <1>4, WithoutAt
  <2> QED BY <2>1, <2>2, <1>4 DEF Deletions
<1>5. PICK y \in D : y.op \in Deletions /\ Below(q, y.path) BY <1>3 DEF Removes
<1>6. y # x BY <1>4, <1>5
<1> QED BY <1>5, <1>6
-----------------------------------------------------------------------------
(* Sync: findDelta                                                          *)

LEMMA TopmostAbove ==
  ASSUME NEW S \in SUBSET NameSeqs, NEW q \in S
  PROVE  \E d \in Topmost(S) : Below(q, d)
<1> DEFINE A == {d \in S : Below(q, d)}
           T == {Len(d) : d \in A}
<1>1. q \in A BY PrefixOrder DEF Below
<1>2. T \in SUBSET Nat /\ T # {}
  <2>1. \A d \in NameSeqs : Len(d) \in Nat BY DEF NameSeqs
  <2>2. A \subseteq NameSeqs OBVIOUS
  <2>3. T \in SUBSET Nat BY <2>1, <2>2, Zenon
  <2> QED BY <2>3, <1>1
<1>3. PICK m \in T : \A n \in T : m <= n BY <1>2, LeastNumber, Zenon
<1>4. PICK d \in A : m = Len(d) BY <1>3
<1>5. ASSUME NEW e \in S, e # d, Below(d, e) PROVE FALSE
  <2>1. Below(q, e) BY <1>5, PrefixOrder DEF Below
  <2>2. e \in A BY <2>1
  <2>3. Len(d) <= Len(e) BY <2>2, <1>3, <1>4
  <2>4. Len(e) <= Len(d) BY <1>5, PrefixOrder DEF Below
  <2>5. Len(e) = Len(d) BY <2>3, <2>4 DEF NameSeqs
  <2> QED BY <2>5, <1>5, PrefixOrder DEF Below
<1>6. d \in Topmost(S) BY <1>5 DEF Topmost
<1> QED BY <1>6

LEMMA DeltaMeaning ==
  ASSUME NEW r, NEW l, NEW p, NEW x
  PROVE  x \in findDelta(r, l, p) <=>
         \/ x = [op |-> "Conflict", path |-> x.path] /\ x.path \in Conflicts(r, l, p) /\ ~IsDir(x.path)
         \/ x = [op |-> "Update", path |-> x.path] /\ x.path \in Updates(r, l, p) /\ ~IsDir(x.path)
         \/ x = [op |-> "Download", path |-> x.path] /\ x.path \in Downloads(r, l, p) /\ ~IsDir(x.path)
         \/ x = [op |-> "Upload", path |-> x.path] /\ x.path \in Uploads(r, l, p) /\ ~IsDir(x.path)
         \/ x = [op |-> "Delete", path |-> x.path] /\ x.path \in Deletes(r, l, p)
            /\ x.path \in Topmost(Deletes(r, l, p) \cup LocalDeletes(r, l, p))
         \/ x = [op |-> "LocalDelete", path |-> x.path] /\ x.path \in LocalDeletes(r, l, p)
            /\ x.path \in Topmost(Deletes(r, l, p) \cup LocalDeletes(r, l, p))
BY DEF findDelta

\* What the three maps say of the paths of an operation.
LEMMA DeltaStates ==
  ASSUME NEW r \in [Paths -> Nat], NEW l \in [Paths -> Nat], NEW p \in [Paths -> Nat],
         NEW x \in findDelta(r, l, p)
  PROVE  /\ x = [op |-> x.op, path |-> x.path] /\ x.path \in Paths
         /\ x.op \in Deletions \/ ~IsDir(x.path)
         /\ \/ x.op = "Conflict" /\ l[x.path] # 0 /\ r[x.path] # 0 /\ p[x.path] # 0 /\ p[x.path] # r[x.path]
            \/ x.op = "Update" /\ l[x.path] # 0 /\ r[x.path] # 0 /\ (p[x.path] = 0 \/ p[x.path] = r[x.path])
               /\ l[x.path] # r[x.path]
            \/ x.op = "Download" /\ l[x.path] = 0 /\ r[x.path] # 0 /\ p[x.path] = 0
            \/ x.op = "Upload" /\ l[x.path] # 0 /\ r[x.path] = 0 /\ p[x.path] = 0
            \/ x.op = "Delete" /\ l[x.path] = 0 /\ r[x.path] # 0 /\ p[x.path] # 0
            \/ x.op = "LocalDelete" /\ l[x.path] # 0 /\ r[x.path] = 0 /\ p[x.path] # 0
<1>1. \A q \in Conflicts(r, l, p) : q \in Paths /\ l[q] # 0 /\ r[q] # 0 /\ p[q] # 0 /\ p[q] # r[q]
  BY DEF Conflicts, lMod, rMod, In
<1>2. \A q \in Updates(r, l, p) : /\ q \in Paths /\ l[q] # 0 /\ r[q] # 0 /\ l[q] # r[q]
                                  /\ p[q] = 0 \/ p[q] = r[q]
  BY DEF Updates, lMod, rMod, In
<1>3. \A q \in Downloads(r, l, p) : q \in Paths /\ l[q] = 0 /\ r[q] # 0 /\ p[q] = 0
  BY DEF Downloads, In
<1>4. \A q \in Uploads(r, l, p) : q \in Paths /\ l[q] # 0 /\ r[q] = 0 /\ p[q] = 0
  BY DEF Uploads, In
<1>5. \A q \in Deletes(r, l, p) : q \in Paths /\ l[q] = 0 /\ r[q] # 0 /\ p[q] # 0
  BY DEF Deletes, In
<1>6. \A q \in LocalDeletes(r, l, p) : q \in Paths /\ l[q] # 0 /\ r[q] = 0 /\ p[q] # 0
  BY DEF LocalDeletes, In
<1>7. CASE x = [op |-> "Conflict", path |-> x.path] /\ x.path \in Conflicts(r, l, p) /\ ~IsDir(x.path)
  BY <1>1, <1>7
<1>8. CASE x = [op |-> "Update", path |-> x.path] /\ x.path \in Updates(r, l, p) /\ ~IsDir(x.path)
  BY <1>2, <1>8
<1>9. CASE x = [op |-> "Download", path |-> x.path] /\ x.path \in Downloads(r, l, p) /\ ~IsDir(x.path)
  BY <1>3, <1>9
<1>10. CASE x = [op |-> "Upload", path |-> x.path] /\ x.path \in Uploads(r, l, p) /\ ~IsDir(x.path)
  BY <1>4, <1>10
<1>11. CASE x = [op |-> "Delete", path |-> x.path] /\ x.path \in Deletes(r, l, p)
  BY <1>5, <1>11 DEF Deletions
<1>12. CASE x = [op |-> "LocalDelete", path |-> x.path] /\ x.path \in LocalDeletes(r, l, p)
  BY <1>6, <1>12 DEF Deletions
<1>13. \/ x = [op |-> "Conflict", path |-> x.path] /\ x.path \in Conflicts(r, l, p) /\ ~IsDir(x.path)
       \/ x = [op |-> "Update", path |-> x.path] /\ x.path \in Updates(r, l, p) /\ ~IsDir(x.path)
       \/ x = [op |-> "Download", path |-> x.path] /\ x.path \in Downloads(r, l, p) /\ ~IsDir(x.path)
       \/ x = [op |-> "Upload", path |-> x.path] /\ x.path \in Uploads(r, l, p) /\ ~IsDir(x.path)
       \/ x = [op |-> "Delete", path |-> x.path] /\ x.path \in Deletes(r, l, p)
       \/ x = [op |-> "LocalDelete", path |-> x.path] /\ x.path \in LocalDeletes(r, l, p)
  BY DEF findDelta
<1> QED BY <1>7, <1>8, <1>9, <1>10, <1>11, <1>12, <1>13, Zenon

LEMMA DeltaTypes ==
  ASSUME NEW r \in [Paths -> Nat], NEW l \in [Paths -> Nat], NEW p \in [Paths -> Nat]
  PROVE  DiffTypes(findDelta(r, l, p))
<1>1. ASSUME NEW x \in findDelta(r, l, p)
      PROVE  x = [op |-> x.op, path |-> x.path] /\ x.op \in Ops /\ x.path \in Paths
             /\ (x.op \in Deletions \/ ~IsDir(x.path))
  BY DeltaStates DEF Ops
<1>2. ASSUME NEW x \in findDelta(r, l, p), NEW y \in findDelta(r, l, p), x.path = y.path
      PROVE  x = y
  <2>1. x.op = y.op BY <1>2, DeltaStates
  <2> QED BY <2>1, <1>1, <1>2
<1>3. findDelta(r, l, p) \subseteq [op : Ops, path : Paths] BY <1>1
<1> QED BY <1>1, <1>2, <1>3 DEF DiffTypes

LEMMA DeltaSound ==
  ASSUME NEW r \in [Paths -> Nat], NEW l \in [Paths -> Nat], NEW p \in [Paths -> Nat]
  PROVE  /\ Fits(findDelta(r, l, p), l, r)
         /\ Closed(l) => Empty(findDelta(r, l, p), "Delete", l)
         /\ Closed(r) => Empty(findDelta(r, l, p), "LocalDelete", r)
<1>1. ASSUME NEW x \in findDelta(r, l, p)
      PROVE  /\ x.path \in Paths
             /\ x.op = "Update" => l[x.path] # 0 /\ r[x.path] # 0
             /\ x.op = "Download" => l[x.path] = 0
             /\ x.op = "Upload" => r[x.path] = 0
             /\ x.op = "Delete" => l[x.path] = 0
             /\ x.op = "LocalDelete" => r[x.path] = 0
  BY DeltaStates
<1> QED BY <1>1 DEF Fits, Empty, Closed

\* Whatever has to be deleted is below an operation that deletes.
LEMMA DeltaDeletes ==
  ASSUME NEW r \in [Paths -> Nat], NEW l \in [Paths -> Nat], NEW p \in [Paths -> Nat],
         NEW q \in Paths, p[q] # 0, r[q] = 0 \/ l[q] = 0, r[q] # 0 \/ l[q] # 0
  PROVE  \E x \in findDelta(r, l, p) : x.op \in Deletions /\ Below(q, x.path)
<1> DEFINE S == Deletes(r, l, p) \cup LocalDeletes(r, l, p)
<1>1. q \in S BY DEF Deletes, LocalDeletes, In
<1>2. S \in SUBSET NameSeqs BY PathFacts DEF Deletes, LocalDeletes, In
<1>3. PICK d \in Topmost(S) : Below(q, d) BY <1>1, <1>2, TopmostAbove
<1>4. d \in S BY <1>3 DEF Topmost
<1>5. CASE d \in Deletes(r, l, p)
  <2> DEFINE x == [op |-> "Delete", path |-> d]
  <2>1. x \in findDelta(r, l, p) BY <1>3, <1>5, DeltaMeaning
  <2> QED BY <2>1, <1>3 DEF Deletions
<1>6. CASE d \in LocalDeletes(r, l, p)
  <2> DEFINE x == [op |-> "LocalDelete", path |-> d]
  <2>1. x \in findDelta(r, l, p) BY <1>3, <1>6, DeltaMeaning
  <2> QED BY <2>1, <1>3 DEF Deletions
<1> QED BY <1>4, <1>5, <1>6

LEMMA DeltaSettles ==
  ASSUME NEW r \in [Paths -> Nat], NEW l \in [Paths -> Nat], NEW p \in [Paths -> Nat], NEW D,
         D = findDelta(r, l, p)
  PROVE  Settles(D, {x.path : x \in {y \in D : y.op = "Conflict"}}, l, r)
<1> SUFFICES ASSUME NEW q \in Paths, ~IsDir(q), l[q] # r[q],
                    q \notin {x.path : x \in {y \in D : y.op = "Conflict"}}
             PROVE  \E x \in D : Covers(x, q)
  BY DEF Settles
<1>1. CASE l[q] # 0 /\ r[q] # 0
  <2>1. [op |-> "Conflict", path |-> q] \notin D OBVIOUS
  <2>2. q \notin Conflicts(r, l, p) BY <2>1, DeltaMeaning
  <2>3. q \in Updates(r, l, p) BY <2>2, <1>1 DEF Conflicts, Updates, lMod, In
  <2>4. [op |-> "Update", path |-> q] \in D BY <2>3, DeltaMeaning
  <2> QED BY <2>4 DEF Covers
<1>2. CASE p[q] # 0 /\ (l[q] = 0 \/ r[q] = 0)
  <2>1. r[q] # 0 \/ l[q] # 0 OBVIOUS
  <2>2. \E x \in D : x.op \in Deletions /\ Below(q, x.path) BY <2>1, <1>2, DeltaDeletes
  <2> QED BY <2>2 DEF Covers
<1>3. CASE p[q] = 0 /\ l[q] = 0
  <2>1. q \in Downloads(r, l, p) BY <1>3 DEF Downloads, In
  <2>2. [op |-> "Download", path |-> q] \in D BY <2>1, DeltaMeaning
  <2> QED BY <2>2 DEF Covers
<1>4. CASE p[q] = 0 /\ r[q] = 0
  <2>1. q \in Uploads(r, l, p) BY <1>4 DEF Uploads, In
  <2>2. [op |-> "Upload", path |-> q] \in D BY <2>1, DeltaMeaning
  <2> QED BY <2>2 DEF Covers
<1> QED BY <1>1, <1>2, <1>3, <1>4
-----------------------------------------------------------------------------
(* Sync: types                                                              *)

\* What can be listed.
Where == Dirs \cup {<<>>}
Bases == [local : [Paths -> Nat], remote : [Paths -> Nat], conflicts : SUBSET Paths,
          calm : BOOLEAN]
TypeInv ==
  /\ remote \in [Remote -> Nat] /\ local \in [Paths -> Nat]
  /\ prev \in [Keys -> Nat] /\ rMap \in [Keys -> Nat]
  /\ pc \in {"idle", "diff", "save", "apply"} /\ queue \in Seq(Where)
  /\ DiffTypes(diff) /\ edits \in Nat /\ outages \in Nat /\ calm \in BOOLEAN
  /\ base \in Bases
  /\ at \in [deleted : SUBSET {q \in Paths : ~IsDir(q)}, conflicts : SUBSET Paths]
  /\ Closed(remote) /\ Closed(local)

LEMMA SetToSeqRange ==
  ASSUME NEW S, IsFiniteSet(S)
  PROVE  /\ SetToSeq(S) \in Seq(S)
         /\ \A x \in S : \E i \in 1 .. Len(SetToSeq(S)) : SetToSeq(S)[i] = x
<1> DEFINE n == Cardinality(S)
           f == SetToSeq(S)
<1>1. n \in Nat /\ ExistsBijection(1 .. n, S) BY FS_CardinalityType
<1>2. \E g \in [1 .. n -> S] : IsInjective(g)
  BY <1>1 DEF ExistsBijection, Bijection, Injection
<1>3. f \in [1 .. n -> S] /\ IsInjective(f) BY <1>2, Zenon DEF SetToSeq
<1>4. f \in Injection(1 .. n, S) BY <1>3 DEF Injection
<1>5. IsFiniteSet(1 .. n) /\ Cardinality(1 .. n) = n
  <2>1. IsFiniteSet(1 .. n) /\ Cardinality(1 .. n) = IF 1 > n THEN 0 ELSE n - 1 + 1
    BY <1>1, FS_Interval
  <2> QED BY <2>1, <1>1
<1>6. f \in Surjection(1 .. n, S) BY <1>4, <1>5, FS_Injection
<1>7. f \in Seq(S) /\ Len(f) = n
  <2> HIDE DEF f, n
  <2> QED BY <1>1, <1>3
<1> HIDE DEF f, n
<1>8. \A x \in S : \E i \in 1 .. n : f[i] = x BY <1>6 DEF Surjection
<1> QED BY <1>7, <1>8 DEF f

LEMMA RemoteFolderTypes ==
  ASSUME remote \in [Remote -> Nat], Closed(remote)
  PROVE  RemoteFolder \in [Paths -> Nat] /\ Closed(RemoteFolder)
<1>1. \A q \in Paths : Abs(q) \in Remote BY PathFacts
<1>2. RemoteFolder \in [Paths -> Nat] BY <1>1 DEF RemoteFolder
<1>3. ASSUME NEW q \in Paths, NEW d \in Paths, Below(q, d), remote[Abs(q)] # 0
      PROVE  remote[Abs(d)] # 0
  BY <1>1, <1>3, AbsBelow DEF Closed
<1> QED BY <1>2, <1>3 DEF Closed, RemoteFolder

LEMMA InitTypes == SyncInit => TypeInv
<1> SUFFICES ASSUME SyncInit PROVE TypeInv OBVIOUS
<1>1. DiffTypes(diff) BY DEF SyncInit, DiffTypes
<1>2. Closed(remote) /\ Closed(local) BY DEF SyncInit, Closed
<1>3. queue \in Seq(Where) BY DEF SyncInit
<1>4. base \in Bases BY DEF SyncInit, NoBase, Bases
<1>5. at \in [deleted : SUBSET {q \in Paths : ~IsDir(q)}, conflicts : SUBSET Paths] BY DEF SyncInit
<1> QED BY <1>1, <1>2, <1>3, <1>4, <1>5 DEF SyncInit, TypeInv, Nothing

\* Carrying out an operation.
LEMMA PerformTypes ==
  ASSUME TypeInv, NEW o, NEW q \in Paths, Perform(o, q)
  PROVE  /\ remote' \in [Remote -> Nat] /\ local' \in [Paths -> Nat]
         /\ Closed(remote') /\ Closed(local')
<1>1. Remote \in SUBSET NameSeqs /\ Paths \in SUBSET NameSeqs BY RemotePathName, PathFacts
<1>2. /\ remote \in [Remote -> Nat] /\ local \in [Paths -> Nat] /\ Closed(remote) /\ Closed(local)
      /\ Abs(q) \in Remote
  BY PathFacts DEF TypeInv
<1>3. CASE remote[Abs(q)] # 0 /\ local' = With(local, q, remote[Abs(q)]) /\ UNCHANGED remote
  <2>1. remote[Abs(q)] \in Nat BY <1>2
  <2>2. local' \in [Paths -> Nat] /\ Closed(local') BY <2>1, <1>1, <1>2, <1>3, WithClosed
  <2> QED BY <2>2, <1>2, <1>3
<1>4. CASE local[q] # 0 /\ remote' = With(remote, Abs(q), local[q]) /\ UNCHANGED local
  <2>1. local[q] \in Nat BY <1>2
  <2>2. remote' \in [Remote -> Nat] /\ Closed(remote') BY <2>1, <1>1, <1>2, <1>4, WithClosed
  <2> QED BY <2>2, <1>2, <1>4
<1>5. CASE remote' = Without(remote, Abs(q)) /\ UNCHANGED local
  <2>1. remote' \in [Remote -> Nat] /\ Closed(remote') BY <1>1, <1>2, <1>5, WithoutClosed
  <2> QED BY <2>1, <1>2, <1>5
<1>6. CASE local' = Without(local, q) /\ UNCHANGED remote
  <2>1. local' \in [Paths -> Nat] /\ Closed(local') BY <1>1, <1>2, <1>6, WithoutClosed
  <2> QED BY <2>1, <1>2, <1>6
<1>7. CASE UNCHANGED <<local, remote>> BY <1>2, <1>7
<1> QED BY <1>3, <1>4, <1>5, <1>6, <1>7 DEF Perform

LEMMA EditTypes ==
  ASSUME TypeInv, EditLocal \/ EditRemote
  PROVE  /\ remote' \in [Remote -> Nat] /\ local' \in [Paths -> Nat]
         /\ Closed(remote') /\ Closed(local')
<1>1. Remote \in SUBSET NameSeqs /\ Paths \in SUBSET NameSeqs BY RemotePathName, PathFacts
<1>2. /\ remote \in [Remote -> Nat] /\ local \in [Paths -> Nat] /\ Closed(remote) /\ Closed(local)
      /\ edits + 1 \in Nat /\ edits + 1 # 0
  BY DEF TypeInv
<1>3. CASE EditLocal
  <2>1. PICK q \in Paths : local' = With(local, q, edits + 1) \/ local' = Without(local, q)
    BY <1>3 DEF EditLocal
  <2>2. local' \in [Paths -> Nat] /\ Closed(local')
    <3>1. CASE local' = With(local, q, edits + 1) BY <3>1, <1>1, <1>2, WithClosed
    <3>2. CASE local' = Without(local, q) BY <3>2, <1>1, <1>2, WithoutClosed
    <3> QED BY <2>1, <3>1, <3>2
  <2> QED BY <2>2, <1>2, <1>3 DEF EditLocal
<1>4. CASE EditRemote
  <2>1. PICK p \in Remote : \/ remote' = With(remote, p, IF p \in Files THEN edits + 1 ELSE 1)
                            \/ remote' = Without(remote, p)
    BY <1>4 DEF EditRemote
  <2>2. (IF p \in Files THEN edits + 1 ELSE 1) \in Nat /\ (IF p \in Files THEN edits + 1 ELSE 1) # 0
    BY <1>2
  <2>3. remote' \in [Remote -> Nat] /\ Closed(remote')
    <3>1. CASE remote' = With(remote, p, IF p \in Files THEN edits + 1 ELSE 1)
      BY <3>1, <2>2, <1>1, <1>2, WithClosed
    <3>2. CASE remote' = Without(remote, p) BY <3>2, <1>1, <1>2, WithoutClosed
    <3> QED BY <2>1, <3>1, <3>2
  <2> QED BY <2>3, <1>2, <1>4 DEF EditRemote
<1> QED BY <1>3, <1>4

LEMMA ListTypes ==
  ASSUME TypeInv, ListDir
  PROVE  rMap' \in [Keys -> Nat] /\ queue' \in Seq(Where)
<1> DEFINE kids == Children(Head(queue))
<1>1. kids \subseteq Remote BY DEF Children
<1>2. IsFiniteSet(kids \cap Dirs) BY <1>1, SyncConstants, FS_Subset
<1>3. SetToSeq(kids \cap Dirs) \in Seq(kids \cap Dirs) BY <1>2, SetToSeqRange
<1>4. SetToSeq(kids \cap Dirs) \in Seq(Where) BY <1>3 DEF Where
<1>5. queue' = Tail(queue) \o SetToSeq(kids \cap Dirs) BY DEF ListDir
<1>6. Tail(queue) \in Seq(Where) BY DEF TypeInv, ListDir
<1>7. ASSUME NEW k \in Keys PROVE rMap'[k] \in Nat /\ rMap' = [x \in Keys |-> rMap'[x]]
  <2>1. rMap' = [x \in Keys |-> LET from == {p \in kids : Relative(p) = x}
                                IN  IF from = {} THEN rMap[x] ELSE remote[CHOOSE p \in from : TRUE]]
    BY DEF ListDir
  <2> DEFINE from == {p \in kids : Relative(p) = k}
  <2>2. rMap'[k] = IF from = {} THEN rMap[k] ELSE remote[CHOOSE p \in from : TRUE] BY <2>1
  <2>3. from # {} => (CHOOSE p \in from : TRUE) \in Remote BY <1>1
  <2> QED BY <2>1, <2>2, <2>3 DEF TypeInv
<1>8. rMap' \in [Keys -> Nat]
  <2>1. rMap' = [x \in Keys |-> rMap'[x]] BY DEF ListDir
  <2> QED BY <2>1, <1>7
<1> QED BY <1>4, <1>5, <1>6, <1>8

LEMMA RelType ==
  ASSUME NEW t \in [Keys -> Nat]
  PROVE  [q \in Paths |-> t[q]] \in [Paths -> Nat]
BY DEF Keys

\* What the walk finds is the local folder unless something could not be read.
LEMMA WalkFinds ==
  ASSUME TypeInv, GetDiff
  PROVE  \E m \in [Paths -> Nat] :
           /\ diff' = findDelta([q \in Paths |-> rMap[q]], m, [q \in Paths |-> prev[q]])
           /\ outages' \in Nat /\ (outages' = 0 => outages = 0)
           /\ calm' \in BOOLEAN /\ (calm' => calm /\ m = local)
<1>1. PICK U \in SUBSET ({<<>>} \cup In(local)) :
        /\ Outages(Cardinality(U)) /\ calm' = (calm /\ U = {})
        /\ diff' = findDelta([q \in Paths |-> rMap[q]], getLocalFileMap(U), [q \in Paths |-> prev[q]])
  BY DEF GetDiff
<1>2. local \in [Paths -> Nat] /\ outages \in Nat BY DEF TypeInv
<1>3. IsFiniteSet(Paths)
  <2>1. IsFiniteSet(Synced) BY SyncConstants, FS_Subset DEF Synced
  <2>2. [p \in Synced |-> Strip(p)] \in Surjection(Synced, Paths) BY DEF Surjection, Paths
  <2> QED BY <2>1, <2>2, FS_Surjection
<1>4. IsFiniteSet(U)
  <2>1. IsFiniteSet({<<>>}) BY FS_Singleton
  <2>2. IsFiniteSet({<<>>} \cup Paths) BY <2>1, <1>3, FS_Union
  <2>3. U \subseteq {<<>>} \cup Paths BY <1>2 DEF In
  <2> QED BY <2>2, <2>3, FS_Subset
<1>5. Cardinality(U) \in Nat BY <1>4, FS_CardinalityType
<1>6. outages' = outages + Cardinality(U) BY <1>1 DEF Outages
<1>7. getLocalFileMap(U) \in [Paths -> Nat] BY <1>2 DEF getLocalFileMap
<1>8. ASSUME calm' PROVE calm /\ getLocalFileMap(U) = local
  <2>1. calm /\ U = {} BY <1>1, <1>8
  <2>2. getLocalFileMap(U) = [q \in Paths |-> local[q]] BY <2>1 DEF getLocalFileMap
  <2> QED BY <2>1, <2>2, <1>2
<1>9. outages' \in Nat /\ (outages' = 0 => outages = 0) BY <1>2, <1>5, <1>6
<1>10. calm' \in BOOLEAN BY <1>1
<1> QED BY <1>1, <1>7, <1>8, <1>9, <1>10

LEMMA StepTypes ==
  ASSUME TypeInv, [SyncNext]_syncVars
  PROVE  TypeInv'
<1> USE DEF TypeInv
<1>1. CASE EditLocal \/ EditRemote
  <2>1. /\ remote' \in [Remote -> Nat] /\ local' \in [Paths -> Nat]
        /\ Closed(remote)' /\ Closed(local)'
    BY <1>1, EditTypes DEF Closed
  <2>2. edits' = edits + 1 /\ calm' = FALSE /\ UNCHANGED <<prev, pc, rMap, queue, diff, outages, base, at>>
    BY <1>1 DEF EditLocal, EditRemote, Edit, snapshot
  <2>3. DiffTypes(diff)' BY <2>2 DEF DiffTypes, IsDir
  <2>4. edits' \in Nat /\ calm' \in BOOLEAN
    <3>1. edits \in Nat BY Zenon
    <3>2. edits' = edits + 1 BY <2>2
    <3>3. edits' \in Nat BY <3>1, <3>2
    <3>4. calm' \in BOOLEAN BY <2>2
    <3> QED BY <3>3, <3>4
  <2>5. prev' = prev /\ pc' = pc /\ rMap' = rMap /\ queue' = queue /\ outages' = outages
        /\ base' = base /\ at' = at
    BY <2>2
  <2> QED BY <2>1, <2>3, <2>4, <2>5, Zenon DEF IsDir
<1>2. CASE ListDir
  <2>1. rMap' \in [Keys -> Nat] /\ queue' \in Seq(Where) BY <1>2, ListTypes
  <2> QED BY <2>1, <1>2 DEF ListDir, folders, snapshot, DiffTypes, IsDir, Closed
<1>3. CASE ListDirFails
  <2>1. queue' \in Seq(Where) BY <1>3 DEF ListDirFails
  <2> QED BY <2>1, <1>3 DEF ListDirFails, folders, snapshot, DiffTypes, IsDir, Closed
<1>4. CASE ListDirEmpty
  <2>1. queue' \in Seq(Where) BY <1>4 DEF ListDirEmpty
  <2>2. calm' \in BOOLEAN BY <1>4 DEF ListDirEmpty
  <2>3. outages' \in Nat BY <1>4 DEF ListDirEmpty
  <2>4. UNCHANGED <<remote, local, edits, prev, pc, rMap, diff, base, at>>
    BY <1>4 DEF ListDirEmpty, folders, snapshot
  <2> QED BY <2>1, <2>2, <2>3, <2>4 DEF DiffTypes, IsDir, Closed
<1>5. CASE GetAllocationDiff
  <2>1. queue' \in Seq(Where) BY <1>5, SyncConstants DEF GetAllocationDiff, Where
  <2> QED BY <2>1, <1>5 DEF GetAllocationDiff, folders, snapshot, DiffTypes, IsDir, Closed, Nothing
<1>6. CASE GetDiff
  <2>1. PICK m \in [Paths -> Nat] :
          /\ diff' = findDelta([q \in Paths |-> rMap[q]], m, [q \in Paths |-> prev[q]])
          /\ outages' \in Nat /\ calm' \in BOOLEAN
    BY <1>6, WalkFinds
  <2>2. DiffTypes(diff') BY <2>1, RelType, DeltaTypes
  <2>3. /\ at' = [deleted |-> at'.deleted, conflicts |-> at'.conflicts]
        /\ at'.deleted \subseteq {q \in Paths : ~IsDir(q)}
        /\ at'.conflicts = {x.path : x \in {y \in diff' : y.op = "Conflict"}}
    BY <1>6 DEF GetDiff
  <2>4. at'.conflicts \in SUBSET Paths BY <2>2, <2>3 DEF DiffTypes
  <2>5. at' \in [deleted : SUBSET {q \in Paths : ~IsDir(q)}, conflicts : SUBSET Paths]
    BY <2>3, <2>4
  <2> QED BY <2>1, <2>2, <2>5, <1>6 DEF GetDiff, folders, snapshot, DiffTypes, IsDir, Closed
<1>7. CASE Apply
  <2>1. PICK x \in diff : Perform(x.op, x.path) /\ diff' = diff \ {x} BY <1>7 DEF Apply
  <2>2. x.path \in Paths BY DEF DiffTypes
  <2>3. /\ remote' \in [Remote -> Nat] /\ local' \in [Paths -> Nat]
        /\ Closed(remote)' /\ Closed(local)'
    BY <2>1, <2>2, PerformTypes DEF Closed
  <2>4. DiffTypes(diff)' BY <2>1 DEF DiffTypes, IsDir
  <2> QED BY <2>3, <2>4, <1>7 DEF Apply, snapshot, IsDir
<1>8. CASE SaveRemoteSnapshot
  <2>1. queue' \in Seq(Where) BY <1>8 DEF SaveRemoteSnapshot, Where
  <2> QED BY <2>1, <1>8 DEF SaveRemoteSnapshot, folders, snapshot, DiffTypes, IsDir, Closed, Nothing
<1>9. CASE Saved
  <2>1. base' \in Bases BY <1>9, RemoteFolderTypes DEF Saved, Bases
  <2> QED BY <2>1, <1>9 DEF Saved, folders, DiffTypes, IsDir, Closed
<1>10. CASE SaveFails
  <2>1. base' \in Bases
    <3>1. NoBase \in Bases BY DEF NoBase, Bases
    <3>2. base' = base \/ base' = NoBase BY <1>10 DEF SaveFails
    <3> QED BY <3>1, <3>2
  <2>2. outages' \in Nat BY <1>10 DEF SaveFails, Outages
  <2> QED BY <2>1, <2>2, <1>10 DEF SaveFails, folders, DiffTypes, IsDir, Closed, Nothing
<1>11. CASE UNCHANGED syncVars
  BY <1>11 DEF syncVars, DiffTypes, IsDir, Closed
<1>12. CASE InvalidCache
  <2>1. UNCHANGED <<remote, local, edits, prev, pc, rMap, queue, diff, outages, base, at, calm>>
    BY <1>12 DEF InvalidCache, folders
  <2> QED BY <2>1 DEF DiffTypes, IsDir, Closed
<1>13. CASE calcFileHashFails
  BY <1>13 DEF calcFileHashFails, Outages, folders, snapshot, DiffTypes, IsDir, Closed
<1> QED BY <1>1, <1>2, <1>3, <1>4, <1>5, <1>6, <1>7, <1>8, <1>9, <1>10, <1>11, <1>12, <1>13 DEF SyncNext
-----------------------------------------------------------------------------
(* Sync: the list of the remote folder                                      *)

\* A directory that is still to be listed is above p.
Queued(p) == \E i \in 1 .. Len(queue) : Below(p, queue[i]) /\ p # queue[i]

\* A directory that is listed leaves its children, or directories that are above the rest.
LEMMA ListQueues ==
  ASSUME TypeInv, ListDir, NEW p \in Remote, remote[p] # 0, Queued(p),
         p \notin Children(Head(queue))
  PROVE  Queued(p)'
<1> DEFINE h == Head(queue)
           K == Children(h) \cap Dirs
           t == Tail(queue)
           s == SetToSeq(K)
<1>1. queue \in Seq(Where) /\ queue # <<>> BY DEF TypeInv, ListDir
<1>2. t \in Seq(Where) /\ Len(t) = Len(queue) - 1 /\ \A i \in 1 .. Len(t) : t[i] = queue[i+1] BY <1>1
<1>3. IsFiniteSet(K)
  <2>1. K \subseteq Remote BY DEF Children
  <2> QED BY <2>1, SyncConstants, FS_Subset
<1>4. s \in Seq(K) /\ \A x \in K : \E i \in 1 .. Len(s) : s[i] = x BY <1>3, SetToSeqRange
<1>5. queue' = t \o s BY DEF ListDir
<1> HIDE DEF s, K
<1>6. s \in Seq(Where)
  <2>1. K \subseteq Where BY DEF K, Where
  <2> QED BY <2>1, <1>4
<1>7. /\ Len(queue') = Len(t) + Len(s) /\ Len(t) \in Nat /\ Len(s) \in Nat
      /\ \A i \in 1 .. Len(t) : queue'[i] = t[i]
      /\ \A i \in 1 .. Len(s) : queue'[i + Len(t)] = s[i]
  BY <1>2, <1>5, <1>6
<1> HIDE DEF t, h
<1>8. PICK i \in 1 .. Len(queue) : Below(p, queue[i]) /\ p # queue[i] BY DEF Queued
<1>9. CASE i > 1
  <2>1. PICK j \in 1 .. Len(t) : i = j + 1
    <3>1. i - 1 \in 1 .. Len(t) /\ i = (i - 1) + 1 BY <1>1, <1>2, <1>9
    <3> QED BY <3>1
  <2>2. queue'[j] = queue[i] /\ j \in 1 .. Len(queue') BY <2>1, <1>2, <1>7
  <2> QED BY <2>2, <1>8 DEF Queued
<1>10. CASE i = 1
  <2>1. queue[i] = h BY <1>1, <1>10 DEF h
  <2>2. h \in Where BY <1>1, <2>1, <1>10
  <2>3. <<>> \in NameSeqs /\ Dirs \subseteq NameSeqs BY RemotePathName DEF NameSeqs, Remote
  <2>4. h \in NameSeqs /\ p \in NameSeqs BY <2>2, <2>3, RemotePathName DEF Where
  <2>5. Len(h) \in Nat /\ Len(p) \in Nat BY <2>4 DEF NameSeqs
  <2>6. IsPrefix(h, p) /\ p # h BY <2>1, <1>8 DEF Below
  <2>7. Len(h) <= Len(p) /\ Len(h) # Len(p) BY <2>4, <2>6, PrefixOrder
  <2>8. Len(p) # Len(h) + 1 BY <2>6 DEF Children, h, Below
  <2> DEFINE n == Len(h) + 1
             c == SubSeq(p, 1, n)
  <2>9. n \in Nat /\ Len(h) <= n /\ n <= Len(p) /\ n # Len(p) /\ n # 0 BY <2>5, <2>7, <2>8
  <2>10. c \in NameSeqs /\ Len(c) = n /\ IsPrefix(h, c) /\ IsPrefix(c, p)
    BY <2>4, <2>6, <2>9, Cut
  <2>11. c # p /\ c # <<>> /\ c # h BY <2>5, <2>9, <2>10
  <2>12. c \in Dirs BY <2>10, <2>11, AboveIsDir DEF Below
  <2>13. c \in Remote /\ remote[c] # 0 BY <2>12, <2>10 DEF Remote, TypeInv, Closed, Below
  <2>14. c \in K BY <2>10, <2>11, <2>12, <2>13 DEF K, Children, Below
  <2>15. PICK j \in 1 .. Len(s) : s[j] = c BY <2>14, <1>4
  <2>16. j + Len(t) \in 1 .. Len(queue') /\ queue'[j + Len(t)] = c BY <2>15, <1>7
  <2> QED BY <2>16, <2>10, <2>11 DEF Queued, Below
<1> QED BY <1>1, <1>9, <1>10

\* What the step writes down.
LEMMA ListWrites ==
  ASSUME TypeInv, ListDir, NEW k \in Keys
  PROVE  /\ \/ rMap'[k] = rMap[k] /\ \A p \in Children(Head(queue)) : Relative(p) # k
            \/ \E p \in Children(Head(queue)) : Relative(p) = k /\ rMap'[k] = remote[p]
<1> DEFINE kids == Children(Head(queue))
           from == {p \in kids : Relative(p) = k}
<1>1. rMap' = [x \in Keys |-> LET F == {p \in kids : Relative(p) = x}
                              IN  IF F = {} THEN rMap[x] ELSE remote[CHOOSE p \in F : TRUE]]
  BY DEF ListDir
<1>2. rMap'[k] = IF from = {} THEN rMap[k] ELSE remote[CHOOSE p \in from : TRUE] BY <1>1
<1>3. CASE from = {} BY <1>2, <1>3
<1>4. CASE from # {}
  <2> DEFINE c == CHOOSE p \in from : TRUE
  <2>1. c \in from BY <1>4
  <2>2. rMap'[k] = remote[c] BY <1>2, <1>4
  <2> HIDE DEF c
  <2> QED BY <2>1, <2>2
<1> QED BY <1>3, <1>4

\* The list covers the folder, and is right about what it has found.
Scan ==
  \A p \in Synced : /\ remote[p] # 0 => rMap[Strip(p)] = remote[p] \/ Queued(p)
                    /\ rMap[Strip(p)] # 0 => rMap[Strip(p)] = remote[p]
\* Below the folder that is synchronised, as long as nothing is edited or out.
ScanInv ==
  pc = "diff" => /\ \A i \in 1 .. Len(queue) : Below(queue[i], RemotePath)
                 /\ calm => Scan

\* Paths below the root are the paths of the allocation.
LEMMA RootStrip ==
  ASSUME RemotePath = <<>>, NEW p \in Synced
  PROVE  Strip(p) = p
<1>1. p \in NameSeqs BY RemotePathName DEF Synced
<1> QED BY <1>1 DEF Strip, NameSeqs

LEMMA ListScan ==
  ASSUME TypeInv, ListDir, pc = "diff" \/ RemotePath = <<>>,
         \A i \in 1 .. Len(queue) : Below(queue[i], RemotePath)
  PROVE  /\ \A i \in 1 .. Len(queue') : Below(queue'[i], RemotePath)
         /\ Scan => Scan'
<1> DEFINE h == Head(queue)
           kids == Children(h)
<1>1. queue \in Seq(Where) /\ queue # <<>> BY DEF TypeInv, ListDir
<1>2. h \in Where /\ Below(h, RemotePath) BY <1>1
<1>3. h \in NameSeqs /\ RemotePath \in NameSeqs
  <2>1. <<>> \in NameSeqs /\ Dirs \subseteq NameSeqs BY RemotePathName DEF NameSeqs, Remote
  <2> QED BY <2>1, <1>2, RemotePathName DEF Where
<1>4. ASSUME NEW p \in kids PROVE p \in Synced
  <2>1. p \in Remote /\ p # h /\ Below(p, h) BY DEF Children
  <2>2. p \in NameSeqs BY <2>1, RemotePathName
  <2>3. Below(p, RemotePath) BY <2>1, <2>2, <1>2, <1>3, PrefixOrder DEF Below
  <2>4. p # RemotePath BY <2>1, <2>2, <1>2, <1>3, PrefixOrder DEF Below
  <2> QED BY <2>1, <2>3, <2>4 DEF Synced
<1>5. ASSUME NEW i \in 1 .. Len(queue') PROVE Below(queue'[i], RemotePath)
  <2> DEFINE K == kids \cap Dirs
             s == SetToSeq(K)
             t == Tail(queue)
  <2>1. t \in Seq(Where) /\ Len(t) = Len(queue) - 1 /\ \A j \in 1 .. Len(t) : t[j] = queue[j+1] BY <1>1
  <2>2. IsFiniteSet(K)
    <3>1. K \subseteq Remote BY DEF Children
    <3> QED BY <3>1, SyncConstants, FS_Subset
  <2>3. s \in Seq(K) BY <2>2, SetToSeqRange
  <2>4. queue' = t \o s BY DEF ListDir
  <2>5. \A x \in K : Below(x, RemotePath) BY <1>4 DEF Synced
  <2> HIDE DEF s, K, t
  <2>6. CASE i \in 1 .. Len(t)
    <3>1. queue'[i] = queue[i+1] /\ i+1 \in 1 .. Len(queue) BY <2>1, <2>3, <2>4, <2>6, <1>1
    <3> QED BY <3>1
  <2>7. CASE i \notin 1 .. Len(t)
    <3>1. i - Len(t) \in 1 .. Len(s) /\ queue'[i] = s[i - Len(t)] BY <2>1, <2>3, <2>4, <2>7
    <3>2. s[i - Len(t)] \in K BY <3>1, <2>3
    <3> QED BY <3>1, <3>2, <2>5
  <2> QED BY <2>6, <2>7
<1>6. ASSUME Scan, NEW p \in Synced
      PROVE  /\ remote[p] # 0 => rMap'[Strip(p)] = remote[p] \/ Queued(p)'
             /\ rMap'[Strip(p)] # 0 => rMap'[Strip(p)] = remote[p]
  <2>1. Strip(p) \in Keys /\ p \in Remote BY StripAbs DEF Keys, Synced
  <2>2. \A c \in kids : Relative(c) = Strip(c) BY <1>4, RootStrip DEF Relative
  <2>3. \A c \in kids : Strip(c) = Strip(p) => c = p BY <1>4, StripAbs
  <2>4. CASE p \in kids
    <3>1. \E c \in kids : Relative(c) = Strip(p) /\ rMap'[Strip(p)] = remote[c]
      BY <2>1, <2>2, <2>4, ListWrites
    <3>2. rMap'[Strip(p)] = remote[p] BY <3>1, <2>2, <2>3
    <3> QED BY <3>2
  <2>5. CASE p \notin kids
    <3>1. rMap'[Strip(p)] = rMap[Strip(p)] BY <2>1, <2>2, <2>3, <2>5, ListWrites
    <3>2. remote[p] # 0 /\ Queued(p) => Queued(p)' BY <2>1, <2>5, ListQueues
    <3> QED BY <3>1, <3>2, <1>6 DEF Scan
  <2> QED BY <2>4, <2>5
<1>7. remote' = remote BY DEF ListDir, folders
<1>8. Scan => Scan' BY <1>6, <1>7 DEF Scan
<1> QED BY <1>5, <1>8

LEMMA InitScan == SyncInit => ScanInv
BY DEF SyncInit, ScanInv

LEMMA StepScan ==
  ASSUME TypeInv, ScanInv, [SyncNext]_syncVars
  PROVE  ScanInv'
<1>1. CASE EditLocal \/ EditRemote
  BY <1>1 DEF EditLocal, EditRemote, Edit, ScanInv
<1>2. CASE ListDir
  <2>1. pc' = pc /\ calm' = calm BY <1>2 DEF ListDir
  <2>2. CASE pc = "diff"
    <3>1. \A i \in 1 .. Len(queue) : Below(queue[i], RemotePath) BY <2>2 DEF ScanInv
    <3>2. /\ \A i \in 1 .. Len(queue') : Below(queue'[i], RemotePath)
          /\ Scan => Scan'
      BY <3>1, <2>2, <1>2, ListScan
    <3> QED BY <3>2, <2>1, <2>2 DEF ScanInv
  <2>3. CASE pc # "diff" BY <2>1, <2>3 DEF ScanInv
  <2> QED BY <2>2, <2>3
<1>3. CASE ListDirFails BY <1>3 DEF ListDirFails, ScanInv
<1>4. CASE ListDirEmpty
  <2>1. calm' = FALSE BY <1>4 DEF ListDirEmpty
  <2>2. queue \in Seq(Where) /\ queue # <<>> /\ queue' = Tail(queue) /\ pc' = pc
    BY <1>4 DEF ListDirEmpty, TypeInv
  <2>3. \A i \in 1 .. Len(queue') : i + 1 \in 1 .. Len(queue) /\ queue'[i] = queue[i+1] BY <2>2
  <2> QED BY <2>1, <2>2, <2>3 DEF ScanInv
<1>5. CASE GetAllocationDiff
  <2>1. queue' = <<RemotePath>> /\ rMap' = Nothing /\ remote' = remote /\ pc' = "diff"
    BY <1>5 DEF GetAllocationDiff, folders
  <2>2. Below(RemotePath, RemotePath) BY RemotePathName, PrefixOrder DEF Below
  <2>3. \A i \in 1 .. Len(queue') : Below(queue'[i], RemotePath) BY <2>1, <2>2
  <2>4. ASSUME NEW p \in Synced PROVE Queued(p)' /\ rMap'[Strip(p)] = 0
    <3>1. 1 \in 1 .. Len(queue') /\ queue'[1] = RemotePath BY <2>1
    <3>2. Queued(p)' BY <3>1 DEF Queued, Synced
    <3>3. Strip(p) \in Keys BY StripAbs DEF Keys
    <3> QED BY <3>2, <3>3, <2>1 DEF Nothing
  <2>5. Scan' BY <2>4 DEF Scan
  <2> QED BY <2>3, <2>5 DEF ScanInv
<1>6. CASE GetDiff BY <1>6 DEF GetDiff, ScanInv
<1>7. CASE Apply BY <1>7 DEF Apply, ScanInv
<1>8. CASE SaveRemoteSnapshot BY <1>8 DEF SaveRemoteSnapshot, ScanInv
<1>9. CASE Saved BY <1>9 DEF Saved, ScanInv
<1>10. CASE SaveFails BY <1>10 DEF SaveFails, ScanInv
<1>11. CASE UNCHANGED syncVars BY <1>11 DEF syncVars, ScanInv, Scan, Queued
<1>12. CASE InvalidCache BY <1>12 DEF InvalidCache, ScanInv
<1>13. CASE calcFileHashFails BY <1>13 DEF calcFileHashFails, ScanInv
<1> QED BY <1>1, <1>2, <1>3, <1>4, <1>5, <1>6, <1>7, <1>8, <1>9, <1>10, <1>11, <1>12, <1>13 DEF SyncNext
-----------------------------------------------------------------------------
(* Sync: the difference is carried out                                      *)

\* The operations that are left fit the folders as they are now, and settle what still
\* differs.
ApplyInv ==
  /\ pc = "apply" /\ calm =>
       Sound(diff, local, RemoteFolder) /\ Settles(diff, at.conflicts, local, RemoteFolder)
  /\ pc = "save" /\ calm => Settles({}, at.conflicts, local, RemoteFolder)

LEMMA PerformMoves ==
  ASSUME TypeInv, NEW o, NEW q \in Paths, Perform(o, q)
  PROVE  Moves(local, RemoteFolder, local', RemoteFolder', o, q)
<1>1. remote \in [Remote -> Nat] /\ \A x \in Paths : Abs(x) \in Remote BY PathFacts DEF TypeInv
<1>2. RemoteFolder = [x \in Paths |-> remote[Abs(x)]] /\ RemoteFolder' = [x \in Paths |-> remote'[Abs(x)]]
  BY DEF RemoteFolder, Abs
<1>3. ASSUME NEW v, remote' = With(remote, Abs(q), v) PROVE RemoteFolder' = With(RemoteFolder, q, v)
  <2>1. \A x \in Paths : remote'[Abs(x)] = IF Abs(x) = Abs(q) THEN v
                                           ELSE IF Below(Abs(q), Abs(x)) THEN 1 ELSE remote[Abs(x)]
    BY <1>1, <1>3 DEF With
  <2>2. \A x \in Paths : remote'[Abs(x)] = IF x = q THEN v
                                           ELSE IF Below(q, x) THEN 1 ELSE remote[Abs(x)]
    BY <2>1, AbsEqual, AbsBelow
  <2> QED BY <2>2, <1>2 DEF With
<1>4. ASSUME remote' = Without(remote, Abs(q)) PROVE RemoteFolder' = Without(RemoteFolder, q)
  <2>1. \A x \in Paths : remote'[Abs(x)] = IF Below(Abs(x), Abs(q)) THEN 0 ELSE remote[Abs(x)]
    BY <1>1, <1>4 DEF Without
  <2>2. \A x \in Paths : remote'[Abs(x)] = IF Below(x, q) THEN 0 ELSE remote[Abs(x)]
    BY <2>1, AbsBelow
  <2> QED BY <2>2, <1>2 DEF Without
<1>5. remote' = remote => RemoteFolder' = RemoteFolder BY <1>2
<1>6. RemoteFolder[q] = remote[Abs(q)] BY <1>2
<1> QED BY <1>3, <1>4, <1>5, <1>6 DEF Perform, Moves

\* With a complete list, the map that is compared is the remote folder.
LEMMA ScanComplete ==
  ASSUME TypeInv, ScanInv, pc = "diff", queue = <<>>, calm
  PROVE  [q \in Paths |-> rMap[q]] = RemoteFolder
<1>1. ASSUME NEW q \in Paths PROVE rMap[q] = remote[Abs(q)]
  <2>1. Abs(q) \in Synced /\ Strip(Abs(q)) = q BY PathFacts
  <2>2. ~Queued(Abs(q)) BY DEF Queued
  <2> QED BY <2>1, <2>2 DEF ScanInv, Scan
<1> QED BY <1>1 DEF RemoteFolder

LEMMA InitApply == SyncInit => ApplyInv
BY DEF SyncInit, ApplyInv

LEMMA GetDiffApply ==
  ASSUME TypeInv, ScanInv, GetDiff
  PROVE  ApplyInv'
<1> DEFINE r == [q \in Paths |-> rMap[q]]
           p == [q \in Paths |-> prev[q]]
<1>1. /\ pc = "diff" /\ queue = <<>> /\ pc' = "apply"
      /\ local' = local /\ remote' = remote
      /\ at'.conflicts = {x.path : x \in {y \in diff' : y.op = "Conflict"}}
  BY DEF GetDiff, folders
<1>2. r \in [Paths -> Nat] /\ p \in [Paths -> Nat] /\ local \in [Paths -> Nat] BY RelType DEF TypeInv
<1>3. RemoteFolder' = RemoteFolder BY <1>1 DEF RemoteFolder
<1>4. calm' => calm /\ diff' = findDelta(r, local, p) BY WalkFinds
<1> HIDE DEF r, p
<1>5. ASSUME calm'
      PROVE  Sound(diff', local, RemoteFolder) /\ Settles(diff', at'.conflicts, local, RemoteFolder)
  <2>1. r = RemoteFolder /\ diff' = findDelta(r, local, p) BY <1>1, <1>4, <1>5, ScanComplete DEF r
  <2>2. Closed(RemoteFolder) BY RemoteFolderTypes DEF TypeInv
  <2>3. /\ Fits(diff', local, RemoteFolder) /\ Empty(diff', "LocalDelete", RemoteFolder)
        /\ Empty(diff', "Delete", local)
    BY <2>1, <2>2, <1>2, DeltaSound DEF TypeInv
  <2>4. Settles(diff', at'.conflicts, local, RemoteFolder)
    <3> DEFINE C == {x.path : x \in {y \in diff' : y.op = "Conflict"}}
    <3>1. \A D : D = findDelta(r, local, p) =>
                 Settles(D, {x.path : x \in {y \in D : y.op = "Conflict"}}, local, r)
      BY <1>2, DeltaSettles
    <3>2. Settles(diff', C, local, r) BY <3>1, <2>1
    <3> HIDE DEF C
    <3>3. C = at'.conflicts BY <1>1 DEF C
    <3> QED BY <3>2, <3>3, <2>1
  <2> QED BY <2>3, <2>4 DEF Sound
<1>6. calm' => Sound(diff', local', RemoteFolder')
               /\ Settles(diff', at'.conflicts, local', RemoteFolder')
  BY <1>1, <1>3, <1>5
<1> QED BY <1>1, <1>6 DEF ApplyInv, Sound, Empty, Fits, Settles, Covers, IsDir, Abs

LEMMA ApplyApply ==
  ASSUME TypeInv, ApplyInv, Apply
  PROVE  ApplyInv'
<1>1. PICK x \in diff : First(diff, x) /\ Perform(x.op, x.path) /\ diff' = diff \ {x}
  BY DEF Apply, First
<1>2. pc = "apply" /\ pc' = pc /\ calm' = calm /\ at' = at BY DEF Apply
<1>3. DiffTypes(diff) /\ x.path \in Paths BY DEF TypeInv, DiffTypes
<1>4. local \in [Paths -> Nat] /\ RemoteFolder \in [Paths -> Nat] BY RemoteFolderTypes DEF TypeInv
<1>5. Moves(local, RemoteFolder, local', RemoteFolder', x.op, x.path) BY <1>1, <1>3, PerformMoves
<1>6. ASSUME calm
      PROVE  Sound(diff', local', RemoteFolder') /\ Settles(diff', at.conflicts, local', RemoteFolder')
  <2>1. Sound(diff, local, RemoteFolder) /\ Settles(diff, at.conflicts, local, RemoteFolder)
    BY <1>2, <1>6 DEF ApplyInv
  <2>2. Empty(diff, "LocalDelete", RemoteFolder) /\ Empty(diff, "Delete", local) BY <2>1 DEF Sound
  <2>6. Empty(diff \ {x}, "Delete", local') BY <2>2, <1>1, <1>3, <1>4, <1>5, MoveKeepsDeletes
  <2>3. Empty(diff \ {x}, "LocalDelete", RemoteFolder')
    BY <2>2, <1>1, <1>3, <1>4, <1>5, MoveKeepsLocalDeletes
  <2>4. Fits(diff \ {x}, local', RemoteFolder')
    BY <2>1, <1>1, <1>3, <1>4, <1>5, MoveKeepsFits
  <2>5. Settles(diff \ {x}, at.conflicts, local', RemoteFolder')
    BY <2>1, <1>1, <1>3, <1>4, <1>5, MoveKeepsSettles
  <2> QED BY <2>3, <2>4, <2>5, <2>6, <1>1 DEF Sound
<1> QED BY <1>2, <1>6 DEF ApplyInv, Sound, Empty, Fits, Settles, Covers, IsDir, Abs

LEMMA StepApply ==
  ASSUME TypeInv, ScanInv, ApplyInv, [SyncNext]_syncVars
  PROVE  ApplyInv'
<1>1. CASE EditLocal \/ EditRemote
  BY <1>1 DEF EditLocal, EditRemote, Edit, ApplyInv
<1>2. ASSUME UNCHANGED <<remote, local, pc, diff, at, calm>> PROVE ApplyInv'
  BY <1>2 DEF ApplyInv, RemoteFolder, Sound, Empty, Fits, Settles, Covers, IsDir, Abs
<1>3. CASE ListDir BY <1>3, <1>2 DEF ListDir, folders
<1>4. CASE ListDirFails BY <1>4 DEF ListDirFails, ApplyInv
<1>5. CASE ListDirEmpty BY <1>5 DEF ListDirEmpty, ApplyInv
<1>6. CASE GetAllocationDiff BY <1>6 DEF GetAllocationDiff, ApplyInv
<1>7. CASE GetDiff BY <1>7, GetDiffApply
<1>8. CASE Apply BY <1>8, ApplyApply
<1>9. CASE SaveRemoteSnapshot
  BY <1>9 DEF SaveRemoteSnapshot, folders, ApplyInv, RemoteFolder, Settles, Covers, IsDir, Abs
<1>10. CASE Saved BY <1>10 DEF Saved, ApplyInv
<1>11. CASE SaveFails BY <1>11 DEF SaveFails, ApplyInv
<1>12. CASE UNCHANGED syncVars BY <1>12, <1>2 DEF syncVars
<1>13. CASE InvalidCache BY <1>13 DEF InvalidCache, ApplyInv
<1>14. CASE calcFileHashFails BY <1>14 DEF calcFileHashFails, ApplyInv
<1> QED BY <1>1, <1>3, <1>4, <1>5, <1>6, <1>7, <1>8, <1>9, <1>10, <1>11, <1>12, <1>13, <1>14 DEF SyncNext

LEMMA SyncInvariant == SyncSpec => [](TypeInv /\ ScanInv /\ ApplyInv)
<1>1. SyncInit => TypeInv /\ ScanInv /\ ApplyInv BY InitTypes, InitScan, InitApply
<1>2. TypeInv /\ ScanInv /\ ApplyInv /\ [SyncNext]_syncVars => (TypeInv /\ ScanInv /\ ApplyInv)'
  BY StepTypes, StepScan, StepApply
<1> QED BY <1>1, <1>2, PTL DEF SyncSpec

\* When nothing is edited during a sync and its lists are complete, carrying out what
\* GetAllocationDiff returns, in its order, makes the files of the two folders equal but for
\* the conflicts, whatever is synchronised and however often, and whatever earlier lists and
\* snapshots missed (sync.go:187-290).
THEOREM SyncConverges == SyncSpec => []Converges
<1>1. ApplyInv => Converges
  BY DEF ApplyInv, Settles, Converges, Done, RemoteFolder
<1> QED BY <1>1, SyncInvariant, PTL
-----------------------------------------------------------------------------
(* Sync: deletions                                                          *)

\* The version of a file is the number of an edit.
FreshInv == \A q \in Paths : ~IsDir(q) => local[q] <= edits /\ remote[Abs(q)] <= edits

\* What both folders had when the snapshot was made is in the snapshot.
Remembered ==
  \A q \in Paths : ~IsDir(q) /\ base.local[q] # 0 /\ base.local[q] = base.remote[q] => prev[q] # 0
\* What both folders have is in the list or is still to be listed.
Recorded ==
  \A q \in Paths : ~IsDir(q) /\ local[q] # 0 /\ local[q] = remote[Abs(q)] => rMap[q] # 0 \/ Queued(q)
SnapInv == outages = 0 => Remembered /\ (pc = "save" => Recorded)

\* What was deleted on one side is gone or below a deletion that is left.
DeletedInv ==
  /\ pc = "apply" /\ calm /\ outages = 0 => Removes(diff, at.deleted, local, RemoteFolder)
  /\ pc = "save" /\ calm /\ outages = 0 => Removes({}, at.deleted, local, RemoteFolder)

\* An edit is of one side, with a version of its own.
LEMMA EditApart ==
  ASSUME TypeInv, FreshInv, EditLocal \/ EditRemote, NEW q \in Paths, ~IsDir(q)
  PROVE  /\ local'[q] <= edits' /\ remote'[Abs(q)] <= edits'
         /\ local'[q] # 0 /\ local'[q] = remote'[Abs(q)] =>
              local'[q] = local[q] /\ remote'[Abs(q)] = remote[Abs(q)]
<1>1. /\ local \in [Paths -> Nat] /\ remote \in [Remote -> Nat] /\ edits \in Nat
      /\ local[q] \in Nat /\ remote[Abs(q)] \in Nat /\ Abs(q) \in Remote
  BY PathFacts DEF TypeInv
<1>2. local[q] <= edits /\ remote[Abs(q)] <= edits BY DEF FreshInv
<1>3. edits' = edits + 1 BY Zenon DEF EditLocal, EditRemote, Edit
<1>4. CASE EditLocal
  <2>1. remote' = remote BY <1>4 DEF EditLocal
  <2>2. PICK x \in Paths : local' = With(local, x, edits + 1) \/ local' = Without(local, x)
    BY <1>4 DEF EditLocal
  <2>3. local'[q] = edits + 1 \/ local'[q] = local[q] \/ local'[q] = 0
    <3>1. CASE local' = Without(local, x) BY <3>1, <1>1, WithoutAt
    <3>2. CASE local' = With(local, x, edits + 1) /\ q = x BY <3>2, <1>1, WithAt
    <3>3. CASE local' = With(local, x, edits + 1) /\ q # x
      <4>1. local'[q] = local[q] BY <3>3, <1>1, WithAtFile
      <4> QED BY <4>1
    <3> QED BY <2>2, <3>1, <3>2, <3>3
  <2> QED BY <2>1, <2>3, <1>1, <1>2, <1>3
<1>5. CASE EditRemote
  <2>1. local' = local BY <1>5 DEF EditRemote
  <2>2. PICK p \in Remote : \/ remote' = With(remote, p, IF p \in Files THEN edits + 1 ELSE 1)
                            \/ remote' = Without(remote, p)
    BY <1>5 DEF EditRemote
  <2>3. Abs(q) \in Files BY <1>1 DEF IsDir, Remote
  <2>4. remote'[Abs(q)] = edits + 1 \/ remote'[Abs(q)] = remote[Abs(q)] \/ remote'[Abs(q)] = 0
    <3>1. CASE remote' = Without(remote, p) BY <3>1, <1>1 DEF Without
    <3>2. CASE remote' = With(remote, p, IF p \in Files THEN edits + 1 ELSE 1) /\ Abs(q) = p
      BY <3>2, <2>3, <1>1 DEF With
    <3>3. CASE remote' = With(remote, p, IF p \in Files THEN edits + 1 ELSE 1) /\ Abs(q) # p
      <4>1. Abs(q) \in NameSeqs /\ Abs(q) # <<>> BY <1>1, PathFacts, SyncConstants
      <4>2. ~Below(p, Abs(q)) BY <4>1, <2>3, <3>3, AboveIsDir, SyncConstants
      <4>3. remote'[Abs(q)] = remote[Abs(q)] BY <4>2, <3>3, <1>1 DEF With
      <4> QED BY <4>3
    <3> QED BY <2>2, <3>1, <3>2, <3>3
  <2> QED BY <2>1, <2>4, <1>1, <1>2, <1>3
<1> QED BY <1>4, <1>5

LEMMA InitFresh == SyncInit => FreshInv
<1>1. \A q \in Paths : Abs(q) \in Remote BY PathFacts
<1> QED BY <1>1 DEF SyncInit, FreshInv

\* The version is copied from one side to the other.
LEMMA MoveFresh ==
  ASSUME NEW l \in [Paths -> Nat], NEW r \in [Paths -> Nat], NEW m, NEW s, NEW o, NEW x \in Paths,
         Moves(l, r, m, s, o, x), NEW q \in Paths, ~IsDir(q)
  PROVE  m[q] \in {0, l[q], r[q]} /\ s[q] \in {0, l[q], r[q]}
<1>1. ASSUME NEW t \in [Paths -> Nat], NEW v PROVE With(t, x, v)[q] = IF q = x THEN v ELSE t[q]
  BY WithAt, WithAtFile
<1>2. \A t \in [Paths -> Nat] : Without(t, x)[q] \in {0, t[q]} BY WithoutAt
<1>3. CASE m = With(l, x, r[x]) /\ s = r BY <1>1, <1>3
<1>4. CASE s = With(r, x, l[x]) /\ m = l BY <1>1, <1>4
<1>5. CASE s = Without(r, x) /\ m = l BY <1>2, <1>5
<1>6. CASE m = Without(l, x) /\ s = r BY <1>2, <1>6
<1>7. CASE m = l /\ s = r BY <1>7
<1> QED BY <1>3, <1>4, <1>5, <1>6, <1>7 DEF Moves

LEMMA StepFresh ==
  ASSUME TypeInv, FreshInv, [SyncNext]_syncVars
  PROVE  FreshInv'
<1>1. CASE EditLocal \/ EditRemote
  <2>1. \A q \in Paths : ~IsDir(q) => local'[q] <= edits' /\ remote'[Abs(q)] <= edits'
    BY <1>1, EditApart
  <2> QED BY <2>1 DEF FreshInv, IsDir, Abs
<1>2. CASE UNCHANGED <<remote, local, edits>> BY <1>2 DEF FreshInv, IsDir, Abs
<1>3. CASE Apply
  <2>1. PICK x \in diff : Perform(x.op, x.path) BY <1>3 DEF Apply
  <2>2. x.path \in Paths BY DEF TypeInv, DiffTypes
  <2>3. Moves(local, RemoteFolder, local', RemoteFolder', x.op, x.path) BY <2>1, <2>2, PerformMoves
  <2>4. local \in [Paths -> Nat] /\ RemoteFolder \in [Paths -> Nat] BY RemoteFolderTypes DEF TypeInv
  <2>5. ASSUME NEW q \in Paths, ~IsDir(q) PROVE local'[q] <= edits /\ remote'[Abs(q)] <= edits
    <3>1. local'[q] \in {0, local[q], RemoteFolder[q]} /\ RemoteFolder'[q] \in {0, local[q], RemoteFolder[q]}
      BY <2>2, <2>3, <2>4, <2>5, MoveFresh
    <3>2. RemoteFolder[q] = remote[Abs(q)] /\ RemoteFolder'[q] = remote'[Abs(q)]
      BY DEF RemoteFolder, Abs
    <3>3. local[q] <= edits /\ remote[Abs(q)] <= edits /\ edits \in Nat BY <2>5 DEF FreshInv, TypeInv
    <3> QED BY <3>1, <3>2, <3>3
  <2>6. edits' = edits BY <1>3 DEF Apply
  <2> QED BY <2>5, <2>6 DEF FreshInv, IsDir, Abs
<1> QED BY <1>1, <1>2, <1>3 DEF SyncNext, syncVars, folders, ListDir, ListDirFails, ListDirEmpty,
       GetAllocationDiff, InvalidCache, GetDiff, calcFileHashFails, SaveRemoteSnapshot, Saved, SaveFails

LEMMA RootPaths ==
  ASSUME RemotePath = <<>>, NEW q \in Paths
  PROVE  Abs(q) = q /\ q \in Remote /\ q # <<>> /\ Below(q, <<>>)
<1>1. q \in NameSeqs /\ Abs(q) \in Synced /\ Abs(q) \in Remote BY PathFacts
<1>2. <<>> \o q = q BY <1>1 DEF NameSeqs
<1>3. Abs(q) = q BY <1>2 DEF Abs
<1> QED BY <1>1, <1>3 DEF Synced

LEMMA InitSnap == SyncInit => SnapInv
BY DEF SyncInit, SnapInv, Remembered, NoBase

LEMMA StepSnap ==
  ASSUME RemotePath = <<>>, TypeInv, FreshInv, SnapInv, [SyncNext]_syncVars
  PROVE  SnapInv'
<1>1. CASE EditLocal \/ EditRemote
  <2>1. UNCHANGED <<prev, pc, rMap, queue, outages, base>> BY <1>1 DEF EditLocal, EditRemote, Edit, snapshot
  <2>2. \A q \in Paths : ~IsDir(q) /\ local'[q] # 0 /\ local'[q] = remote'[Abs(q)] =>
              local'[q] = local[q] /\ remote'[Abs(q)] = remote[Abs(q)]
    BY <1>1, EditApart
  <2>3. Recorded => Recorded' BY <2>1, <2>2 DEF Recorded, Queued, IsDir, Abs
  <2> QED BY <2>1, <2>3 DEF SnapInv, Remembered, IsDir, Abs
<1>2. CASE ListDir
  <2>1. UNCHANGED <<remote, local, prev, pc, outages, base>> BY <1>2 DEF ListDir, folders, snapshot
  <2>2. ASSUME pc = "save", Recorded, NEW q \in Paths, ~IsDir(q), local[q] # 0, local[q] = remote[Abs(q)]
        PROVE  rMap'[q] # 0 \/ Queued(q)'
    <3>1. Abs(q) = q /\ q \in Remote /\ remote[q] # 0 /\ q \in Keys BY <2>2, RootPaths, PathFacts
    <3>2. \A p \in Children(Head(queue)) : Relative(p) = p /\ remote[p] # 0
      BY <2>2 DEF Relative, Children
    <3>3. CASE q \in Children(Head(queue))
      <4>1. \E p \in Children(Head(queue)) : Relative(p) = q /\ rMap'[q] = remote[p]
        BY <3>1, <3>2, <3>3, <1>2, ListWrites
      <4> QED BY <4>1, <3>2
    <3>4. CASE q \notin Children(Head(queue))
      <4>1. rMap'[q] = rMap[q] BY <3>1, <3>2, <3>4, <1>2, ListWrites
      <4>2. Queued(q) => Queued(q)' BY <3>1, <3>4, <1>2, ListQueues
      <4> QED BY <4>1, <4>2, <2>2 DEF Recorded
    <3> QED BY <3>3, <3>4
  <2>3. pc = "save" /\ Recorded => Recorded' BY <2>1, <2>2 DEF Recorded, IsDir, Abs
  <2> QED BY <2>1, <2>3 DEF SnapInv, Remembered, IsDir, Abs
<1>3. CASE ListDirFails BY <1>3 DEF ListDirFails, snapshot, SnapInv, Remembered, IsDir, Abs
<1>4. CASE ListDirEmpty BY <1>4 DEF ListDirEmpty, SnapInv, TypeInv
<1>5. CASE GetAllocationDiff BY <1>5 DEF GetAllocationDiff, snapshot, SnapInv, Remembered, IsDir, Abs
<1>6. CASE GetDiff
  <2>1. outages' = 0 => outages = 0 BY <1>6, WalkFinds
  <2> QED BY <2>1, <1>6 DEF GetDiff, snapshot, SnapInv, Remembered, IsDir, Abs
<1>7. CASE Apply BY <1>7 DEF Apply, snapshot, SnapInv, Remembered, IsDir, Abs
<1>8. CASE SaveRemoteSnapshot
  <2>1. UNCHANGED <<prev, base, outages>> /\ queue' = << <<>> >> BY <1>8 DEF SaveRemoteSnapshot, snapshot
  <2>2. ASSUME NEW q \in Paths PROVE Queued(q)'
    <3>1. 1 \in 1 .. Len(queue') /\ queue'[1] = <<>> BY <2>1
    <3> QED BY <3>1, RootPaths DEF Queued
  <2>3. Recorded' BY <2>2 DEF Recorded
  <2> QED BY <2>1, <2>3 DEF SnapInv, Remembered, IsDir, Abs
<1>9. CASE Saved
  <2>1. /\ pc = "save" /\ pc' = "idle" /\ queue = <<>> /\ prev' = rMap /\ outages' = outages
        /\ base'.local = local /\ base'.remote = RemoteFolder
    BY <1>9 DEF Saved
  <2>2. \A q \in Paths : ~Queued(q) BY <2>1 DEF Queued
  <2>3. Recorded => Remembered' BY <2>1, <2>2 DEF Recorded, Remembered, RemoteFolder, IsDir, Abs
  <2> QED BY <2>1, <2>3 DEF SnapInv
<1>10. CASE SaveFails BY <1>10 DEF SaveFails, Outages, SnapInv, TypeInv
<1>11. CASE UNCHANGED syncVars BY <1>11 DEF syncVars, SnapInv, Remembered, Recorded, Queued, IsDir, Abs
<1>12. CASE InvalidCache BY <1>12 DEF InvalidCache, SnapInv, Remembered, IsDir, Abs
<1>13. CASE calcFileHashFails BY <1>13 DEF calcFileHashFails, Outages, SnapInv, TypeInv
<1> QED BY <1>1, <1>2, <1>3, <1>4, <1>5, <1>6, <1>7, <1>8, <1>9, <1>10, <1>11, <1>12, <1>13 DEF SyncNext

LEMMA InitDeleted == SyncInit => DeletedInv
BY DEF SyncInit, DeletedInv

LEMMA StepDeleted ==
  ASSUME TypeInv, ScanInv, ApplyInv, SnapInv, DeletedInv, [SyncNext]_syncVars
  PROVE  DeletedInv'
<1>1. CASE EditLocal \/ EditRemote
  BY <1>1 DEF EditLocal, EditRemote, Edit, DeletedInv
<1>2. ASSUME UNCHANGED <<remote, local, pc, diff, outages, at, calm>> PROVE DeletedInv'
  BY <1>2 DEF DeletedInv, RemoteFolder, Removes, Abs
<1>3. CASE ListDir BY <1>3, <1>2 DEF ListDir, folders
<1>4. CASE ListDirFails BY <1>4 DEF ListDirFails, DeletedInv
<1>5. CASE ListDirEmpty BY <1>5 DEF ListDirEmpty, DeletedInv, TypeInv
<1>6. CASE GetAllocationDiff BY <1>6 DEF GetAllocationDiff, DeletedInv
<1>7. CASE GetDiff
  <2> DEFINE r == [q \in Paths |-> rMap[q]]
             p == [q \in Paths |-> prev[q]]
  <2>7. /\ outages' = 0 => outages = 0
        /\ calm' => calm /\ diff' = findDelta(r, local, p)
    BY <1>7, WalkFinds
  <2>1. /\ pc = "diff" /\ queue = <<>> /\ pc' = "apply"
        /\ local' = local /\ remote' = remote
        /\ \A q \in at'.deleted : /\ q \in Paths /\ ~IsDir(q) /\ base.local[q] # 0
                                  /\ base.local[q] = base.remote[q]
                                  /\ {local[q], RemoteFolder[q]} = {0, base.local[q]}
    BY <1>7 DEF GetDiff, folders
  <2>2. r \in [Paths -> Nat] /\ p \in [Paths -> Nat] /\ local \in [Paths -> Nat] BY RelType DEF TypeInv
  <2>3. RemoteFolder' = RemoteFolder BY <2>1 DEF RemoteFolder
  <2>4. \A q \in Paths : p[q] = prev[q] OBVIOUS
  <2>5. calm => r = RemoteFolder BY <2>1, ScanComplete
  <2> HIDE DEF r, p
  <2>6. ASSUME calm', outages' = 0, NEW q \in at'.deleted
        PROVE  \E x \in diff' : x.op \in Deletions /\ Below(q, x.path)
    <3>1. q \in Paths /\ p[q] # 0 BY <2>1, <2>4, <2>6, <2>7 DEF SnapInv, Remembered
    <3>2. (r[q] = 0 \/ local[q] = 0) /\ (r[q] # 0 \/ local[q] # 0) BY <2>1, <2>5, <2>6, <2>7
    <3> QED BY <3>1, <3>2, <2>2, <2>6, <2>7, DeltaDeletes
  <2> QED BY <2>1, <2>6 DEF DeletedInv, Removes
<1>8. CASE Apply
  <2>1. PICK x \in diff : Perform(x.op, x.path) /\ diff' = diff \ {x} BY <1>8 DEF Apply
  <2>2. pc = "apply" /\ pc' = pc /\ calm' = calm /\ outages' = outages /\ at' = at BY <1>8 DEF Apply
  <2>3. DiffTypes(diff) /\ x.path \in Paths BY DEF TypeInv, DiffTypes
  <2>4. local \in [Paths -> Nat] /\ RemoteFolder \in [Paths -> Nat] BY RemoteFolderTypes DEF TypeInv
  <2>5. Moves(local, RemoteFolder, local', RemoteFolder', x.op, x.path) BY <2>1, <2>3, PerformMoves
  <2>6. at.deleted \in SUBSET {q \in Paths : ~IsDir(q)} BY DEF TypeInv
  <2>7. ASSUME calm, outages = 0 PROVE Removes(diff', at.deleted, local', RemoteFolder')
    <3>1. Sound(diff, local, RemoteFolder) /\ Removes(diff, at.deleted, local, RemoteFolder)
      BY <2>2, <2>7 DEF ApplyInv, DeletedInv
    <3>2. Removes(diff \ {x}, at.deleted, local', RemoteFolder')
      BY <3>1, <2>3, <2>4, <2>5, <2>6, MoveKeepsRemoves
    <3> QED BY <3>2, <2>1
  <2> QED BY <2>2, <2>7 DEF DeletedInv, Removes
<1>9. CASE SaveRemoteSnapshot
  BY <1>9 DEF SaveRemoteSnapshot, folders, DeletedInv, RemoteFolder, Removes, Abs
<1>10. CASE Saved BY <1>10 DEF Saved, DeletedInv
<1>11. CASE SaveFails BY <1>11 DEF SaveFails, DeletedInv
<1>12. CASE UNCHANGED syncVars BY <1>12, <1>2 DEF syncVars
<1>13. CASE InvalidCache BY <1>13 DEF InvalidCache, DeletedInv
<1>14. CASE calcFileHashFails BY <1>14 DEF calcFileHashFails, DeletedInv
<1> QED BY <1>1, <1>3, <1>4, <1>5, <1>6, <1>7, <1>8, <1>9, <1>10, <1>11, <1>12, <1>13, <1>14 DEF SyncNext

\* A file that one side deleted since the last snapshot and the other left alone is deleted
\* on both, when the root of the allocation is synchronised: the keys of the snapshot are
\* absolute paths, those of the difference are relative to the remote folder
\* (sync.go:235-243, 253-255).
THEOREM DeletionsReachBoth ==
  ASSUME RemotePath = <<>>
  PROVE  SyncSpec => []DeletionsPropagate
<1> DEFINE I == TypeInv /\ ScanInv /\ ApplyInv /\ FreshInv /\ SnapInv /\ DeletedInv
<1>1. SyncInit => I BY InitTypes, InitScan, InitApply, InitFresh, InitSnap, InitDeleted
<1>2. I /\ [SyncNext]_syncVars => I'
  <2> SUFFICES ASSUME I, [SyncNext]_syncVars PROVE I' OBVIOUS
  <2>1. TypeInv' /\ ScanInv' /\ ApplyInv' BY StepTypes, StepScan, StepApply
  <2>2. FreshInv' /\ SnapInv' /\ DeletedInv' BY StepFresh, StepSnap, StepDeleted
  <2> QED BY <2>1, <2>2
<1>3. I => DeletionsPropagate
  <2> SUFFICES ASSUME I, Done, outages = 0, NEW q \in at.deleted PROVE local[q] = 0 /\ remote[Abs(q)] = 0
    BY DEF DeletionsPropagate
  <2>1. Removes({}, at.deleted, local, RemoteFolder) BY DEF DeletedInv, Done
  <2>2. q \in Paths BY DEF TypeInv
  <2> QED BY <2>1, <2>2 DEF Removes, RemoteFolder
<1> HIDE DEF I
<1> QED BY <1>1, <1>2, <1>3, PTL DEF SyncSpec
-----------------------------------------------------------------------------
(* Sync: the sync that is repeated                                          *)

\* While the snapshot is listed, and nothing is edited, what is found is what is there.
SaveInv ==
  pc = "save" => /\ \A i \in 1 .. Len(queue) : Below(queue[i], RemotePath)
                 /\ calm => Scan

\* Both sides keep the files of a conflict.
BothHave(C, l, r) == \A q \in C : l[q] # 0 /\ r[q] # 0
ConflictInv ==
  pc \in {"apply", "save"} /\ calm => BothHave(at.conflicts, local, RemoteFolder)

\* The snapshot is the remote folder that a calm sync left, and the files that differ then
\* are its conflicts.
BaseInv ==
  base.calm =>
    /\ BothHave(base.conflicts, base.local, base.remote)
    /\ \A q \in Paths : /\ prev[q] = base.remote[q]
                        /\ IsDir(q) \/ base.local[q] = base.remote[q] \/ q \in base.conflicts

LEMMA StepSave ==
  ASSUME RemotePath = <<>>, TypeInv, SaveInv, [SyncNext]_syncVars
  PROVE  SaveInv'
<1>1. CASE EditLocal \/ EditRemote
  BY <1>1 DEF EditLocal, EditRemote, Edit, SaveInv
<1>2. CASE ListDir
  <2>1. pc' = pc /\ calm' = calm BY <1>2 DEF ListDir
  <2>2. CASE pc = "save"
    <3>1. \A i \in 1 .. Len(queue) : Below(queue[i], RemotePath) BY <2>2 DEF SaveInv
    <3>2. /\ \A i \in 1 .. Len(queue') : Below(queue'[i], RemotePath)
          /\ Scan => Scan'
      BY <3>1, <1>2, ListScan
    <3> QED BY <3>2, <2>1, <2>2 DEF SaveInv
  <2>3. CASE pc # "save" BY <2>1, <2>3 DEF SaveInv
  <2> QED BY <2>2, <2>3
<1>3. CASE ListDirFails BY <1>3 DEF ListDirFails, SaveInv
<1>4. CASE ListDirEmpty
  <2>1. calm' = FALSE BY <1>4 DEF ListDirEmpty
  <2>2. queue \in Seq(Where) /\ queue # <<>> /\ queue' = Tail(queue) /\ pc' = pc
    BY <1>4 DEF ListDirEmpty, TypeInv
  <2>3. \A i \in 1 .. Len(queue') : i + 1 \in 1 .. Len(queue) /\ queue'[i] = queue[i+1] BY <2>2
  <2> QED BY <2>1, <2>2, <2>3 DEF SaveInv
<1>5. CASE SaveRemoteSnapshot
  <2>1. queue' = <<RemotePath>> /\ rMap' = Nothing /\ remote' = remote
    BY <1>5 DEF SaveRemoteSnapshot, folders
  <2>2. Below(RemotePath, RemotePath) BY RemotePathName, PrefixOrder DEF Below
  <2>3. \A i \in 1 .. Len(queue') : Below(queue'[i], RemotePath) BY <2>1, <2>2
  <2>4. ASSUME NEW p \in Synced PROVE Queued(p)' /\ rMap'[Strip(p)] = 0
    <3>1. 1 \in 1 .. Len(queue') /\ queue'[1] = RemotePath BY <2>1
    <3>2. Queued(p)' BY <3>1 DEF Queued, Synced
    <3>3. Strip(p) \in Keys BY StripAbs DEF Keys
    <3> QED BY <3>2, <3>3, <2>1 DEF Nothing
  <2>5. Scan' BY <2>4 DEF Scan
  <2> QED BY <2>3, <2>5 DEF SaveInv
<1>6. CASE GetAllocationDiff BY <1>6 DEF GetAllocationDiff, SaveInv
<1>7. CASE GetDiff BY <1>7 DEF GetDiff, SaveInv
<1>8. CASE Apply BY <1>8 DEF Apply, SaveInv
<1>9. CASE Saved \/ SaveFails \/ calcFileHashFails \/ InvalidCache
  BY <1>9 DEF Saved, SaveFails, calcFileHashFails, InvalidCache, SaveInv
<1>10. CASE UNCHANGED syncVars BY <1>10 DEF syncVars, SaveInv, Scan, Queued
<1> QED BY <1>1, <1>2, <1>3, <1>4, <1>5, <1>6, <1>7, <1>8, <1>9, <1>10 DEF SyncNext

\* What an operation that fits does to a file that both sides have.
LEMMA MoveKeepsBoth ==
  ASSUME NEW D, DiffTypes(D), NEW l \in [Paths -> Nat], NEW r \in [Paths -> Nat], NEW m, NEW s,
         NEW x \in D, Moves(l, r, m, s, x.op, x.path), Sound(D, l, r),
         NEW q \in Paths, l[q] # 0, r[q] # 0
  PROVE  m[q] # 0 /\ s[q] # 0
<1>1. x.path \in Paths BY DEF DiffTypes
<1>2. x.op \in Deletions => ~Below(q, x.path) BY <1>1 DEF Sound, Empty, Deletions
<1>3. ASSUME NEW t \in [Paths -> Nat], t[q] # 0, NEW v, v # 0 PROVE With(t, x.path, v)[q] # 0
  BY <1>1, <1>3 DEF With
<1>4. ASSUME NEW t \in [Paths -> Nat], t[q] # 0, x.op \in Deletions PROVE Without(t, x.path)[q] # 0
  BY <1>1, <1>2, <1>4 DEF Without
<1> QED BY <1>3, <1>4 DEF Moves, Deletions

LEMMA StepConflict ==
  ASSUME TypeInv, ScanInv, ApplyInv, ConflictInv, [SyncNext]_syncVars
  PROVE  ConflictInv'
<1>1. CASE EditLocal \/ EditRemote
  BY <1>1 DEF EditLocal, EditRemote, Edit, ConflictInv
<1>2. ASSUME UNCHANGED <<remote, local, pc, at, calm>> PROVE ConflictInv'
  BY <1>2 DEF ConflictInv, RemoteFolder, BothHave, Abs
<1>3. CASE ListDir BY <1>3, <1>2 DEF ListDir, folders
<1>4. CASE ListDirFails BY <1>4 DEF ListDirFails, ConflictInv
<1>5. CASE ListDirEmpty BY <1>5 DEF ListDirEmpty, ConflictInv, TypeInv
<1>6. CASE GetAllocationDiff BY <1>6 DEF GetAllocationDiff, ConflictInv
<1>7. CASE GetDiff
  <2> DEFINE r == [q \in Paths |-> rMap[q]]
             p == [q \in Paths |-> prev[q]]
  <2>1. calm' => calm /\ diff' = findDelta(r, local, p) BY <1>7, WalkFinds
  <2>2. /\ pc = "diff" /\ queue = <<>> /\ local' = local /\ remote' = remote
        /\ at'.conflicts = {x.path : x \in {y \in diff' : y.op = "Conflict"}}
    BY <1>7 DEF GetDiff, folders
  <2>3. r \in [Paths -> Nat] /\ p \in [Paths -> Nat] /\ local \in [Paths -> Nat] BY RelType DEF TypeInv
  <2>4. calm => r = RemoteFolder BY <2>2, ScanComplete
  <2>5. RemoteFolder' = RemoteFolder BY <2>2 DEF RemoteFolder
  <2> HIDE DEF r, p
  <2>6. ASSUME calm', NEW q \in at'.conflicts PROVE local[q] # 0 /\ RemoteFolder[q] # 0
    <3>1. PICK x \in findDelta(r, local, p) : x.op = "Conflict" /\ x.path = q BY <2>1, <2>2, <2>6
    <3>2. local[q] # 0 /\ r[q] # 0 BY <3>1, <2>3, DeltaStates
    <3> QED BY <3>2, <2>1, <2>4, <2>6
  <2> QED BY <2>2, <2>5, <2>6 DEF ConflictInv, BothHave
<1>8. CASE Apply
  <2>1. PICK x \in diff : Perform(x.op, x.path) BY <1>8 DEF Apply
  <2>2. pc = "apply" /\ pc' = pc /\ calm' = calm /\ outages' = outages /\ at' = at BY <1>8 DEF Apply
  <2>3. DiffTypes(diff) /\ x.path \in Paths BY DEF TypeInv, DiffTypes
  <2>4. local \in [Paths -> Nat] /\ RemoteFolder \in [Paths -> Nat] BY RemoteFolderTypes DEF TypeInv
  <2>5. Moves(local, RemoteFolder, local', RemoteFolder', x.op, x.path) BY <2>1, <2>3, PerformMoves
  <2>6. ASSUME calm, NEW q \in at.conflicts PROVE local'[q] # 0 /\ RemoteFolder'[q] # 0
    <3>1. q \in Paths /\ local[q] # 0 /\ RemoteFolder[q] # 0
      BY <2>2, <2>6 DEF ConflictInv, BothHave, TypeInv
    <3>2. Sound(diff, local, RemoteFolder) BY <2>2, <2>6 DEF ApplyInv
    <3> QED BY <3>1, <3>2, <2>3, <2>4, <2>5, MoveKeepsBoth
  <2> QED BY <2>2, <2>6 DEF ConflictInv, BothHave
<1>9. CASE SaveRemoteSnapshot
  BY <1>9 DEF SaveRemoteSnapshot, folders, ConflictInv, RemoteFolder, BothHave, Abs
<1>10. CASE Saved \/ SaveFails \/ calcFileHashFails \/ InvalidCache
  BY <1>10 DEF Saved, SaveFails, calcFileHashFails, InvalidCache, ConflictInv
<1>11. CASE UNCHANGED syncVars BY <1>11, <1>2 DEF syncVars
<1> QED BY <1>1, <1>3, <1>4, <1>5, <1>6, <1>7, <1>8, <1>9, <1>10, <1>11 DEF SyncNext

LEMMA StepBase ==
  ASSUME RemotePath = <<>>, TypeInv, ApplyInv, SaveInv, ConflictInv, BaseInv, [SyncNext]_syncVars
  PROVE  BaseInv'
<1>1. ASSUME UNCHANGED <<prev, base>> PROVE BaseInv' BY <1>1 DEF BaseInv, BothHave, IsDir, Abs
<1>2. CASE Saved
  <2>1. /\ pc = "save" /\ queue = <<>> /\ prev' = rMap
        /\ base'.local = local /\ base'.remote = RemoteFolder /\ base'.conflicts = at.conflicts
        /\ base'.calm = calm
    BY <1>2 DEF Saved
  <2>2. ASSUME calm, NEW q \in Paths
        PROVE  /\ rMap[q] = RemoteFolder[q]
               /\ IsDir(q) \/ local[q] = RemoteFolder[q] \/ q \in at.conflicts
    <3>1. Abs(q) = q /\ q \in Synced /\ Strip(q) = q BY RootPaths, PathFacts
    <3>2. ~Queued(q) BY <2>1 DEF Queued
    <3>3. rMap[q] = remote[q] BY <3>1, <3>2, <2>1, <2>2 DEF SaveInv, Scan
    <3>4. RemoteFolder[q] = remote[q] BY <3>1 DEF RemoteFolder
    <3>5. IsDir(q) \/ local[q] = RemoteFolder[q] \/ q \in at.conflicts
      BY <2>1, <2>2 DEF ApplyInv, Settles
    <3> QED BY <3>3, <3>4, <3>5
  <2>3. calm => BothHave(at.conflicts, local, RemoteFolder) BY <2>1 DEF ConflictInv
  <2> QED BY <2>1, <2>2, <2>3 DEF BaseInv, BothHave, IsDir, Abs
<1>3. CASE SaveFails
  <2>1. CASE UNCHANGED <<prev, base>> BY <2>1, <1>1
  <2>2. CASE base' = NoBase BY <2>2 DEF BaseInv, NoBase
  <2> QED BY <2>1, <2>2, <1>3 DEF SaveFails
<1>4. ASSUME SyncNext, ~Saved, ~SaveFails PROVE UNCHANGED <<prev, base>>
  BY <1>4 DEF SyncNext, EditLocal, EditRemote, Edit, ListDir, ListDirFails, ListDirEmpty,
     GetAllocationDiff, InvalidCache, GetDiff, calcFileHashFails, Apply, SaveRemoteSnapshot, snapshot
<1>5. CASE UNCHANGED syncVars BY <1>5, <1>1 DEF syncVars
<1> QED BY <1>1, <1>2, <1>3, <1>4, <1>5

\* With both folders as a calm sync left them, the difference is what the comment of
\* SecondSyncIsQuiet says.
LEMMA QuietDelta ==
  ASSUME TypeInv, BaseInv, Unchanged,
         NEW x \in findDelta(RemoteFolder, local, [q \in Paths |-> prev[q]])
  PROVE  \/ x.op = "Update" /\ x.path \in base.conflicts
         \/ x.op = "Delete" /\ NothingThere(x.path)
<1> DEFINE p == [q \in Paths |-> prev[q]]
           r == RemoteFolder
           y == x.path
<1>1. r \in [Paths -> Nat] /\ p \in [Paths -> Nat] /\ local \in [Paths -> Nat] /\ Closed(local)
  BY RelType, RemoteFolderTypes DEF TypeInv
<1>2. \A q \in Paths : /\ p[q] = r[q] /\ r[q] = remote[Abs(q)]
                       /\ IsDir(q) \/ local[q] = r[q] \/ q \in base.conflicts
                       /\ q \in base.conflicts => local[q] # 0 /\ r[q] # 0
  <2>1. /\ base.calm /\ local = base.local /\ r = base.remote BY DEF Unchanged
  <2>2. BothHave(base.conflicts, local, r) BY <2>1 DEF BaseInv
  <2>3. \A q \in Paths : r[q] = remote[Abs(q)] BY DEF RemoteFolder
  <2>4. \A q \in Paths : /\ prev[q] = base.remote[q]
                         /\ IsDir(q) \/ base.local[q] = base.remote[q] \/ q \in base.conflicts
    BY <2>1 DEF BaseInv
  <2> QED BY <2>1, <2>2, <2>3, <2>4 DEF BothHave
<1> HIDE DEF p, r
<1>4. /\ x = [op |-> x.op, path |-> y] /\ y \in Paths
      /\ x.op \in Deletions \/ ~IsDir(y)
      /\ \/ x.op = "Conflict" /\ local[y] # 0 /\ r[y] # 0 /\ p[y] # 0 /\ p[y] # r[y]
         \/ x.op = "Update" /\ local[y] # 0 /\ r[y] # 0 /\ (p[y] = 0 \/ p[y] = r[y]) /\ local[y] # r[y]
         \/ x.op = "Download" /\ local[y] = 0 /\ r[y] # 0 /\ p[y] = 0
         \/ x.op = "Upload" /\ local[y] # 0 /\ r[y] = 0 /\ p[y] = 0
         \/ x.op = "Delete" /\ local[y] = 0 /\ r[y] # 0 /\ p[y] # 0
         \/ x.op = "LocalDelete" /\ local[y] # 0 /\ r[y] = 0 /\ p[y] # 0
  <2>1. x \in findDelta(r, local, p) BY DEF p, r
  <2> QED BY <2>1, <1>1, DeltaStates
<1>5. CASE x.op = "Update" BY <1>2, <1>4, <1>5 DEF Deletions
<1>6. CASE x.op = "Delete"
  <2>1. \A q \in Paths : Below(q, y) => local[q] = 0 BY <1>1, <1>4, <1>6 DEF Closed
  <2>2. \A q \in Paths : Below(q, y) => IsDir(q) \/ remote[Abs(q)] = 0 BY <2>1, <1>2
  <2> QED BY <2>1, <2>2, <1>6 DEF NothingThere
<1>7. x.op \in {"Update", "Delete"} BY <1>2, <1>4 DEF Deletions
<1> QED BY <1>5, <1>6, <1>7

\* A sync that is repeated has nothing to do: when the root is synchronised, nothing was
\* edited or out during two syncs and both folders are as the first left them, the second
\* lists only updates of what was a conflict and deletions of remote directories that hold
\* no file, whatever happened in all syncs before (sync.go:187-262, 338-373).
THEOREM RepeatedSyncIsQuiet ==
  ASSUME RemotePath = <<>>
  PROVE  SyncSpec => SecondSyncIsQuiet
<1> DEFINE I == TypeInv /\ ScanInv /\ ApplyInv /\ SaveInv /\ ConflictInv /\ BaseInv
<1>1. SyncInit => I
  <2>1. SyncInit => SaveInv /\ ConflictInv /\ BaseInv
    BY DEF SyncInit, SaveInv, ConflictInv, BaseInv, NoBase
  <2> QED BY <2>1, InitTypes, InitScan, InitApply
<1>2. I /\ [SyncNext]_syncVars => I'
  <2> SUFFICES ASSUME I, [SyncNext]_syncVars PROVE I' OBVIOUS
  <2>1. TypeInv' /\ ScanInv' /\ ApplyInv' BY StepTypes, StepScan, StepApply
  <2>2. SaveInv' /\ ConflictInv' /\ BaseInv' BY StepSave, StepConflict, StepBase
  <2> QED BY <2>1, <2>2
<1>3. ASSUME I, [SyncNext]_syncVars, pc = "diff", pc' = "apply", calm', Unchanged
      PROVE  \A x \in diff' : \/ x.op = "Update" /\ x.path \in base.conflicts
                              \/ x.op = "Delete" /\ NothingThere(x.path)
  <2>1. GetDiff
    BY <1>3 DEF SyncNext, syncVars, EditLocal, EditRemote, Edit, ListDir, ListDirFails, ListDirEmpty,
       GetAllocationDiff, InvalidCache, calcFileHashFails, Apply, SaveRemoteSnapshot, Saved, SaveFails
  <2>2. calm /\ diff' = findDelta([q \in Paths |-> rMap[q]], local, [q \in Paths |-> prev[q]])
    BY <2>1, <1>3, WalkFinds
  <2>3. [q \in Paths |-> rMap[q]] = RemoteFolder BY <2>1, <2>2, <1>3, ScanComplete DEF GetDiff
  <2>4. diff' = findDelta(RemoteFolder, local, [q \in Paths |-> prev[q]]) BY <2>2, <2>3
  <2> QED BY <2>4, <1>3, QuietDelta
<1>4. I /\ [SyncNext]_syncVars =>
        [pc = "diff" /\ pc' = "apply" /\ calm' /\ Unchanged =>
           \A x \in diff' : \/ x.op = "Update" /\ x.path \in base.conflicts
                            \/ x.op = "Delete" /\ NothingThere(x.path)]_syncVars
  BY <1>3
<1> HIDE DEF I
<1> QED BY <1>1, <1>2, <1>4, PTL DEF SyncSpec, SecondSyncIsQuiet
=============================================================================
