------------------------- MODULE ChunkedUploadProofs -------------------------
(***************************************************************************)
(* A chunked upload that reports success is on the threshold of blobbers,   *)
(* and a blobber that is asked to commit has got every piece, for every     *)
(* number of blobbers, pieces, failures and calls.                          *)
(***************************************************************************)
EXTENDS ChunkedUpload, FiniteSetTheorems, TLAPS

\* The part of the types the argument needs.
Types ==
  /\ has \in [Blobbers -> SUBSET Pieces] /\ holds \in SUBSET Blobbers
  /\ disk \in -1 .. K-1 /\ idx \in -1 .. K-1 /\ cur \in 0 .. K
  /\ pc \in {"read", "fan", "lock", "commit", "end", "down"}
  /\ pc = "fan" => cur < K
  /\ mask \in SUBSET Blobbers
  /\ g \in [Blobbers -> {"send", "end"}]
  /\ consensus \in Nat /\ addConsensus \in Nat /\ calls \in Nat \ {0} /\ fails \in Nat
  /\ fails = 0 => unbuilt = {}

-----------------------------------------------------------------------------
(* What is counted.                                                         *)

\* A request is under way to blobbers of the mask only.
SendersInMask ==
  pc \in {"fan", "commit"} => \A b \in Blobbers : g[b] = "send" => b \in mask

\* Every duplicate counted is a blobber that has the file and left the mask.
DuplicatesCounted == addConsensus <= Cardinality(holds \ mask)

\* While the commits run: the duplicates, and the commits that returned.
CommitsCounted ==
  pc = "commit" => consensus <= Cardinality({b \in holds : g[b] = "end"})

Counted == SendersInMask /\ DuplicatesCounted /\ CommitsCounted /\ CompletedOnThreshold

-----------------------------------------------------------------------------
(* What has arrived.                                                        *)

\* The first n pieces have reached b, or b has the file, or one could not be built for it.
Got(b, n) == b \in holds \/ b \in unbuilt \/ \A p \in Pieces : p < n => p \in has[b]

\* The calls the mask can be trusted in.
Trusted == calls = 1 \/ fails = 0

\* The saved progress is true of every blobber as long as nothing failed.
SavedReached == fails = 0 => \A b \in Blobbers : Got(b, disk + 1)

\* Then a blobber leaves the mask of a piece only because it has the file.
OthersHold == pc \in {"read", "fan"} /\ fails = 0 => \A b \in Blobbers \ mask : b \in holds

\* What the blobbers of the mask have got, at each point of Start.
MaskReached ==
  Trusted =>
    /\ pc \in {"read", "fan"} => \A b \in mask : Got(b, cur) /\ Got(b, idx + 1)
    /\ pc = "fan" => \A b \in mask : g[b] = "end" => Got(b, cur + 1)
    /\ pc \in {"lock", "commit"} => \A b \in mask : Got(b, K)

Reached == SavedReached /\ OthersHold /\ MaskReached

UInv == Types /\ Counted /\ Reached

-----------------------------------------------------------------------------
(* Counting blobbers                                                        *)

LEMMA FiniteSubsets ==
  ASSUME NEW S \in SUBSET Blobbers
  PROVE  IsFiniteSet(S) /\ Cardinality(S) \in Nat
<1>1. IsFiniteSet(0 .. N-1) BY ChunkedUploadConstants, FS_Interval
<1>2. IsFiniteSet(S) BY <1>1, FS_Subset DEF Blobbers
<1> QED BY <1>2, FS_CardinalityType

LEMMA CountGrows ==
  ASSUME NEW T \in SUBSET Blobbers, NEW S \in SUBSET T
  PROVE  Cardinality(S) <= Cardinality(T) /\ Cardinality(S) \in Nat /\ Cardinality(T) \in Nat
<1>1. S \in SUBSET Blobbers OBVIOUS
<1> QED BY <1>1, FiniteSubsets, FS_Subset

LEMMA CountOneMore ==
  ASSUME NEW T \in SUBSET Blobbers, NEW S \in SUBSET T, NEW b \in T, b \notin S
  PROVE  /\ Cardinality(S) + 1 <= Cardinality(T)
         /\ Cardinality(S) \in Nat /\ Cardinality(T) \in Nat
<1>1. S \cup {b} \in SUBSET T /\ S \in SUBSET Blobbers OBVIOUS
<1>2. Cardinality(S \cup {b}) = Cardinality(S) + 1 BY <1>1, FiniteSubsets, FS_AddElement
<1> QED BY <1>1, <1>2, CountGrows

-----------------------------------------------------------------------------
(* The first call                                                           *)

LEMMA UInit == Init => UInv
<1> SUFFICES ASSUME Init PROVE UInv OBVIOUS
<1> USE ChunkedUploadConstants DEF Init
<1>1. Types BY DEF Types, Idle, None, Pieces
<1>2. Counted
  <2>1. holds \in SUBSET Blobbers OBVIOUS
  <2>2. Cardinality(holds \ mask) \in Nat BY <2>1, FiniteSubsets
  <2> QED BY <2>2 DEF Counted, SendersInMask, DuplicatesCounted, CommitsCounted,
                      CompletedOnThreshold
<1>3. Reached
  BY DEF Reached, SavedReached, OthersHold, MaskReached, Got, None, Pieces
<1> QED BY <1>1, <1>2, <1>3 DEF UInv

-----------------------------------------------------------------------------
(* Steps that leave the blobbers alone                                      *)

\* Nothing a blobber has changes, and the call leaves the exchanges of a piece or of a
\* commit, or was in none.
LEMMA QuietCounted ==
  ASSUME UInv, holds' = holds, mask' = mask, addConsensus' = addConsensus,
         pc' \notin {"fan", "commit"}, result' = "ok" => result = "ok"
  PROVE  Counted'
BY DEF UInv, Counted, SendersInMask, DuplicatesCounted, CommitsCounted, CompletedOnThreshold

LEMMA GotLess ==
  ASSUME NEW b \in Blobbers, NEW n \in Int, NEW m \in Int, m <= n, Got(b, n)
  PROVE  Got(b, m)
BY ChunkedUploadConstants DEF Got, Pieces

\* The call is over, one way or the other.
LEMMA EndStep ==
  ASSUME UInv, UNCHANGED <<has, holds, mask, g, idx, cur, addConsensus, calls, unbuilt>>,
         pc' \in {"end", "down"}, result' = "ok" => result = "ok",
         disk' \in {disk, None}, consensus' \in Nat, fails' \in Nat, fails' >= fails
  PROVE  UInv'
<1>1. Types' BY ChunkedUploadConstants DEF UInv, Types, None
<1>2. Counted' BY QuietCounted
<1>3. SavedReached'
  <2> SUFFICES ASSUME fails' = 0, NEW b \in Blobbers PROVE Got(b, disk + 1)'
    BY DEF SavedReached
  <2>1. fails = 0 BY DEF UInv, Types
  <2>2. Got(b, disk + 1) BY <2>1 DEF UInv, Reached, SavedReached
  <2>3. CASE disk' = disk BY <2>2, <2>3 DEF Got
  <2>4. CASE disk' = None BY <2>4, ChunkedUploadConstants DEF Got, None, Pieces
  <2> QED BY <2>3, <2>4
<1>4. OthersHold' /\ MaskReached' BY DEF OthersHold, MaskReached
<1> QED BY <1>1, <1>2, <1>3, <1>4 DEF UInv, Reached

LEMMA EndActions ==
  ASSUME UInv,
         \/ NoData \/ ReadFails \/ DuplicateUpload \/ SelectError \/ NoConsensus \/ LockFails
         \/ AllDuplicates \/ Crash
  PROVE  UInv'
<1>1. UNCHANGED <<has, holds, mask, g, idx, cur, addConsensus, calls, unbuilt>> /\ disk' \in {disk, None}
  BY DEF NoData, ReadFails, DuplicateUpload, SelectError, NoConsensus, LockFails,
         AllDuplicates, Crash, store
<1>2. pc' \in {"end", "down"} /\ (result' = "ok" => result = "ok")
  BY DEF NoData, ReadFails, DuplicateUpload, SelectError, NoConsensus, LockFails,
         AllDuplicates, Crash, Return
<1>3. consensus' \in Nat /\ fails' \in Nat /\ fails' >= fails
  BY DEF NoData, ReadFails, DuplicateUpload, SelectError, NoConsensus, LockFails,
         AllDuplicates, Crash, MayFail, UInv, Types
<1> QED BY <1>1, <1>2, <1>3, EndStep

-----------------------------------------------------------------------------
(* A piece                                                                  *)

\* The piece at hand is done with: sent, or covered by the saved progress.
LEMMA AdvanceStep ==
  ASSUME UInv, pc \in {"read", "fan"}, Advance, cur < K,
         Trusted => \A b \in mask : Got(b, cur + 1),
         UNCHANGED <<has, holds, mask, g, consensus, addConsensus, result, calls, fails, unbuilt>>,
         idx' \in {idx, cur}, disk' \in {disk, idx'}
  PROVE  UInv'
<1> USE ChunkedUploadConstants
<1>1. /\ pc' \in {"read", "lock"} /\ cur' \in {cur, cur + 1}
      /\ pc' = "read" => cur' = cur + 1
      /\ pc' = "lock" => cur + 1 >= K
  BY DEF Advance, IsFinal, UInv, Types
<1>2. Types' BY <1>1 DEF UInv, Types
<1>3. Counted' BY <1>1, QuietCounted
<1>4. \A b, n : Got(b, n)' = Got(b, n) BY DEF Got
<1>5. \A b \in mask : Trusted => Got(b, idx' + 1)
  BY DEF UInv, Reached, MaskReached
<1>6. SavedReached'
  <2> SUFFICES ASSUME fails = 0, NEW b \in Blobbers PROVE Got(b, disk' + 1)
    BY <1>4 DEF SavedReached
  <2>1. CASE disk' = disk BY <2>1 DEF UInv, Reached, SavedReached
  <2>2. CASE disk' = idx'
    <3>1. CASE b \in mask BY <2>2, <3>1, <1>5 DEF Trusted
    <3>2. CASE b \notin mask BY <3>2 DEF UInv, Reached, OthersHold, Got
    <3> QED BY <3>1, <3>2
  <2> QED BY <2>1, <2>2
<1>7. OthersHold' BY <1>1 DEF UInv, Reached, OthersHold
<1>8. MaskReached'
  <2> SUFFICES ASSUME Trusted, NEW b \in mask
               PROVE  /\ pc' = "read" => Got(b, cur') /\ Got(b, idx' + 1)
                      /\ pc' = "lock" => Got(b, K)
    BY <1>1, <1>4 DEF MaskReached, Trusted
  <2>1. Got(b, cur + 1) /\ b \in Blobbers /\ cur \in Int BY DEF UInv, Types
  <2> QED BY <1>1, <1>5, <2>1, GotLess
<1> QED BY <1>2, <1>3, <1>6, <1>7, <1>8 DEF UInv, Reached

LEMMA SkipStep == ASSUME UInv, SkipPiece PROVE UInv'
<1> USE ChunkedUploadConstants
<1>1. pc = "read" /\ cur <= idx /\ Advance
      /\ UNCHANGED <<has, holds, disk, idx, mask, g, consensus, addConsensus, result, calls, fails, unbuilt>>
  BY DEF SkipPiece, store
<1>2. cur < K /\ cur \in Int /\ idx \in Int /\ mask \in SUBSET Blobbers
  BY <1>1 DEF UInv, Types
<1>3. Trusted => \A b \in mask : Got(b, cur + 1)
  <2> SUFFICES ASSUME Trusted, NEW b \in mask PROVE Got(b, cur + 1) OBVIOUS
  <2>1. Got(b, idx + 1) BY <1>1 DEF UInv, Reached, MaskReached
  <2> QED BY <2>1, <1>1, <1>2, GotLess
<1> QED BY <1>1, <1>2, <1>3, AdvanceStep

LEMMA DoneStep == ASSUME UInv, PieceDone PROVE UInv'
<1>1. /\ pc = "fan" /\ AllAnswered /\ Advance /\ idx' = cur /\ disk' \in {disk, cur}
      /\ UNCHANGED <<has, holds, mask, g, consensus, addConsensus, result, calls, fails, unbuilt>>
  BY DEF PieceDone
<1>2. cur < K BY <1>1 DEF UInv, Types
<1>3. Trusted => \A b \in mask : Got(b, cur + 1)
  BY <1>1 DEF UInv, Types, Reached, MaskReached, AllAnswered
<1> QED BY <1>1, <1>2, <1>3, AdvanceStep

LEMMA SendStep == ASSUME UInv, SendPiece PROVE UInv'
<1>1. /\ pc = "read" /\ cur < K /\ pc' = "fan" /\ consensus' = 0
      /\ g' = [b \in Blobbers |-> IF b \in mask THEN "send" ELSE "end"]
      /\ UNCHANGED <<has, holds, disk, idx, cur, mask, addConsensus, result, calls, fails, unbuilt>>
  BY DEF SendPiece, store
<1>2. Types' BY <1>1 DEF UInv, Types
<1>3. Counted'
  BY <1>1 DEF UInv, Types, Counted, SendersInMask, DuplicatesCounted, CommitsCounted,
              CompletedOnThreshold
<1>4. \A b, n : Got(b, n)' = Got(b, n) BY <1>1 DEF Got
<1>5. SavedReached' /\ OthersHold'
  BY <1>1, <1>4 DEF UInv, Reached, SavedReached, OthersHold
<1>6. MaskReached'
  BY <1>1, <1>4 DEF UInv, Types, Reached, MaskReached, Trusted
<1> QED BY <1>2, <1>3, <1>5, <1>6 DEF UInv, Reached

\* The request of b for the piece is over or repeated: b got the piece, or leaves the
\* mask because it has the file or because the request failed.
LEMMA ExchangeStep ==
  ASSUME UInv, NEW b \in Blobbers, pc = "fan", g[b] = "send",
         UNCHANGED <<holds, disk, pc, idx, cur, result, calls>>,
         unbuilt' = unbuilt \/ (unbuilt' = unbuilt \cup {b} /\ fails' > 0),
         has' \in [Blobbers -> SUBSET Pieces], g' \in [Blobbers -> {"send", "end"}],
         \A c \in Blobbers : has[c] \in SUBSET has'[c],
         \/ g' = g /\ mask' = mask
         \/ /\ g'[b] = "end" /\ \A c \in Blobbers : c # b => g'[c] = g[c]
            /\ mask' = mask \ {b} \/ (mask' = mask /\ (Trusted => Got(b, cur + 1)')),
         mask' = mask \/ b \in holds \/ fails' > 0,
         \/ addConsensus' = addConsensus
         \/ addConsensus' = addConsensus + 1 /\ b \in holds /\ mask' = mask \ {b},
         consensus' \in Nat, fails' \in Nat, fails' >= fails
  PROVE  UInv'
<1>1. Types' BY DEF UInv, Types
<1>2. \A c \in Blobbers, n \in Int : Got(c, n) => Got(c, n)' BY DEF Got
<1>3. b \in mask BY DEF UInv, Counted, SendersInMask
<1>4. \A c \in Blobbers : c # b => g'[c] = g[c] /\ (c \in mask' <=> c \in mask)
  BY DEF UInv, Types
<1>5. fails' = 0 => fails = 0 BY DEF UInv, Types
<1>6. disk \in Int /\ idx \in Int /\ cur \in Int /\ mask \in SUBSET Blobbers
  BY ChunkedUploadConstants DEF UInv, Types
<1>7. Counted'
  <2>1. SendersInMask'
    <3> SUFFICES ASSUME NEW c \in Blobbers, g'[c] = "send" PROVE c \in mask'
      BY DEF SendersInMask
    <3>1. CASE c = b BY <3>1, <1>3 DEF UInv, Types
    <3>2. CASE c # b BY <3>2, <1>4 DEF UInv, Counted, SendersInMask
    <3> QED BY <3>1, <3>2
  <2>2. DuplicatesCounted'
    <3>1. /\ addConsensus <= Cardinality(holds \ mask) /\ addConsensus \in Nat
          /\ holds \in SUBSET Blobbers
      BY DEF UInv, Types, Counted, DuplicatesCounted
    <3>2. holds \ mask' \in SUBSET Blobbers /\ holds \ mask \in SUBSET (holds \ mask') BY <3>1
    <3>3. CASE addConsensus' = addConsensus
      BY <3>1, <3>2, <3>3, CountGrows DEF DuplicatesCounted
    <3>4. CASE addConsensus' = addConsensus + 1 /\ b \in holds /\ mask' = mask \ {b}
      <4>1. b \in holds \ mask' /\ b \notin holds \ mask BY <3>4, <1>3
      <4> QED BY <3>1, <3>2, <3>4, <4>1, CountOneMore DEF DuplicatesCounted
    <3> QED BY <3>3, <3>4
  <2>3. CommitsCounted' /\ CompletedOnThreshold'
    BY DEF UInv, Counted, CommitsCounted, CompletedOnThreshold
  <2> QED BY <2>1, <2>2, <2>3 DEF Counted
<1>8. SavedReached'
  BY <1>2, <1>5, <1>6 DEF UInv, Reached, SavedReached
<1>9. OthersHold'
  <2> SUFFICES ASSUME fails' = 0, NEW c \in Blobbers \ mask' PROVE c \in holds
    BY DEF OthersHold
  <2>1. CASE c \in mask BY <2>1
  <2>2. CASE c \notin mask BY <2>2, <1>5 DEF UInv, Reached, OthersHold
  <2> QED BY <2>1, <2>2
<1>10. MaskReached'
  <2> SUFFICES ASSUME Trusted', NEW c \in mask'
               PROVE  /\ Got(c, cur)' /\ Got(c, idx + 1)'
                      /\ g'[c] = "end" => Got(c, cur + 1)'
    BY DEF MaskReached
  <2>1. Trusted /\ c \in mask /\ c \in Blobbers BY <1>5, <1>6 DEF Trusted
  <2>2. Got(c, cur) /\ Got(c, idx + 1) /\ (g[c] = "end" => Got(c, cur + 1))
    BY <2>1 DEF UInv, Reached, MaskReached
  <2>3. Got(c, cur)' /\ Got(c, idx + 1)' BY <2>1, <2>2, <1>2, <1>6
  <2>4. g'[c] = "end" => Got(c, cur + 1)'
    <3>1. CASE c # b BY <3>1, <2>1, <2>2, <1>2, <1>4, <1>6
    <3>2. CASE c = b BY <3>2, <2>1, <2>2, <1>2, <1>6
    <3> QED BY <3>1, <3>2
  <2> QED BY <2>3, <2>4
<1> QED BY <1>1, <1>7, <1>8, <1>9, <1>10 DEF UInv, Reached

LEMMA ExchangeActions ==
  ASSUME UInv, NEW b \in Blobbers,
         PieceOK(b) \/ PieceDuplicate(b) \/ BuildFails(b) \/ PieceFails(b) \/ PieceTooMany(b)
  PROVE  UInv'
<1> USE DEF store, MayFail, PieceError, CountError
<1>0. /\ g \in [Blobbers -> {"send", "end"}] /\ addConsensus \in Nat
      /\ has \in [Blobbers -> SUBSET Pieces] /\ consensus \in Nat /\ fails \in Nat
      /\ pc = "fan" => cur \in Pieces
      /\ \A c \in Blobbers : has[c] \in SUBSET has[c]
  BY ChunkedUploadConstants DEF UInv, Types, Pieces
<1> DEFINE Ended == /\ g' \in [Blobbers -> {"send", "end"}]
                    /\ g'[b] = "end" /\ \A c \in Blobbers : c # b => g'[c] = g[c]
<1>1. CASE PieceOK(b)
  <2>1. /\ pc = "fan" /\ g[b] = "send" /\ has' = [has EXCEPT ![b] = @ \cup {cur}]
        /\ g' = [g EXCEPT ![b] = "end"] /\ consensus' = consensus + 1
        /\ UNCHANGED <<holds, disk, pc, idx, cur, mask, addConsensus, result, calls, fails, unbuilt>>
    BY <1>1 DEF PieceOK
  <2>2. /\ has' \in [Blobbers -> SUBSET Pieces]
        /\ \A c \in Blobbers : has[c] \in SUBSET has'[c]
        /\ has'[b] = has[b] \cup {cur}
    BY <2>1, <1>0
  <2>3. Trusted => Got(b, cur + 1)'
    <3>1. Trusted => Got(b, cur)
      BY <2>1 DEF UInv, Counted, SendersInMask, Reached, MaskReached
    <3> QED BY <2>1, <2>2, <3>1, <1>0, ChunkedUploadConstants DEF Got, Pieces
  <2>4. Ended BY <2>1, <1>0
  <2> QED BY <2>1, <2>2, <2>3, <2>4, <1>0, ExchangeStep
<1>2. CASE PieceDuplicate(b)
  <2>1. /\ pc = "fan" /\ g[b] = "send" /\ g' = [g EXCEPT ![b] = "end"] /\ mask' = mask \ {b}
        /\ b \in holds /\ addConsensus' = addConsensus + 1 /\ consensus' = consensus + 1
        /\ UNCHANGED <<has, holds, disk, pc, idx, cur, result, calls, fails, unbuilt>>
    BY <1>2 DEF PieceDuplicate
  <2>2. Ended BY <2>1, <1>0
  <2> QED BY <2>1, <2>2, <1>0, ExchangeStep
<1>3. CASE PieceFails(b)
  <2>1. /\ has' \in [Blobbers -> SUBSET Pieces]
        /\ \A c \in Blobbers : has[c] \in SUBSET has'[c]
    BY <1>0, <1>3 DEF PieceFails
  <2>2. /\ pc = "fan" /\ g[b] = "send" /\ g' = [g EXCEPT ![b] = "end"] /\ mask' = mask \ {b}
        /\ fails' = fails + 1
        /\ UNCHANGED <<holds, disk, pc, idx, cur, result, calls, consensus, addConsensus, unbuilt>>
    BY <1>3 DEF PieceFails
  <2>3. Ended /\ fails' > 0 BY <2>2, <1>0
  <2> QED BY <2>1, <2>2, <2>3, <1>0, ExchangeStep
<1>4. CASE PieceTooMany(b)
  <2>1. /\ pc = "fan" /\ g[b] = "send" /\ fails' = fails + 1
        /\ \/ g' = g /\ mask' = mask
           \/ g' = [g EXCEPT ![b] = "end"] /\ mask' = mask \ {b}
        /\ UNCHANGED <<has, holds, disk, pc, idx, cur, result, calls, consensus, addConsensus, unbuilt>>
    BY <1>4 DEF PieceTooMany
  <2>2. fails' > 0 BY <2>1, <1>0
  <2>3. CASE g' = g /\ mask' = mask BY <2>1, <2>2, <2>3, <1>0, ExchangeStep
  <2>4. CASE g' = [g EXCEPT ![b] = "end"] /\ mask' = mask \ {b}
    <3>1. Ended BY <2>1, <2>4, <1>0
    <3> QED BY <2>1, <2>2, <2>4, <3>1, <1>0, ExchangeStep
  <2> QED BY <2>1, <2>3, <2>4
<1>5. CASE BuildFails(b)
  <2>1. /\ pc = "fan" /\ g[b] = "send" /\ g' = [g EXCEPT ![b] = "end"] /\ mask' = mask
        /\ fails' = fails + 1 /\ unbuilt' = unbuilt \cup {b}
        /\ UNCHANGED <<has, holds, disk, pc, idx, cur, result, calls, consensus, addConsensus>>
    BY <1>5 DEF BuildFails
  <2>2. Ended /\ fails' > 0 BY <2>1, <1>0
  <2>3. Got(b, cur + 1)' BY <2>1 DEF Got
  <2> QED BY <2>1, <2>2, <2>3, <1>0, ExchangeStep
<1> QED BY <1>1, <1>2, <1>3, <1>4, <1>5

-----------------------------------------------------------------------------
(* The commit                                                               *)

LEMMA LockStep == ASSUME UInv, Locked PROVE UInv'
<1>1. /\ pc = "lock" /\ pc' = "commit" /\ consensus' = addConsensus
      /\ g' = [b \in Blobbers |-> IF b \in mask' THEN "send" ELSE "end"]
      /\ mask' \in SUBSET mask
      /\ UNCHANGED <<has, holds, disk, idx, cur, addConsensus, result, calls, unbuilt>>
  BY DEF Locked, store
<1>2. fails' \in Nat /\ fails' >= fails
  <2>1. PICK held \in SUBSET Blobbers : fails' = fails + Cardinality(mask \ held)
    BY DEF Locked
  <2>2. mask \ held \in SUBSET Blobbers BY DEF UInv, Types
  <2> QED BY <2>1, <2>2, FiniteSubsets DEF UInv, Types
<1>3. Types' BY <1>1, <1>2 DEF UInv, Types
<1>4. Counted'
  <2>1. /\ holds \ mask' \in SUBSET Blobbers /\ holds \ mask \in SUBSET (holds \ mask')
        /\ {b \in holds : g'[b] = "end"} = holds \ mask'
    BY <1>1 DEF UInv, Types
  <2>2. addConsensus <= Cardinality(holds \ mask') /\ addConsensus \in Nat
    BY <2>1, CountGrows DEF UInv, Types, Counted, DuplicatesCounted
  <2>3. SendersInMask' /\ CompletedOnThreshold'
    BY <1>1 DEF UInv, Counted, SendersInMask, CompletedOnThreshold
  <2>4. DuplicatesCounted' /\ CommitsCounted'
    BY <1>1, <2>1, <2>2 DEF DuplicatesCounted, CommitsCounted
  <2> QED BY <2>3, <2>4 DEF Counted
<1>5. \A b, n : Got(b, n)' = Got(b, n) BY <1>1 DEF Got
<1>6. fails' = 0 => fails = 0 BY <1>2 DEF UInv, Types
<1>7. SavedReached' /\ OthersHold'
  BY <1>1, <1>5, <1>6 DEF UInv, Reached, SavedReached, OthersHold
<1>8. MaskReached'
  BY <1>1, <1>5, <1>6 DEF UInv, Reached, MaskReached, Trusted
<1> QED BY <1>3, <1>4, <1>7, <1>8 DEF UInv, Reached

\* processCommit of b returns.
LEMMA CommitStep ==
  ASSUME UInv, NEW b \in Blobbers, CommitOK(b) \/ CommitFails(b)
  PROVE  UInv'
<1> USE DEF MayFail
<1>1. /\ pc = "commit" /\ g[b] = "send" /\ g' = [g EXCEPT ![b] = "end"]
      /\ mask' \in {mask, mask \ {b}} /\ holds' \in {holds, holds \cup {b}}
      /\ \/ consensus' = consensus
         \/ consensus' = consensus + 1 /\ holds' = holds \cup {b}
      /\ UNCHANGED <<has, disk, pc, idx, cur, addConsensus, result, calls, unbuilt>>
  BY DEF CommitOK, CommitFails
<1>2. fails' \in Nat /\ fails' >= fails BY DEF CommitOK, CommitFails, UInv, Types
<1>3. Types' BY <1>1, <1>2 DEF UInv, Types
<1>4. /\ holds' \in SUBSET Blobbers /\ holds \in SUBSET holds' /\ mask' \in SUBSET mask
      /\ mask \in SUBSET Blobbers
  BY <1>1 DEF UInv, Types
<1>5. Counted'
  <2> DEFINE S == {c \in holds : g[c] = "end"}
             T == {c \in holds' : g'[c] = "end"}
  <2>1. SendersInMask'
    BY <1>1 DEF UInv, Types, Counted, SendersInMask
  <2>2. holds' \ mask' \in SUBSET Blobbers /\ holds \ mask \in SUBSET (holds' \ mask')
    <3>1. CASE holds' = holds BY <3>1, <1>4
    <3>2. CASE holds' # holds BY <3>2, <1>4
    <3> QED BY <3>1, <3>2
  <2>3. DuplicatesCounted'
    BY <1>1, <2>2, CountGrows DEF UInv, Types, Counted, DuplicatesCounted
  <2>4. consensus <= Cardinality(S) /\ consensus \in Nat
    BY <1>1 DEF UInv, Types, Counted, CommitsCounted
  <2>5. S \in SUBSET T /\ T \in SUBSET Blobbers BY <1>1, <1>4 DEF UInv, Types
  <2>6. consensus' <= Cardinality(T)
    <3>1. CASE consensus' = consensus
      <4> HIDE DEF S, T
      <4> QED BY <3>1, <2>4, <2>5, CountGrows
    <3>2. CASE consensus' = consensus + 1 /\ holds' = holds \cup {b}
      <4>1. b \in T /\ b \notin S BY <3>2, <1>1 DEF UInv, Types
      <4> HIDE DEF S, T
      <4> QED BY <3>2, <4>1, <2>4, <2>5, CountOneMore
    <3> QED BY <3>1, <3>2, <1>1
  <2>7. CommitsCounted' BY <2>6 DEF CommitsCounted
  <2>8. CompletedOnThreshold'
    <3>1. Cardinality(holds) <= Cardinality(holds') /\ Cardinality(holds) \in Nat
          /\ Cardinality(holds') \in Nat
      BY <1>4, CountGrows
    <3> QED BY <1>1, <3>1, ChunkedUploadConstants DEF UInv, Counted, CompletedOnThreshold, Thresh
  <2> QED BY <2>1, <2>3, <2>7, <2>8 DEF Counted
<1>6. \A c, n : Got(c, n) => Got(c, n)' BY <1>1 DEF Got
<1>7. fails' = 0 => fails = 0 BY <1>2 DEF UInv, Types
<1>8. SavedReached' /\ OthersHold'
  BY <1>1, <1>6, <1>7 DEF UInv, Reached, SavedReached, OthersHold
<1>9. MaskReached'
  BY <1>1, <1>6, <1>7 DEF UInv, Reached, MaskReached, Trusted
<1> QED BY <1>3, <1>5, <1>8, <1>9 DEF UInv, Reached

\* All commits returned.
LEMMA CommittedStep == ASSUME UInv, Committed PROVE UInv'
<1> USE DEF Return
<1>1. /\ pc = "commit" /\ AllAnswered /\ pc' = "end" /\ disk' = None
      /\ result' = "ok" => consensus >= Thresh
      /\ UNCHANGED <<has, holds, mask, g, idx, cur, consensus, addConsensus, calls, fails, unbuilt>>
  BY DEF Committed
<1>2. Types' BY <1>1, ChunkedUploadConstants DEF UInv, Types, None
<1>3. Counted'
  <2>1. {b \in holds : g[b] = "end"} = holds BY <1>1 DEF AllAnswered, UInv, Types
  <2>2. consensus <= Cardinality(holds) /\ Cardinality(holds) \in Nat /\ consensus \in Nat
    BY <1>1, <2>1, FiniteSubsets DEF UInv, Types, Counted, CommitsCounted
  <2>3. CompletedOnThreshold'
    BY <1>1, <2>2, ChunkedUploadConstants DEF CompletedOnThreshold, Thresh
  <2> QED BY <1>1, <2>3 DEF UInv, Counted, SendersInMask, DuplicatesCounted, CommitsCounted
<1>4. Reached'
  <2>1. \A b \in Blobbers : Got(b, disk + 1)'
    BY <1>1, ChunkedUploadConstants DEF Got, None, Pieces
  <2> QED BY <1>1, <2>1 DEF Reached, SavedReached, OthersHold, MaskReached
<1> QED BY <1>2, <1>3, <1>4 DEF UInv

-----------------------------------------------------------------------------
(* The next call                                                            *)

LEMMA AgainStep == ASSUME UInv, Again PROVE UInv'
<1> USE ChunkedUploadConstants
<1>1. /\ pc' = "read" /\ idx' = disk /\ cur' = 0 /\ mask' = Blobbers /\ g' = Idle
      /\ consensus' = 0 /\ addConsensus' = 0 /\ result' = "none" /\ calls' = calls + 1 /\ unbuilt' = {}
      /\ UNCHANGED <<holds, disk, fails>>
      /\ \/ disk = None /\ has' = [b \in Blobbers |-> {}]
         \/ has' = has
  BY DEF Again, Fresh
<1>2. Types' BY <1>1 DEF UInv, Types, Idle
<1>3. Counted'
  <2>1. holds' \ mask' \in SUBSET Blobbers BY <1>2 DEF Types
  <2>2. Cardinality(holds' \ mask') \in Nat BY <2>1, FiniteSubsets
  <2> QED BY <1>1, <2>2 DEF Counted, SendersInMask, DuplicatesCounted, CommitsCounted,
                            CompletedOnThreshold
<1>4. SavedReached'
  <2> SUFFICES ASSUME fails = 0, NEW b \in Blobbers PROVE Got(b, disk + 1)'
    BY <1>1 DEF SavedReached
  <2>1. Got(b, disk + 1) /\ unbuilt = {} BY DEF UInv, Types, Reached, SavedReached
  <2>2. CASE disk = None BY <2>2, <1>1 DEF Got, None, Pieces
  <2>3. CASE has' = has BY <2>1, <2>3, <1>1 DEF Got
  <2> QED BY <2>2, <2>3, <1>1
<1>5. OthersHold' BY <1>1 DEF OthersHold
<1>6. MaskReached'
  <2> SUFFICES ASSUME Trusted', NEW b \in Blobbers
               PROVE  Got(b, cur)' /\ Got(b, idx + 1)'
    BY <1>1 DEF MaskReached
  <2>1. Got(b, cur)' BY <1>1 DEF Got, Pieces
  <2>2. Got(b, idx + 1)'
    <3>1. fails' = 0 BY <1>1 DEF Trusted, UInv, Types
    <3>2. Got(b, disk + 1)' BY <3>1, <1>4 DEF SavedReached
    <3> QED BY <3>2, <1>1 DEF Got
  <2> QED BY <2>1, <2>2
<1> QED BY <1>2, <1>3, <1>4, <1>5, <1>6 DEF UInv, Reached

-----------------------------------------------------------------------------
LEMMA UStep == UInv /\ [Next]_vars => UInv'
<1> SUFFICES ASSUME UInv, [Next]_vars PROVE UInv' OBVIOUS
<1>1. CASE Work
  BY <1>1, SkipStep, EndActions, SendStep, ExchangeActions, CommitStep, DoneStep, LockStep,
     CommittedStep DEF Work
<1>2. CASE Crash \/ ReadFails BY <1>2, EndActions
<1>3. CASE Again BY <1>3, AgainStep
<1>4. CASE \E b \in Blobbers : BuildFails(b) \/ PieceFails(b) \/ PieceTooMany(b) BY <1>4, ExchangeActions
<1>5. CASE UNCHANGED vars
  <2> USE <1>5 DEF vars, store, UInv
  <2>1. Types' BY DEF Types
  <2>2. Counted'
    BY DEF Counted, SendersInMask, DuplicatesCounted, CommitsCounted, CompletedOnThreshold
  <2>3. \A b, n : Got(b, n)' = Got(b, n) BY DEF Got
  <2>4. Reached' BY <2>3 DEF Reached, SavedReached, OthersHold, MaskReached, Trusted
  <2> QED BY <2>1, <2>2, <2>4
<1> QED BY <1>1, <1>2, <1>3, <1>4, <1>5 DEF Next, Finished

LEMMA UAlways == Spec => []UInv
BY UInit, UStep, PTL DEF Spec

\* An upload that returns without an error is on Thresh blobbers, whichever requests
\* failed, were answered late or were duplicates, and after however many crashes: no
\* blobber is counted both as a duplicate and as a commit, and a resumed call starts
\* counting anew.
THEOREM UploadHolds == Spec => []CompletedOnThreshold
<1>1. UInv => CompletedOnThreshold BY DEF UInv, Counted
<1> QED BY <1>1, UAlways, PTL

\* Whoever is asked to commit has got every piece of the file or had the file before,
\* in a first call whatever fails, unless a request could not be built for it
\* (chunked_upload.go:666-672), and in a resumed one when nothing failed: the saved index
\* is never ahead of what the blobbers got.
THEOREM MaskComplete == Spec => []MaskHoldsAll
<1>1. UInv => MaskHoldsAll
  <2> SUFFICES ASSUME UInv, pc \in {"lock", "commit"}, calls = 1 \/ fails = 0, NEW b \in mask \ unbuilt
               PROVE  has[b] = Pieces \/ b \in holds
    BY DEF MaskHoldsAll
  <2>1. Got(b, K) BY DEF UInv, Reached, MaskReached, Trusted
  <2>2. has[b] \in SUBSET Pieces BY DEF UInv, Types
  <2>3. \A p \in Pieces : p < K BY ChunkedUploadConstants DEF Pieces
  <2>4. b \in holds \/ Pieces \in SUBSET has[b] BY <2>1, <2>3 DEF Got
  <2> QED BY <2>2, <2>4
<1> QED BY <1>1, UAlways, PTL
=============================================================================
