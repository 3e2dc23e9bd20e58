---------------------------- MODULE ChunkedUpload ----------------------------
(***************************************************************************)
(* ChunkedUpload.Start (chunked_upload.go, chunked_upload_blobber.go): a   *)
(* file is read in pieces (chunkNumber chunks each), every piece is sent   *)
(* to all blobbers of the mask, the index of the last piece is saved now   *)
(* and then, and at the end the blobbers are locked and commit.  The       *)
(* client may crash or the call may fail; called again, it resumes from    *)
(* the saved progress.                                                     *)
(*                                                                         *)
(* has[b]: the pieces blobber b received on the connection of the upload.  *)
(* holds: the blobbers that committed the file.                            *)
(***************************************************************************)
EXTENDS Integers, FiniteSets

CONSTANTS
  N, Parity,
  K,          \* the file has K pieces
  Ends,       \* how the source may end: TRUE if with an empty read after the pieces
  MaxHeld,    \* bound: blobbers that have the file before
  MaxTries,   \* attempts of a request answered 429
  MaxFail,    \* bound: failing exchanges
  MaxCalls    \* bound: calls of Start, crashes included

Blobbers == 0 .. N-1
Thresh == N - Parity + 1
Pieces == 0 .. K-1
None == -1

ASSUME ChunkedUploadConstants ==
  /\ N \in Nat \ {0} /\ Parity \in 1 .. N-1 /\ K \in Nat \ {0}
  /\ Ends \subseteq BOOLEAN /\ Ends # {} /\ MaxHeld \in 0 .. N
  /\ MaxTries \in Nat \ {0} /\ MaxFail \in Nat /\ MaxCalls \in Nat \ {0}

VARIABLES
  has, holds,
  disk,       \* the saved ChunkIndex, or None
  pc,         \* "read", "fan", "lock", "commit", "end", "down"
  idx,        \* progress.ChunkIndex
  cur,        \* the piece at hand
  mask,       \* uploadMask
  g, tries,   \* the goroutine of each blobber, its attempts
  consensus, addConsensus,
  errCount,
  wgErrors,   \* errors in the channel
  fixed,      \* blobbers whose fileRef is complete
  result,
  emptyLast,  \* how this source ends
  unbuilt,    \* history: blobbers for which a request could not be built in this call
  calls, fails

store == <<has, holds, disk>>
vars == <<store, pc, idx, cur, mask, g, tries, consensus, addConsensus, errCount, wgErrors, fixed,
          result, calls, fails, emptyLast, unbuilt>>

Idle == [b \in Blobbers |-> "end"]
Zero == [b \in Blobbers |-> 0]

\* CreateChunkedUpload: loadProgress and createUploadProgress.  Only ChunkIndex and the
\* connection are saved: the mask is full again.
Fresh(saved) ==
  /\ pc' = "read" /\ idx' = saved /\ cur' = 0
  /\ mask' = Blobbers
  /\ g' = Idle /\ tries' = Zero
  /\ consensus' = 0 /\ addConsensus' = 0 /\ errCount' = 0 /\ wgErrors' = 0
  /\ fixed' = {} /\ result' = "none" /\ unbuilt' = {}

Init ==
  /\ has = [b \in Blobbers |-> {}]
  /\ holds \in {h \in SUBSET Blobbers : Cardinality(h) <= MaxHeld}
  /\ emptyLast \in Ends
  /\ disk = None
  /\ pc = "read" /\ idx = None /\ cur = 0 /\ mask = Blobbers
  /\ g = Idle /\ tries = Zero
  /\ consensus = 0 /\ addConsensus = 0 /\ errCount = 0 /\ wgErrors = 0
  /\ fixed = {} /\ result = "none" /\ unbuilt = {} /\ calls = 1 /\ fails = 0

MayFail == fails < MaxFail /\ fails' = fails + 1

-----------------------------------------------------------------------------
(* process and processUpload                                               *)

IsFinal(p) == IF emptyLast THEN p = K ELSE p = K - 1
Return(r) == pc' = "end" /\ result' = r

\* Mutant: the loop never moves on to the next piece.
AdvanceStays ==
  IF IsFinal(cur)
    THEN pc' = "lock" /\ UNCHANGED cur
    ELSE pc' = "read" /\ UNCHANGED cur

\* After a piece: the next, or on to the commit.
Advance ==
  IF IsFinal(cur)
    THEN pc' = "lock" /\ UNCHANGED cur
    ELSE pc' = "read" /\ cur' = cur + 1

\* readChunks: a piece the saved progress already covers is only hashed.
SkipPiece ==
  /\ pc = "read" /\ cur <= idx
  /\ Advance
  /\ UNCHANGED <<store, idx, mask, g, tries, consensus, addConsensus, errCount, wgErrors, fixed,
                 result, calls, fails, emptyLast, unbuilt>>

\* The empty piece has no shards: "No data to upload".
NoData ==
  /\ pc = "read" /\ cur > idx /\ cur = K
  /\ consensus' = 0
  /\ Return("no_data")
  /\ UNCHANGED <<store, idx, cur, mask, g, tries, addConsensus, errCount, wgErrors, fixed,
                 calls, fails, emptyLast, unbuilt>>

ReadFails ==
  /\ pc = "read" /\ MayFail
  /\ Return("read_failed")
  /\ UNCHANGED <<store, idx, cur, mask, g, tries, consensus, addConsensus, errCount, wgErrors, fixed,
                 calls, emptyLast, unbuilt>>

\* Mutant: the piece is saved as soon as it is under way.
SendPieceSaves ==
  /\ pc = "read" /\ cur > idx /\ cur < K
  /\ addConsensus < Thresh
  /\ pc' = "fan"
  /\ g' = [b \in Blobbers |-> IF b \in mask THEN "send" ELSE "end"]
  /\ tries' = Zero
  /\ consensus' = 0 /\ errCount' = 0 /\ wgErrors' = 0
  /\ disk' = cur
  /\ UNCHANGED <<has, holds, idx, cur, mask, addConsensus, fixed, result, calls, fails, emptyLast, unbuilt>>

\* processUpload: the goroutines of one piece.
SendPiece ==
  /\ pc = "read" /\ cur > idx /\ cur < K
  /\ addConsensus < Thresh
  /\ pc' = "fan"
  /\ g' = [b \in Blobbers |-> IF b \in mask THEN "send" ELSE "end"]
  /\ tries' = Zero
  /\ consensus' = 0 /\ errCount' = 0 /\ wgErrors' = 0
  /\ UNCHANGED <<store, idx, cur, mask, addConsensus, fixed, result, calls, fails, emptyLast, unbuilt>>

\* sendUploadRequest answered 200.
PieceOK(b) ==
  /\ pc = "fan" /\ g[b] = "send" /\ b \notin holds
  /\ has' = [has EXCEPT ![b] = @ \cup {cur}]
  /\ g' = [g EXCEPT ![b] = "end"]
  /\ consensus' = consensus + 1
  /\ fixed' = IF IsFinal(cur) THEN fixed \cup {b} ELSE fixed
  /\ UNCHANGED <<holds, disk, pc, idx, cur, mask, tries, addConsensus, errCount, wgErrors, result,
                 calls, fails, emptyLast, unbuilt>>

\* "duplicate": the blobber has the file; it counts, and leaves the mask.
PieceDuplicate(b) ==
  /\ pc = "fan" /\ g[b] = "send" /\ b \in holds
  /\ g' = [g EXCEPT ![b] = "end"]
  /\ mask' = mask \ {b}
  /\ consensus' = consensus + 1
  /\ addConsensus' = addConsensus + 1
  /\ wgErrors' = IF addConsensus + 1 >= Thresh THEN wgErrors + 1 ELSE wgErrors
  /\ UNCHANGED <<store, pc, idx, cur, tries, errCount, fixed, result, calls, fails, emptyLast, unbuilt>>

CountError ==
  /\ errCount' = errCount + 1
  /\ wgErrors' = IF errCount + 1 > Parity - 1 THEN wgErrors + 1 ELSE wgErrors
\* The deferred function of sendUploadRequest, and the error count.
PieceError(b) ==
  /\ g' = [g EXCEPT ![b] = "end"]
  /\ mask' = mask \ {b}
  /\ CountError

\* formBuilder.Build fails: an error is counted, but nothing is sent and the blobber
\* stays in the mask.
BuildFails(b) ==
  /\ pc = "fan" /\ g[b] = "send" /\ tries[b] = 0 /\ MayFail
  /\ g' = [g EXCEPT ![b] = "end"]
  /\ CountError
  /\ unbuilt' = unbuilt \cup {b}
  /\ UNCHANGED <<store, pc, idx, cur, mask, tries, consensus, addConsensus, fixed, result, calls,
                 emptyLast>>

\* No answer, though the piece may have arrived, or an error.
PieceFails(b) ==
  /\ pc = "fan" /\ g[b] = "send" /\ MayFail
  /\ PieceError(b)
  /\ has' \in {has, [has EXCEPT ![b] = @ \cup {cur}]}
  /\ UNCHANGED <<holds, disk, pc, idx, cur, tries, consensus, addConsensus, fixed, result, calls,
                 emptyLast, unbuilt>>

\* 429: wait and send again, MaxTries times in all.
PieceTooMany(b) ==
  /\ pc = "fan" /\ g[b] = "send" /\ MayFail
  /\ tries' = [tries EXCEPT ![b] = @ + 1]
  /\ IF tries[b] + 1 < MaxTries THEN UNCHANGED <<g, mask, errCount, wgErrors>> ELSE PieceError(b)
  /\ UNCHANGED <<store, pc, idx, cur, consensus, addConsensus, fixed, result, calls, emptyLast, unbuilt>>

\* The check before the select: an earlier piece was a duplicate on Thresh blobbers.
\* The requests just sent are cancelled.
DuplicateUpload ==
  /\ pc = "read" /\ cur > idx /\ cur < K
  /\ addConsensus >= Thresh
  /\ consensus' = 0
  /\ disk' = None
  /\ Return("upload_failed")
  /\ UNCHANGED <<has, holds, idx, cur, mask, g, tries, addConsensus, errCount, wgErrors, fixed,
                 calls, fails, emptyLast, unbuilt>>

AllAnswered == \A b \in Blobbers : g[b] = "end"

\* The select takes an error, or the nil of the closed wgErrors: once all goroutines are
\* done both channels are closed, and either case may be chosen.
SelectError ==
  /\ pc = "fan" /\ (wgErrors > 0 \/ AllAnswered)
  /\ disk' = None
  /\ Return("upload_failed")
  /\ UNCHANGED <<has, holds, idx, cur, mask, g, tries, consensus, addConsensus, errCount, wgErrors,
                 fixed, calls, fails, emptyLast, unbuilt>>

NoConsensus ==
  /\ pc = "fan" /\ AllAnswered /\ consensus < Thresh
  /\ Return("consensus_not_met")
  /\ UNCHANGED <<store, idx, cur, mask, g, tries, consensus, addConsensus, errCount, wgErrors, fixed,
                 calls, fails, emptyLast, unbuilt>>

\* The piece is uploaded: saveProgress, which writes the file once a second only.
PieceDone ==
  /\ pc = "fan" /\ AllAnswered /\ consensus >= Thresh
  /\ idx' = cur
  /\ disk' \in {disk, cur}
  /\ Advance
  /\ UNCHANGED <<has, holds, mask, g, tries, consensus, addConsensus, errCount, wgErrors, fixed,
                 result, calls, fails, emptyLast, unbuilt>>

-----------------------------------------------------------------------------
(* Start after process                                                     *)

\* Lock (module WriteMarkerMutex), with the duplicates counted.
Locked ==
  /\ pc = "lock" /\ addConsensus # N
  /\ \E held \in SUBSET Blobbers \ {{}}, kept \in SUBSET mask :
       /\ Cardinality(held \ mask) <= 1
       /\ Cardinality(held) + addConsensus >= Thresh
       /\ mask' = (mask \cap held) \cup kept
       /\ fails' = fails + Cardinality(mask \ held) /\ fails' <= MaxFail
  /\ pc' = "commit"
  /\ consensus' = addConsensus
  /\ g' = [b \in Blobbers |-> IF b \in mask' THEN "send" ELSE "end"]
  /\ UNCHANGED <<store, idx, cur, tries, addConsensus, errCount, wgErrors, fixed, result, calls,
                 emptyLast, unbuilt>>
LockFails ==
  /\ pc = "lock" /\ addConsensus # N
  /\ Return("lock_failed")
  /\ UNCHANGED <<store, idx, cur, mask, g, tries, consensus, addConsensus, errCount, wgErrors, fixed,
                 calls, fails, emptyLast, unbuilt>>

\* Every blobber has the file already.
AllDuplicates ==
  /\ pc = "lock" /\ addConsensus = N
  /\ Return("upload_failed")
  /\ UNCHANGED <<store, idx, cur, mask, g, tries, consensus, addConsensus, errCount, wgErrors, fixed,
                 calls, fails, emptyLast, unbuilt>>

\* The blobber commits if it got all pieces and the client's ref describes them.
Whole(b) == has[b] = Pieces /\ b \in fixed

\* processCommit of one blobber.
CommitOK(b) ==
  /\ pc = "commit" /\ g[b] = "send" /\ Whole(b)
  /\ g' = [g EXCEPT ![b] = "end"]
  /\ holds' = holds \cup {b}
  /\ consensus' = consensus + 1
  /\ UNCHANGED <<has, disk, pc, idx, cur, mask, tries, addConsensus, errCount, wgErrors, fixed, result,
                 calls, fails, emptyLast, unbuilt>>
CommitFails(b) ==
  /\ pc = "commit" /\ g[b] = "send"
  /\ g' = [g EXCEPT ![b] = "end"]
  /\ mask' = mask \ {b}
  /\ \/ ~Whole(b) /\ UNCHANGED <<holds, fails>>
     \/ Whole(b) /\ MayFail /\ holds' \in {holds, holds \cup {b}}
  /\ UNCHANGED <<has, disk, pc, idx, cur, tries, consensus, addConsensus, errCount, wgErrors, fixed,
                 result, calls, emptyLast, unbuilt>>

\* Mutant: one commit short of the threshold is enough.
CommittedOneShort ==
  /\ pc = "commit" /\ AllAnswered
  /\ disk' = None
  /\ Return(IF consensus >= Thresh - 1 THEN "ok" ELSE "commit_failed")
  /\ UNCHANGED <<has, holds, idx, cur, mask, g, tries, consensus, addConsensus, errCount, wgErrors,
                 fixed, calls, fails, emptyLast, unbuilt>>

\* All commits returned: the progress is removed in any case.
Committed ==
  /\ pc = "commit" /\ AllAnswered
  /\ disk' = None
  /\ Return(IF consensus >= Thresh THEN "ok" ELSE "commit_failed")
  /\ UNCHANGED <<has, holds, idx, cur, mask, g, tries, consensus, addConsensus, errCount, wgErrors,
                 fixed, calls, fails, emptyLast, unbuilt>>

-----------------------------------------------------------------------------
(* Crash and resume                                                        *)

Crash ==
  /\ pc \notin {"end", "down"} /\ calls < MaxCalls
  /\ pc' = "down"
  /\ UNCHANGED <<store, idx, cur, mask, g, tries, consensus, addConsensus, errCount, wgErrors, fixed,
                 result, calls, fails, emptyLast, unbuilt>>

\* The caller starts the upload again.  Without saved progress it gets a new connection,
\* on which the blobbers have nothing.
Again ==
  /\ pc = "down" \/ (pc = "end" /\ result # "ok")
  /\ calls < MaxCalls
  /\ calls' = calls + 1
  /\ Fresh(disk)
  /\ has' = IF disk = None THEN [b \in Blobbers |-> {}] ELSE has
  /\ UNCHANGED <<holds, disk, fails, emptyLast>>

Finished == pc = "end" /\ (result = "ok" \/ calls = MaxCalls) /\ UNCHANGED vars

Work ==
  \/ SkipPiece \/ NoData \/ SendPiece
  \/ \E b \in Blobbers : PieceOK(b) \/ PieceDuplicate(b) \/ CommitOK(b) \/ CommitFails(b)
  \/ DuplicateUpload \/ SelectError \/ NoConsensus \/ PieceDone
  \/ AllDuplicates \/ Locked \/ LockFails \/ Committed
Next ==
  \/ Work \/ Crash \/ Again \/ Finished \/ ReadFails
  \/ \E b \in Blobbers : BuildFails(b) \/ PieceFails(b) \/ PieceTooMany(b)

Spec == Init /\ [][Next]_vars
\* The goroutines of Start run, and every request is answered or times out.
FairSpec == Spec /\ WF_vars(Work)

-----------------------------------------------------------------------------
TypeOK ==
  /\ has \in [Blobbers -> SUBSET Pieces] /\ holds \subseteq Blobbers
  /\ disk \in -1 .. K-1 /\ idx \in -1 .. K-1 /\ cur \in 0 .. K
  /\ mask \subseteq Blobbers /\ fixed \subseteq Blobbers
  /\ g \in [Blobbers -> {"send", "end"}] /\ tries \in [Blobbers -> 0 .. MaxTries]
  /\ consensus \in 0 .. N /\ addConsensus \in 0 .. N
  /\ errCount \in 0 .. N /\ wgErrors \in 0 .. N
  /\ calls \in 1 .. MaxCalls /\ fails \in 0 .. MaxFail

\* An upload that reports success is on Thresh blobbers, counting those that had the
\* file before: whichever blobber failed at which piece, and across crashes.
CompletedOnThreshold == result = "ok" => Cardinality(holds) >= Thresh

\* Every piece has reached every blobber that is asked to commit: the mask a call ends
\* with agrees with the pieces it sent and, across crashes, with those the calls before
\* it sent, or the blobber had the file before.  With two exceptions: a call which resumes
\* after a failure knows nothing of it, as the mask is not part of the saved progress; and
\* a blobber whose request could not be built keeps its place in the mask.
MaskHoldsAll ==
  pc \in {"lock", "commit"} /\ (calls = 1 \/ fails = 0) =>
    \A b \in mask \ unbuilt : has[b] = Pieces \/ b \in holds

\* A call of Start ends, with or without success.
UploadEnds == pc = "read" ~> pc \in {"end", "down"}
=============================================================================
