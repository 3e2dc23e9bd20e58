----------------------------- MODULE AllocCommit -----------------------------
(***************************************************************************)
(* How an allocation's blobbers stay on one version: MultiOperation.Process *)
(* from the moment it holds the write-marker lock, Allocation.              *)
(* CheckAllocStatus, the commit worker, RollbackWithMask and the repair     *)
(* that CheckAllocStatus asks for.                                          *)
(*                                                                         *)
(* One writer at a time is between Lock and Unlock (MutualExclusion of      *)
(* WriteMarkerMutex), so the state of "the" operation is that writer's.     *)
(* Operation o uploads file o.  The version (FileMetaRoot) of a blobber is  *)
(* the set of files in its tree, with 0 for the root directory itself; {}   *)
(* is the empty string a rollback marker carries when there is no previous  *)
(* marker.  wm[b] and prev[b] are the latest and the previous write marker  *)
(* blobber b reports.  Each fan-out of goroutines over the blobbers is the  *)
(* set todo of those that have not returned, in any order.                  *)
(***************************************************************************)
EXTENDS Integers, FiniteSets

CONSTANTS
  Blobbers,     \* a.Blobbers
  DataShards,
  ParityShards,
  MaxOps,       \* bound: operations attempted
  MaxErr,       \* bound: write markers and file metas that cannot be read
  MaxLost,      \* bound: requests whose outcome the client does not learn
  MaxNow        \* bound: seconds

ASSUME AllocConstants ==
  /\ IsFiniteSet(Blobbers)
  /\ DataShards \in Nat \ {0}
  /\ ParityShards \in Nat
  /\ Cardinality(Blobbers) = DataShards + ParityShards
  /\ MaxOps \in Nat
  /\ MaxErr \in Nat
  /\ MaxLost \in Nat
  /\ MaxNow \in Nat

VARIABLES
  wm,             \* latest_write_marker of each blobber
  prev,           \* prev_write_marker of each blobber
  late,           \* commit requests the client gave up, still on their way
  phase,          \* where Process is
  op,             \* the operation
  mask,           \* mo.operationMask
  todo,           \* goroutines of the current fan-out still running
  lpm,            \* the markers read, per blobber
  prevVersion, latestVersion, highestTS,
  errCnt,         \* errCnt of CheckAllocStatus
  ok,             \* the blobbers whose commit succeeded (rollbackMask)
  now,            \* common.Now(), in seconds
  repairing,      \* a RepairRequest is being processed
  result,         \* what Process last returned
  acked,          \* history: the operations that completed
  failed,         \* history: the operations that returned an error
  dirty,          \* history: operations with a request of unknown outcome
  lost,           \* history: how many such requests there were
  blind,          \* history: how many markers and file metas could not be read
  split           \* history: a rollback was decided on too few markers (TooFew)

blobberVars == <<wm, prev, late>>
checkVars == <<lpm, prevVersion, latestVersion, highestTS>>
historyVars == <<acked, failed, dirty, lost, blind, split>>
vars == <<wm, prev, late, phase, op, mask, todo, lpm, prevVersion, latestVersion,
          highestTS, errCnt, ok, now, repairing, result, acked, failed, dirty, lost,
          blind, split>>

Root == 0
Ops == 1 .. MaxOps
NoVersion == {}
Versions == SUBSET ({Root} \cup Ops)
Markers == [v : Versions, ts : Nat]
NoMarker == [v |-> NoVersion, ts |-> 0]     \* nil
Unread == [latest |-> NoMarker, prev |-> NoMarker]

\* getConsensuses
Thresh == IF ParityShards = 0 THEN DataShards ELSE DataShards + 1

Phases == {"idle", "check", "rollback", "commit", "undo"}

Init ==
  /\ wm = [b \in Blobbers |-> NoMarker]
  /\ prev = [b \in Blobbers |-> NoMarker]
  /\ late = {}
  /\ phase = "idle"
  /\ op = 0
  /\ mask = {}
  /\ todo = {}
  /\ lpm = [b \in Blobbers |-> Unread]
  /\ prevVersion = NoVersion
  /\ latestVersion = NoVersion
  /\ highestTS = 0
  /\ errCnt = 0
  /\ ok = {}
  /\ now = 1
  /\ repairing = FALSE
  /\ result = "none"
  /\ acked = {}
  /\ failed = {}
  /\ dirty = {}
  /\ lost = 0
  /\ blind = 0
  /\ split = FALSE

-----------------------------------------------------------------------------
(* What a blobber does with a marker (external)                            *)

\* The tree of b with the change applied becomes its latest version.
Applied(b, m) ==
  /\ wm' = [wm EXCEPT ![b] = m]
  /\ prev' = [prev EXCEPT ![b] = wm[b]]

\* A rollback marker is accepted for the marker it was made from.
RolledBack(b, r) ==
  /\ wm[b] = r.latest
  /\ wm' = [wm EXCEPT ![b] = [v |-> r.prev.v, ts |-> r.latest.ts]]
  /\ UNCHANGED prev

\* A commit request its sender gave up arrives.  The blobber takes it only while
\* its tree is still the one the marker was computed from.
LateCommit(r) ==
  /\ r \in late
  /\ late' = late \ {r}
  /\ IF wm[r.blobber].v = r.from THEN Applied(r.blobber, r.marker) ELSE UNCHANGED <<wm, prev>>
  /\ UNCHANGED <<phase, op, mask, todo, checkVars, errCnt, ok, now, repairing, result,
                 historyVars>>

\* The client does not learn what became of a request.
Unheard == lost < MaxLost /\ lost' = lost + 1

\* common.Now() when a timestamp is taken: the same second or a later one.
Clock == now' \in {now, now + 1} /\ now' <= MaxNow

-----------------------------------------------------------------------------
(* CheckAllocStatus                                                        *)

\* The operations were processed and the lock is held.  The lock counts its lead
\* blobber, which need not be in the mask.
Locked ==
  /\ phase = "idle"
  /\ op < MaxOps
  /\ op' = op + 1
  /\ mask' \in {m \in SUBSET Blobbers : Cardinality(m) >= Thresh - 1}
  /\ phase' = "check"
  /\ todo' = Blobbers
  /\ errCnt' = 0
  /\ result' = "none"
  /\ UNCHANGED <<blobberVars, checkVars, ok, now, repairing, historyVars>>

\* GetWritemarker returns and its result is received from markerChan.
MarkerRead(b) ==
  /\ phase = "check" /\ b \in todo
  /\ todo' = todo \ {b}
  /\ lpm' = [lpm EXCEPT ![b] = [latest |-> wm[b], prev |-> prev[b]]]
  /\ IF wm[b] = NoMarker
       THEN UNCHANGED <<prevVersion, latestVersion, highestTS>>
       ELSE LET newer == highestTS < wm[b].ts
                older == IF newer THEN latestVersion ELSE prevVersion
            IN /\ highestTS' = IF newer THEN wm[b].ts ELSE highestTS
               /\ latestVersion' = IF newer THEN wm[b].v ELSE latestVersion
               /\ prevVersion' = IF older = NoVersion THEN wm[b].v ELSE older
  /\ UNCHANGED <<blobberVars, phase, op, mask, errCnt, ok, now, repairing, result, historyVars>>

\* It fails: an error, a status other than OK, a bad signature, three times 429.
MarkerError(b) ==
  /\ phase = "check" /\ b \in todo
  /\ blind < MaxErr
  /\ errCnt' = errCnt + 1
  /\ todo' = todo \ {b}
  /\ blind' = blind + 1
  /\ UNCHANGED <<blobberVars, phase, op, mask, checkVars, ok, now, repairing, result,
                 acked, failed, dirty, lost, split>>

\* versionMap
VersionMap(v) == {b \in Blobbers : lpm[b].latest # NoMarker /\ lpm[b].latest.v = v}
VersionsSeen == {lpm[b].latest.v : b \in {c \in Blobbers : lpm[c].latest # NoMarker}}
Count(v) == Cardinality(VersionMap(v))

Unreachable == ParityShards > 0 /\ errCnt > ParityShards
SeesCommit == Cardinality(VersionsSeen) < 2 \/ Count(latestVersion) > DataShards
\* Mutant: a version on exactly DataShards blobbers is rolled back, not repaired.
SeesRepairStrict ==
  \/ Count(latestVersion) > DataShards
  \/ Count(prevVersion) > DataShards
  \/ Cardinality(VersionsSeen) > 2

SeesRepair ==
  \/ Count(latestVersion) >= DataShards
  \/ Count(prevVersion) >= DataShards
  \/ Cardinality(VersionsSeen) > 2

\* Process returns without a commit; locals of the check are forgotten.
Returns(r) ==
  /\ result' = r
  /\ phase' = "idle"
  /\ lpm' = [b \in Blobbers |-> Unread]
  /\ prevVersion' = NoVersion
  /\ latestVersion' = NoVersion
  /\ highestTS' = 0
  /\ ok' = {}

CheckFails ==
  /\ phase = "check" /\ todo = {} /\ Unreachable
  /\ Returns("check_alloc_status_failed")
  /\ failed' = failed \cup {op}
  /\ UNCHANGED <<blobberVars, op, mask, todo, errCnt, now, repairing, acked, dirty, lost, blind,
                 split>>

\* Status Commit: a commit goroutine for every blobber of the mask, one timestamp.
StatusCommit ==
  /\ phase = "check" /\ todo = {} /\ ~Unreachable /\ SeesCommit
  /\ phase' = "commit"
  /\ todo' = mask
  /\ Clock
  /\ UNCHANGED <<blobberVars, op, mask, checkVars, errCnt, ok, repairing, result, historyVars>>

\* Status Repair: unlock, ErrRetryOperation.  No repair starts if one of this
\* allocation is running in the process or the listing fails.
StatusRepair ==
  /\ phase = "check" /\ todo = {} /\ ~Unreachable /\ ~SeesCommit /\ SeesRepair
  /\ Returns("retry_operation")
  /\ repairing' \in {repairing, TRUE}
  /\ failed' = failed \cup {op}
  /\ UNCHANGED <<blobberVars, op, mask, todo, errCnt, now, acked, dirty, lost, blind, split>>

\* Of two versions on all blobbers that showed a marker, both may have fewer than DataShards.
TooFew == Cardinality({b \in Blobbers : lpm[b].latest # NoMarker}) < 2 * DataShards - 1

\* Neither: roll back the blobbers of the latest version.
StartRollback ==
  /\ phase = "check" /\ todo = {} /\ ~Unreachable /\ ~SeesCommit /\ ~SeesRepair
  /\ phase' = "rollback"
  /\ todo' = VersionMap(latestVersion)
  /\ errCnt' = 0
  /\ split' = (split \/ (acked # {} /\ TooFew))
  /\ UNCHANGED <<blobberVars, op, mask, checkVars, ok, now, repairing, result, acked, failed, dirty,
                 lost, blind>>

\* processRollback succeeds, is refused, or is done without the client hearing of it.
\* (Three answers 429 are a refusal here; the code then reads a nil response, line 207.)
RollbackOK(b) ==
  /\ phase = "rollback" /\ b \in todo
  /\ todo' = todo \ {b}
  /\ RolledBack(b, lpm[b])
  /\ UNCHANGED <<late, phase, op, mask, checkVars, errCnt, ok, now, repairing, result, historyVars>>

RollbackRefused(b) ==
  /\ phase = "rollback" /\ b \in todo
  /\ todo' = todo \ {b}
  /\ errCnt' = errCnt + 1
  /\ UNCHANGED <<blobberVars, phase, op, mask, checkVars, ok, now, repairing, result, historyVars>>

RollbackUnheard(b) ==
  /\ phase = "rollback" /\ b \in todo
  /\ todo' = todo \ {b}
  /\ errCnt' = errCnt + 1
  /\ RolledBack(b, lpm[b])
  /\ Unheard
  /\ UNCHANGED <<late, phase, op, mask, checkVars, ok, now, repairing, result, acked, failed,
                 dirty, blind, split>>

FullConsensus == Count(latestVersion) - (DataShards - Count(prevVersion))

\* wg.Wait(): Broken, Repair or Rollback, by the number of failed rollbacks.
RollbackDone ==
  /\ phase = "rollback" /\ todo = {}
  /\ Returns(IF errCnt > FullConsensus THEN "rollback_failed" ELSE "retry_operation")
  /\ repairing' \in {repairing, repairing \/ errCnt = FullConsensus}
  /\ failed' = failed \cup {op}
  /\ UNCHANGED <<blobberVars, op, mask, todo, errCnt, now, acked, dirty, lost, blind, split>>

-----------------------------------------------------------------------------
(* Commit                                                                  *)

NewMarker(b) == [v |-> wm[b].v \cup {Root, op}, ts |-> now]

\* The goroutine of b returns: processCommit took the reference path and marker of
\* b, applied the change, and the blobber accepted the signed marker.
CommitOK(b) ==
  /\ phase = "commit" /\ b \in todo
  /\ todo' = todo \ {b}
  /\ Applied(b, NewMarker(b))
  /\ ok' = ok \cup {b}
  /\ UNCHANGED <<late, phase, op, mask, checkVars, errCnt, now, repairing, result, historyVars>>

\* An error before the marker is sent, or an error response.
CommitRefused(b) ==
  /\ phase = "commit" /\ b \in todo
  /\ todo' = todo \ {b}
  /\ UNCHANGED <<blobberVars, phase, op, mask, checkVars, errCnt, ok, now, repairing, result,
                 historyVars>>

\* Mutant: the signed marker does not name the root it was computed from.
CommitTimeoutNoPrevRoot(b) ==
  /\ phase = "commit" /\ b \in todo
  /\ todo' = todo \ {b}
  /\ Unheard
  /\ dirty' = dirty \cup {op}
  /\ late' = late \cup {[blobber |-> b, marker |-> NewMarker(b)]}
  /\ UNCHANGED <<wm, prev, phase, op, mask, checkVars, errCnt, ok, now, repairing, result,
                 acked, failed, blind, split>>

\* No answer in 60 seconds: the blobber committed all the same, or still may.
CommitTimeout(b) ==
  /\ phase = "commit" /\ b \in todo
  /\ todo' = todo \ {b}
  /\ Unheard
  /\ dirty' = dirty \cup {op}
  /\ \/ Applied(b, NewMarker(b)) /\ UNCHANGED late
     \/ /\ late' = late \cup {[blobber |-> b, from |-> wm[b].v, marker |-> NewMarker(b)]}
        /\ UNCHANGED <<wm, prev>>
  /\ UNCHANGED <<phase, op, mask, checkVars, errCnt, ok, now, repairing, result, acked, failed,
                 blind, split>>

IsConsensusOk == Cardinality(ok) >= Thresh

CommitDone ==
  /\ phase = "commit" /\ todo = {} /\ IsConsensusOk
  /\ Returns("ok")
  /\ acked' = acked \cup {op}
  /\ UNCHANGED <<blobberVars, op, mask, todo, errCnt, now, repairing, failed, dirty, lost, blind,
                 split>>

\* Mutant: the commits that did succeed are not rolled back.
StartUndoNothing ==
  /\ phase = "commit" /\ todo = {} /\ ~IsConsensusOk
  /\ phase' = "undo"
  /\ todo' = {}
  /\ UNCHANGED <<blobberVars, op, mask, checkVars, errCnt, ok, now, repairing, result, historyVars>>

\* Too few: RollbackWithMask for the blobbers that committed.
StartUndo ==
  /\ phase = "commit" /\ todo = {} /\ ~IsConsensusOk
  /\ phase' = "undo"
  /\ todo' = ok
  /\ UNCHANGED <<blobberVars, op, mask, checkVars, errCnt, ok, now, repairing, result, historyVars>>

\* It reads the marker again and rolls that one back.
UndoOK(b) ==
  /\ phase = "undo" /\ b \in todo
  /\ todo' = todo \ {b}
  /\ RolledBack(b, [latest |-> wm[b], prev |-> prev[b]])
  /\ UNCHANGED <<late, phase, op, mask, checkVars, errCnt, ok, now, repairing, result, historyVars>>

\* Either request fails: the error is logged and nothing else.
UndoFails(b) ==
  /\ phase = "undo" /\ b \in todo
  /\ todo' = todo \ {b}
  /\ Unheard
  /\ dirty' = dirty \cup {op}
  /\ UNCHANGED <<blobberVars, phase, op, mask, checkVars, errCnt, ok, now, repairing, result,
                 acked, failed, blind, split>>

UndoDone ==
  /\ phase = "undo" /\ todo = {}
  /\ Returns("consensus_not_met")
  /\ failed' = failed \cup {op}
  /\ UNCHANGED <<blobberVars, op, mask, todo, errCnt, now, repairing, acked, dirty, lost, blind,
                 split>>

-----------------------------------------------------------------------------
(* Repair                                                                  *)

Holders(o) == {b \in Blobbers : o \in wm[b].v}

\* The blobbers of S commit a change of file o, and others do not.
RepairCommit(S, o, add) ==
  /\ wm' = [b \in Blobbers |->
              IF b \in S THEN [v |-> IF add THEN wm[b].v \cup {Root, o} ELSE wm[b].v \ {o},
                               ts |-> now]
                         ELSE wm[b]]
  /\ prev' = [b \in Blobbers |-> IF b \in S THEN wm[b] ELSE prev[b]]

\* repairFile: the file is uploaded to the blobbers that did not report it if
\* DataShards did, and deleted from those that did otherwise.
RepairFile(o, found) ==
  /\ repairing /\ phase = "idle"
  /\ found \subseteq Holders(o)
  /\ blind' = blind + Cardinality(Holders(o) \ found)
  /\ blind' <= MaxErr
  /\ Clock
  /\ IF Cardinality(found) >= DataShards
       THEN \E S \in SUBSET (Blobbers \ Holders(o)) \ {{}} : RepairCommit(S, o, TRUE)
       ELSE \E S \in SUBSET found \ {{}} : RepairCommit(S, o, FALSE)
  /\ UNCHANGED <<late, phase, op, mask, todo, checkVars, errCnt, ok, repairing, result,
                 acked, failed, dirty, lost, split>>

RepairDone ==
  /\ repairing /\ phase = "idle"
  /\ repairing' = FALSE
  /\ UNCHANGED <<blobberVars, phase, op, mask, todo, checkVars, errCnt, ok, now, result,
                 historyVars>>

-----------------------------------------------------------------------------
Goroutine(b) ==
  \/ MarkerRead(b) \/ MarkerError(b)
  \/ RollbackOK(b) \/ RollbackRefused(b) \/ RollbackUnheard(b)
  \/ CommitOK(b) \/ CommitRefused(b) \/ CommitTimeout(b)
  \/ UndoOK(b) \/ UndoFails(b)

Process ==
  \/ Locked \/ CheckFails \/ StatusCommit \/ StatusRepair \/ StartRollback
  \/ RollbackDone \/ CommitDone \/ StartUndo \/ UndoDone

\* The caller has no further operation.
NoMoreOperations == phase = "idle" /\ op = MaxOps /\ UNCHANGED vars

Next ==
  \/ Process \/ NoMoreOperations
  \/ \E b \in Blobbers : Goroutine(b)
  \/ \E r \in late : LateCommit(r)
  \/ \E o \in Ops, found \in SUBSET Blobbers : RepairFile(o, found)
  \/ RepairDone

Spec == Init /\ [][Next]_vars

-----------------------------------------------------------------------------
Results == {"none", "ok", "retry_operation", "check_alloc_status_failed",
            "rollback_failed", "consensus_not_met"}
LateCommits == [blobber : Blobbers, from : Versions, marker : Markers]

\* The type invariant.
TypeOK ==
  /\ wm \in [Blobbers -> Markers]
  /\ prev \in [Blobbers -> Markers]
  /\ late \in SUBSET LateCommits
  /\ phase \in Phases
  /\ op \in 0 .. MaxOps
  /\ mask \in SUBSET Blobbers
  /\ todo \in SUBSET Blobbers
  /\ lpm \in [Blobbers -> [latest : Markers, prev : Markers]]
  /\ prevVersion \in Versions
  /\ latestVersion \in Versions
  /\ highestTS \in Nat
  /\ errCnt \in Nat
  /\ ok \in SUBSET Blobbers
  /\ now \in Nat
  /\ repairing \in BOOLEAN
  /\ result \in Results
  /\ acked \in SUBSET Ops
  /\ failed \in SUBSET Ops
  /\ dirty \in SUBSET Ops
  /\ lost \in Nat
  /\ blind \in Nat
  /\ split \in BOOLEAN

\* An operation reported as completed stays readable: DataShards blobbers hold its
\* file, whatever later operations, rollbacks and repairs do, as long as every marker and
\* file meta they act on was read and no rollback chose between two versions that can
\* both be on fewer than DataShards blobbers.  (CheckAllocStatus counts a blobber it
\* could not read as one without the version, and skips one without a marker: with three
\* or more data shards an operation can then complete on two versions, neither of which
\* has DataShards blobbers, and the check rolls one of them back, rollback.go:256, 290.
\* With one or two data shards a completed operation leaves too many markers for that.)
AckedAvailable ==
  blind = 0 /\ ~split => \A o \in acked : Cardinality(Holders(o)) >= DataShards

\* An operation that returned an error is on no blobber, unless the outcome of one
\* of its own requests is unknown: RollbackWithMask undoes every counted commit.
FailedLeavesNoTrace ==
  \A o \in failed \ dirty, b \in Blobbers : o \notin wm[b].v
=============================================================================
