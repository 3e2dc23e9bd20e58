-------------------------- MODULE AllocCommitProofs --------------------------
(***************************************************************************)
(* Proofs about AllocCommit for every allocation, number of operations and  *)
(* number of failures.                                                      *)
(***************************************************************************)
EXTENDS AllocCommit, FiniteSetTheorems, TLAPS

\* The nil marker and the empty snapshot are well formed.
LEMMA NilTypes ==
  /\ NoVersion \in Versions
  /\ NoMarker \in Markers
  /\ Unread \in [latest : Markers, prev : Markers]
  BY DEF NoVersion, Versions, NoMarker, Markers, Unread

\* What a commit or a rollback stores is a marker.
LEMMA MarkerTypes ==
  ASSUME TypeOK, NEW b \in Blobbers
  PROVE  /\ op \in Ops => NewMarker(b) \in Markers
         /\ \A r \in [latest : Markers, prev : Markers] :
              [v |-> r.prev.v, ts |-> r.latest.ts] \in Markers
  <1>1. wm[b].v \in Versions
    BY DEF TypeOK, Markers
  <1>. QED  BY <1>1 DEF TypeOK, NewMarker, Markers, Versions, Ops, Root

\* An idle allocation without write markers is well formed.
LEMMA TypeInit == Init => TypeOK
  <1> SUFFICES ASSUME Init PROVE TypeOK
    OBVIOUS
  <1>1. wm \in [Blobbers -> Markers] /\ prev \in [Blobbers -> Markers]
    BY NilTypes DEF Init
  <1>2. lpm \in [Blobbers -> [latest : Markers, prev : Markers]]
    BY NilTypes DEF Init
  <1>3. prevVersion \in Versions /\ latestVersion \in Versions /\ late \in SUBSET LateCommits
    BY NilTypes DEF Init
  <1>4. op \in 0 .. MaxOps
    BY AllocConstants DEF Init
  <1>. QED  BY <1>1, <1>2, <1>3, <1>4 DEF Init, TypeOK, Phases, Results

\* Where Process is, and what that says of its operation.
OpStarted == phase # "idle" => op \in Ops

TypeInv == TypeOK /\ OpStarted

\* The steps of the goroutines Process starts.
LEMMA TypeGoroutine ==
  ASSUME TypeInv, NEW b \in Blobbers, Goroutine(b)
  PROVE  TypeInv'
  <1> USE DEF TypeInv, TypeOK, OpStarted
  <1>0. op \in Ops
    BY DEF Goroutine, MarkerRead, MarkerError, RollbackOK, RollbackRefused, RollbackUnheard,
           CommitOK, CommitRefused, CommitTimeout, UndoOK, UndoFails
  <1>m. NewMarker(b) \in Markers
    BY <1>0, MarkerTypes
  <1>r. \A r \in [latest : Markers, prev : Markers] :
          [v |-> r.prev.v, ts |-> r.latest.ts] \in Markers
    BY MarkerTypes
  <1>v. wm[b] \in Markers /\ wm[b].v \in Versions /\ wm[b].ts \in Nat
    BY DEF Markers
  <1>1. CASE MarkerRead(b)
    <2>1. [latest |-> wm[b], prev |-> prev[b]] \in [latest : Markers, prev : Markers]
      OBVIOUS
    <2>2. lpm' \in [Blobbers -> [latest : Markers, prev : Markers]]
      BY <1>1, <2>1 DEF MarkerRead
    <2>3. prevVersion' \in Versions /\ latestVersion' \in Versions /\ highestTS' \in Nat
      BY <1>1, <1>v DEF MarkerRead
    <2>. QED  BY <1>1, <2>2, <2>3 DEF MarkerRead, blobberVars, historyVars
  <1>2. CASE MarkerError(b)
    BY <1>2 DEF MarkerError, blobberVars, checkVars, historyVars
  <1>3. CASE RollbackOK(b)
    <2>1. wm' \in [Blobbers -> Markers]
      BY <1>3, <1>r DEF RollbackOK, RolledBack
    <2>. QED  BY <1>3, <2>1 DEF RollbackOK, RolledBack, checkVars, historyVars
  <1>4. CASE RollbackRefused(b)
    BY <1>4 DEF RollbackRefused, blobberVars, checkVars, historyVars
  <1>5. CASE RollbackUnheard(b)
    <2>1. wm' \in [Blobbers -> Markers]
      BY <1>5, <1>r DEF RollbackUnheard, RolledBack
    <2>. QED  BY <1>5, <2>1 DEF RollbackUnheard, RolledBack, Unheard, checkVars, historyVars
  <1>6. CASE CommitOK(b)
    BY <1>6, <1>m, <1>v DEF CommitOK, Applied, checkVars, historyVars
  <1>7. CASE CommitRefused(b)
    BY <1>7 DEF CommitRefused, blobberVars, checkVars, historyVars
  <1>8. CASE CommitTimeout(b)
    <2>1. [blobber |-> b, from |-> wm[b].v, marker |-> NewMarker(b)] \in LateCommits
      BY <1>m, <1>v DEF LateCommits
    <2>2. late' \in SUBSET LateCommits /\ wm' \in [Blobbers -> Markers]
            /\ prev' \in [Blobbers -> Markers]
      BY <1>8, <2>1, <1>m, <1>v DEF CommitTimeout, Applied
    <2>. QED  BY <1>8, <1>0, <2>2 DEF CommitTimeout, Unheard, checkVars, historyVars
  <1>9. CASE UndoOK(b)
    <2>1. [latest |-> wm[b], prev |-> prev[b]] \in [latest : Markers, prev : Markers]
      OBVIOUS
    <2>2. wm' \in [Blobbers -> Markers]
      BY <1>9, <1>r, <2>1 DEF UndoOK, RolledBack
    <2>. QED  BY <1>9, <2>2 DEF UndoOK, RolledBack, checkVars, historyVars
  <1>10. CASE UndoFails(b)
    BY <1>10, <1>0 DEF UndoFails, Unheard, blobberVars, checkVars, historyVars
  <1>. QED  BY <1>1, <1>2, <1>3, <1>4, <1>5, <1>6, <1>7, <1>8, <1>9, <1>10 DEF Goroutine

\* The steps of Process itself.
LEMMA TypeProcess ==
  ASSUME TypeInv, Process
  PROVE  TypeInv'
  <1> USE AllocConstants DEF TypeInv, TypeOK, OpStarted
  <1>0. ASSUME NEW r \in Results, Returns(r)
        PROVE  /\ result' \in Results /\ phase' = "idle" /\ phase' \in Phases
               /\ lpm' \in [Blobbers -> [latest : Markers, prev : Markers]]
               /\ prevVersion' \in Versions /\ latestVersion' \in Versions
               /\ highestTS' \in Nat /\ ok' \in SUBSET Blobbers
    BY <1>0, NilTypes DEF Returns, Phases
  <1>1. CASE Locked
    BY <1>1 DEF Locked, Phases, Ops, Results, blobberVars, checkVars, historyVars
  <1>2. CASE CheckFails
    BY <1>2, <1>0 DEF CheckFails, Results, blobberVars
  <1>3. CASE StatusCommit
    BY <1>3 DEF StatusCommit, Clock, Phases, blobberVars, checkVars, historyVars
  <1>4. CASE StatusRepair
    BY <1>4, <1>0 DEF StatusRepair, Results, blobberVars
  <1>5. CASE StartRollback
    BY <1>5 DEF StartRollback, VersionMap, Phases, blobberVars, checkVars, historyVars
  <1>6. CASE RollbackDone
    BY <1>6, <1>0 DEF RollbackDone, Results, blobberVars
  <1>7. CASE CommitDone
    BY <1>7, <1>0 DEF CommitDone, Results, blobberVars
  <1>8. CASE StartUndo
    BY <1>8 DEF StartUndo, Phases, blobberVars, checkVars, historyVars
  <1>9. CASE UndoDone
    BY <1>9, <1>0 DEF UndoDone, Results, blobberVars
  <1>. QED  BY <1>1, <1>2, <1>3, <1>4, <1>5, <1>6, <1>7, <1>8, <1>9 DEF Process

\* A commit request that arrives late, and the repair.
LEMMA TypeOthers ==
  ASSUME TypeInv,
         \/ \E r \in late : LateCommit(r)
         \/ \E o \in Ops, found \in SUBSET Blobbers : RepairFile(o, found)
         \/ RepairDone
  PROVE  TypeInv'
  <1> USE AllocConstants DEF TypeInv, TypeOK, OpStarted
  <1>1. ASSUME NEW r \in late, LateCommit(r) PROVE TypeInv'
    <2>1. r.blobber \in Blobbers /\ r.marker \in Markers
      BY DEF LateCommits
    <2>2. wm' \in [Blobbers -> Markers] /\ prev' \in [Blobbers -> Markers]
      BY <1>1, <2>1 DEF LateCommit, Applied
    <2>. QED  BY <1>1, <2>2 DEF LateCommit, checkVars, historyVars
  <1>2. ASSUME NEW o \in Ops, NEW found \in SUBSET Blobbers, RepairFile(o, found)
        PROVE  TypeInv'
    <2>1. PICK S \in SUBSET Blobbers, add \in BOOLEAN : RepairCommit(S, o, add)
      BY <1>2 DEF RepairFile, Holders
    <2>2. \A b \in Blobbers :
            [v |-> IF add THEN wm[b].v \cup {Root, o} ELSE wm[b].v \ {o}, ts |-> now] \in Markers
      BY DEF Markers, Versions, Root
    <2>3. wm' \in [Blobbers -> Markers] /\ prev' \in [Blobbers -> Markers]
      BY <2>1, <2>2 DEF RepairCommit
    <2>4. blind' \in Nat
      <3>1. Cardinality(Holders(o) \ found) \in Nat
        BY FS_Subset, FS_CardinalityType DEF Holders
      <3>. QED  BY <1>2, <3>1 DEF RepairFile
    <2>. QED  BY <1>2, <2>3, <2>4 DEF RepairFile, Clock, checkVars
  <1>3. CASE RepairDone
    BY <1>3 DEF RepairDone, blobberVars, checkVars, historyVars
  <1>. QED  BY <1>1, <1>2, <1>3

\* Every step keeps the types.
LEMMA TypeNext == TypeInv /\ [Next]_vars => TypeInv'
  <1>1. ASSUME TypeInv, UNCHANGED vars PROVE TypeInv'
    BY <1>1 DEF TypeInv, TypeOK, OpStarted, vars
  <1>. QED  BY <1>1, TypeGoroutine, TypeProcess, TypeOthers DEF Next, NoMoreOperations

\* The type invariant holds for every allocation: what Process, the commit workers,
\* rollbacks, late requests and repairs store are write markers of its operations.
THEOREM TypeCorrect == Spec => []TypeOK
  <1>1. Init => TypeInv
    BY TypeInit DEF TypeInv, OpStarted, Init
  <1>. QED  BY <1>1, TypeNext, PTL DEF Spec, TypeInv

-----------------------------------------------------------------------------
(* A failed operation leaves no trace.  FailedLeavesNoTrace is not inductive: *)
(* a rollback restores prev, the check restores what it read, a late commit   *)
(* replaces the tree it was computed from.  So none of these may hold a file  *)
(* of a clean operation that did not complete, and the trees themselves only  *)
(* while the running operation can still undo it.                             *)

\* File o was completed, or may be anywhere because a request of o has no outcome.
Accounted(o) == o \in acked \cup dirty

\* The running operation committed at b and will count that commit or undo it.
Undoable(o, b) ==
  /\ o = op
  /\ \/ phase = "commit" /\ b \in ok
     \/ phase = "undo" /\ b \in todo

TreesAccounted ==
  \A b \in Blobbers : \A o \in wm[b].v \cap Ops : Accounted(o) \/ Undoable(o, b)

PrevAccounted == \A b \in Blobbers : \A o \in prev[b].v \cap Ops : Accounted(o)

SeenAccounted == \A b \in Blobbers : \A o \in lpm[b].prev.v \cap Ops : Accounted(o)

LateAccounted ==
  \A r \in late : \A o \in (r.from \cup r.marker.v) \cap Ops : Accounted(o)

\* A commit goroutine returns once, and only Process' last steps settle the operation.
Progress ==
  /\ phase = "commit" => ok \cap todo = {}
  /\ phase \in {"idle", "check", "rollback"} => ok = {}
  /\ \A o \in acked \cup failed \cup dirty : o <= op
  /\ phase # "idle" => op \notin acked \cup failed
  /\ acked \cap failed = {}

TraceInv ==
  TypeInv /\ TreesAccounted /\ PrevAccounted /\ SeenAccounted /\ LateAccounted /\ Progress

\* Nothing has happened yet.
LEMMA TraceInit == Init => TraceInv
  <1> SUFFICES ASSUME Init PROVE TraceInv
    OBVIOUS
  <1>1. TypeInv
    BY TypeInit DEF TypeInv, OpStarted, Init
  <1>2. TreesAccounted /\ PrevAccounted /\ SeenAccounted
    BY DEF Init, TreesAccounted, PrevAccounted, SeenAccounted, NoMarker, NoVersion, Unread
  <1>3. LateAccounted /\ Progress
    BY DEF Init, LateAccounted, Progress
  <1>. QED  BY <1>1, <1>2, <1>3 DEF TraceInv

\* Reading markers changes nothing but what was read, and that is accounted for.
LEMMA TraceRead ==
  ASSUME TraceInv, NEW b \in Blobbers, MarkerRead(b) \/ MarkerError(b)
  PROVE  TraceInv'
  <1>1. TypeInv'
    BY TypeGoroutine DEF TraceInv, Goroutine
  <1>2. UNCHANGED <<wm, prev, late, phase, op, ok, acked, failed, dirty>> /\ phase = "check"
    BY DEF MarkerRead, MarkerError, blobberVars, historyVars
  <1>3. TreesAccounted' /\ PrevAccounted' /\ LateAccounted'
    BY <1>2 DEF TraceInv, TreesAccounted, PrevAccounted, LateAccounted, Accounted, Undoable
  <1>4. Progress'
    BY <1>2 DEF TraceInv, Progress
  <1>5. SeenAccounted'
    <2>1. \A c \in Blobbers : lpm'[c].prev \in {lpm[c].prev, prev[c]}
      BY DEF MarkerRead, MarkerError, checkVars, TraceInv, TypeInv, TypeOK
    <2>. QED  BY <1>2, <2>1 DEF TraceInv, SeenAccounted, PrevAccounted, Accounted
  <1>. QED  BY <1>1, <1>3, <1>4, <1>5 DEF TraceInv

\* A rollback of CheckAllocStatus puts back the version it read as the previous one.
LEMMA TraceRollback ==
  ASSUME TraceInv, NEW b \in Blobbers, RollbackOK(b) \/ RollbackRefused(b) \/ RollbackUnheard(b)
  PROVE  TraceInv'
  <1>1. TypeInv'
    BY TypeGoroutine DEF TraceInv, Goroutine
  <1>2. /\ UNCHANGED <<prev, late, phase, op, ok, acked, failed, dirty, lpm>>
        /\ phase = "rollback"
    BY DEF RollbackOK, RollbackRefused, RollbackUnheard, RolledBack, blobberVars, checkVars,
           historyVars
  <1>3. \A c \in Blobbers : wm'[c].v \in {wm[c].v, lpm[c].prev.v}
    BY DEF RollbackOK, RollbackRefused, RollbackUnheard, RolledBack, blobberVars, TraceInv,
           TypeInv, TypeOK, Markers
  <1>4. TreesAccounted'
    BY <1>2, <1>3 DEF TraceInv, TreesAccounted, SeenAccounted, Accounted, Undoable
  <1>5. PrevAccounted' /\ SeenAccounted' /\ LateAccounted'
    BY <1>2 DEF TraceInv, PrevAccounted, SeenAccounted, LateAccounted, Accounted
  <1>6. Progress'
    BY <1>2 DEF TraceInv, Progress
  <1>. QED  BY <1>1, <1>4, <1>5, <1>6 DEF TraceInv

\* A commit that is counted can be undone; one without an outcome makes its operation
\* dirty.  Until then no tree of a blobber still to commit holds the running operation.
LEMMA TraceCommit ==
  ASSUME TraceInv, NEW b \in Blobbers, CommitOK(b) \/ CommitRefused(b) \/ CommitTimeout(b)
  PROVE  TraceInv'
  <1>1. TypeInv'
    BY TypeGoroutine DEF TraceInv, Goroutine
  <1>2. /\ UNCHANGED <<phase, op, acked, failed, lpm>>
        /\ phase = "commit" /\ b \in todo /\ todo' = todo \ {b}
        /\ dirty \subseteq dirty' /\ dirty' \subseteq dirty \cup {op}
        /\ ok \subseteq ok' /\ ok' \subseteq ok \cup {b}
    BY DEF CommitOK, CommitRefused, CommitTimeout, blobberVars, checkVars, historyVars
  <1>3. \A o \in wm[b].v \cap Ops : Accounted(o)
    BY <1>2 DEF TraceInv, TreesAccounted, Undoable, Progress
  <1>4. NewMarker(b).v \cap Ops \subseteq (wm[b].v \cap Ops) \cup {op}
    BY DEF NewMarker, Ops, Root
  <1>5. \A c \in Blobbers :
          /\ c # b => wm'[c] = wm[c] /\ prev'[c] = prev[c]
          /\ wm'[b] = NewMarker(b) \/ wm'[b] = wm[b]
          /\ prev'[b] = wm[b] \/ prev'[b] = prev[b]
    BY DEF CommitOK, CommitRefused, CommitTimeout, Applied, blobberVars, TraceInv, TypeInv, TypeOK
  <1>6. wm'[b] # wm[b] => b \in ok' \/ op \in dirty'
    BY DEF CommitOK, CommitRefused, CommitTimeout, Applied, blobberVars
  <1>7. TreesAccounted'
    <2> SUFFICES ASSUME NEW c \in Blobbers, NEW o \in wm'[c].v \cap Ops
                 PROVE  Accounted(o)' \/ Undoable(o, c)'
      BY DEF TreesAccounted
    <2>1. CASE wm'[c] = wm[c]
      BY <1>2, <2>1 DEF TraceInv, TreesAccounted, Accounted, Undoable
    <2>2. CASE wm'[c] # wm[c]
      <3>1. c = b /\ wm'[b] = NewMarker(b)
        BY <1>5, <2>2
      <3>2. CASE o = op
        BY <1>2, <1>6, <2>2, <3>1, <3>2 DEF Accounted, Undoable
      <3>3. CASE o # op
        BY <1>2, <1>3, <1>4, <3>1, <3>3 DEF Accounted
      <3>. QED  BY <3>2, <3>3
    <2>. QED  BY <2>1, <2>2
  <1>8. PrevAccounted' /\ SeenAccounted'
    BY <1>2, <1>3, <1>5 DEF TraceInv, PrevAccounted, SeenAccounted, Accounted
  <1>9. LateAccounted'
    <2>1. CASE late' = late
      BY <1>2, <2>1 DEF TraceInv, LateAccounted, Accounted
    <2>2. CASE late' # late
      <3> DEFINE new == [blobber |-> b, from |-> wm[b].v, marker |-> NewMarker(b)]
      <3>1. late' = late \cup {new} /\ op \in dirty'
        BY <2>2 DEF CommitOK, CommitRefused, CommitTimeout, blobberVars
      <3>2. \A o \in (new.from \cup new.marker.v) \cap Ops : Accounted(o)'
        BY <1>2, <1>3, <1>4, <3>1 DEF Accounted
      <3>. QED  BY <1>2, <3>1, <3>2 DEF TraceInv, LateAccounted, Accounted
    <2>. QED  BY <2>1, <2>2
  <1>10. Progress'
    <2>1. op <= op
      BY DEF TraceInv, TypeInv, TypeOK
    <2>. QED  BY <1>2, <2>1 DEF TraceInv, Progress
  <1>. QED  BY <1>1, <1>7, <1>8, <1>9, <1>10 DEF TraceInv

\* RollbackWithMask puts back the previous version, or leaves the operation dirty.
LEMMA TraceUndo ==
  ASSUME TraceInv, NEW b \in Blobbers, UndoOK(b) \/ UndoFails(b)
  PROVE  TraceInv'
  <1>1. TypeInv'
    BY TypeGoroutine DEF TraceInv, Goroutine
  <1>2. /\ UNCHANGED <<phase, op, acked, failed, lpm, prev, late, ok>>
        /\ phase = "undo" /\ todo' = todo \ {b}
        /\ dirty \subseteq dirty' /\ dirty' \subseteq dirty \cup {op}
    BY DEF UndoOK, UndoFails, RolledBack, blobberVars, checkVars, historyVars
  <1>3. \A c \in Blobbers : c # b => wm'[c].v = wm[c].v
    BY DEF UndoOK, UndoFails, RolledBack, blobberVars, TraceInv, TypeInv, TypeOK
  <1>4. wm'[b].v = prev[b].v \/ (wm'[b].v = wm[b].v /\ op \in dirty')
    BY DEF UndoOK, UndoFails, RolledBack, blobberVars, TraceInv, TypeInv, TypeOK
  <1>5. TreesAccounted'
    <2> SUFFICES ASSUME NEW c \in Blobbers, NEW o \in wm'[c].v \cap Ops
                 PROVE  Accounted(o)' \/ Undoable(o, c)'
      BY DEF TreesAccounted
    <2>1. CASE c # b
      BY <1>2, <1>3, <2>1 DEF TraceInv, TreesAccounted, Accounted, Undoable
    <2>2. CASE c = b
      BY <1>2, <1>4, <2>2 DEF TraceInv, TreesAccounted, PrevAccounted, Accounted, Undoable
    <2>. QED  BY <2>1, <2>2
  <1>6. PrevAccounted' /\ SeenAccounted' /\ LateAccounted'
    BY <1>2 DEF TraceInv, PrevAccounted, SeenAccounted, LateAccounted, Accounted
  <1>7. Progress'
    <2>1. op <= op
      BY DEF TraceInv, TypeInv, TypeOK
    <2>. QED  BY <1>2, <2>1 DEF TraceInv, Progress
  <1>. QED  BY <1>1, <1>5, <1>6, <1>7 DEF TraceInv

\* Starting an operation, choosing a status and starting a fan-out move no file.
LEMMA TraceStart ==
  ASSUME TraceInv, Locked \/ StatusCommit \/ StartRollback \/ StartUndo
  PROVE  TraceInv'
  <1>1. TypeInv'
    BY TypeProcess DEF TraceInv, Process
  <1>2. UNCHANGED <<wm, prev, late, lpm, ok, acked, failed, dirty>>
    BY DEF Locked, StatusCommit, StartRollback, StartUndo, blobberVars, checkVars, historyVars
  <1>3. PrevAccounted' /\ SeenAccounted' /\ LateAccounted'
    BY <1>2 DEF TraceInv, PrevAccounted, SeenAccounted, LateAccounted, Accounted
  <1>4. TreesAccounted'
    <2>1. \A o, b : Undoable(o, b) => Undoable(o, b)'
      BY <1>2 DEF Undoable, Locked, StatusCommit, StartRollback, StartUndo
    <2>. QED  BY <1>2, <2>1 DEF TraceInv, TreesAccounted, Accounted
  <1>5. Progress'
    <2>1. CASE Locked
      <3>1. op \in Nat /\ op' = op + 1 /\ phase = "idle" /\ phase' = "check"
        BY <2>1, AllocConstants DEF Locked, TraceInv, TypeInv, TypeOK
      <3>2. \A o \in acked \cup failed \cup dirty : o \in Nat /\ o <= op /\ o <= op + 1 /\ o # op + 1
        BY <3>1 DEF TraceInv, TypeInv, TypeOK, Progress, Ops
      <3>. QED  BY <1>2, <3>1, <3>2 DEF TraceInv, Progress
    <2>2. CASE StatusCommit
      BY <1>2, <2>2 DEF TraceInv, Progress, StatusCommit
    <2>3. CASE StartRollback
      BY <1>2, <2>3 DEF TraceInv, Progress, StartRollback
    <2>4. CASE StartUndo
      BY <1>2, <2>4 DEF TraceInv, Progress, StartUndo
    <2>. QED  BY <2>1, <2>2, <2>3, <2>4
  <1>. QED  BY <1>1, <1>3, <1>4, <1>5 DEF TraceInv

\* Process returns: it counts its commits, or none is left to undo.
LEMMA TraceReturn ==
  ASSUME TraceInv, CheckFails \/ StatusRepair \/ RollbackDone \/ CommitDone \/ UndoDone
  PROVE  TraceInv'
  <1>1. TypeInv'
    BY TypeProcess DEF TraceInv, Process
  <1>2. /\ UNCHANGED <<wm, prev, late, op, dirty>>
        /\ phase # "idle" /\ phase' = "idle" /\ ok' = {}
        /\ lpm' = [b \in Blobbers |-> Unread]
    BY DEF CheckFails, StatusRepair, RollbackDone, CommitDone, UndoDone, Returns, blobberVars
  <1>3. \/ acked' = acked \cup {op} /\ failed' = failed
        \/ acked' = acked /\ failed' = failed \cup {op} /\ ~(phase = "commit") /\ todo = {}
    BY DEF CheckFails, StatusRepair, RollbackDone, CommitDone, UndoDone
  <1>4. PrevAccounted' /\ LateAccounted'
    BY <1>2, <1>3 DEF TraceInv, PrevAccounted, LateAccounted, Accounted
  <1>5. SeenAccounted'
    BY <1>2 DEF SeenAccounted, Unread, NoMarker, NoVersion
  <1>6. TreesAccounted'
    <2>1. \A o, b : Undoable(o, b) => o \in acked'
      BY <1>3 DEF Undoable
    <2>. QED  BY <1>2, <1>3, <2>1 DEF TraceInv, TreesAccounted, Accounted
  <1>7. Progress'
    <2>1. op <= op
      BY DEF TraceInv, TypeInv, TypeOK
    <2>. QED  BY <1>2, <1>3, <2>1 DEF TraceInv, Progress
  <1>. QED  BY <1>1, <1>4, <1>5, <1>6, <1>7 DEF TraceInv

\* A late commit replaces only the tree it was computed from, which held nothing that
\* could still be undone.
LEMMA TraceLate ==
  ASSUME TraceInv, NEW r \in late, LateCommit(r)
  PROVE  TraceInv'
  <1>1. TypeInv'
    BY TypeOthers DEF TraceInv
  <1>2. UNCHANGED <<phase, op, todo, ok, lpm, acked, failed, dirty>> /\ late' \subseteq late
    BY DEF LateCommit, checkVars, historyVars
  <1>3. r.blobber \in Blobbers
    BY DEF TraceInv, TypeInv, TypeOK, LateCommits
  <1>4. \A c \in Blobbers :
          \/ wm'[c] = wm[c] /\ prev'[c] = prev[c]
          \/ wm'[c] = r.marker /\ prev'[c] = wm[c] /\ wm[c].v = r.from
    BY <1>3 DEF LateCommit, Applied, TraceInv, TypeInv, TypeOK
  <1>5. \A o \in (r.from \cup r.marker.v) \cap Ops : Accounted(o)
    BY DEF TraceInv, LateAccounted
  <1>6. TreesAccounted'
    BY <1>2, <1>4, <1>5 DEF TraceInv, TreesAccounted, Accounted, Undoable
  <1>7. PrevAccounted'
    BY <1>2, <1>4, <1>5 DEF TraceInv, PrevAccounted, Accounted
  <1>8. SeenAccounted' /\ LateAccounted'
    BY <1>2 DEF TraceInv, SeenAccounted, LateAccounted, Accounted
  <1>9. Progress'
    BY <1>2 DEF TraceInv, Progress
  <1>. QED  BY <1>1, <1>6, <1>7, <1>8, <1>9 DEF TraceInv

\* A repair uploads only a file that DataShards blobbers reported, so one is there.
LEMMA TraceRepair ==
  ASSUME TraceInv,
         \/ \E o \in Ops, found \in SUBSET Blobbers : RepairFile(o, found)
         \/ RepairDone
  PROVE  TraceInv'
  <1>1. TypeInv'
    BY TypeOthers DEF TraceInv
  <1>2. UNCHANGED <<late, phase, op, ok, lpm, acked, failed, dirty>> /\ phase = "idle"
    BY DEF RepairFile, RepairDone, blobberVars, checkVars, historyVars
  <1>3. \A b \in Blobbers : \A o \in wm[b].v \cap Ops : Accounted(o)
    BY <1>2 DEF TraceInv, TreesAccounted, Undoable
  <1>4. SeenAccounted' /\ LateAccounted' /\ Progress'
    BY <1>2 DEF TraceInv, SeenAccounted, LateAccounted, Accounted, Progress
  <1>5. ASSUME NEW o \in Ops, NEW found \in SUBSET Blobbers, RepairFile(o, found)
        PROVE  TreesAccounted' /\ PrevAccounted'
    <2>1. PICK S \in SUBSET Blobbers, add \in BOOLEAN :
            /\ RepairCommit(S, o, add)
            /\ add => Cardinality(found) >= DataShards
      BY <1>5 DEF RepairFile, Holders
    <2>2. add => Accounted(o)
      <3>1. add => found # {}
        BY <2>1, FS_EmptySet, AllocConstants
      <3>. QED  BY <1>3, <1>5, <3>1 DEF RepairFile, Holders
    <2>3. \A b \in Blobbers :
            /\ wm'[b].v \cap Ops \subseteq
                 (wm[b].v \cap Ops) \cup (IF add THEN {o} ELSE {})
            /\ prev'[b] = wm[b] \/ prev'[b] = prev[b]
      BY <2>1 DEF RepairCommit, Ops, Root
    <2>4. TreesAccounted'
      BY <1>2, <1>3, <2>2, <2>3 DEF TreesAccounted, Accounted
    <2>5. PrevAccounted'
      BY <1>2, <1>3, <2>3 DEF TraceInv, PrevAccounted, Accounted
    <2>. QED  BY <2>4, <2>5
  <1>6. ASSUME RepairDone PROVE TreesAccounted' /\ PrevAccounted'
    BY <1>2, <1>6 DEF RepairDone, blobberVars, TraceInv, TreesAccounted, PrevAccounted,
                      Accounted, Undoable
  <1>. QED  BY <1>1, <1>4, <1>5, <1>6 DEF TraceInv

\* Every step keeps every file accounted for.
LEMMA TraceNext == TraceInv /\ [Next]_vars => TraceInv'
  <1> SUFFICES ASSUME TraceInv, [Next]_vars PROVE TraceInv'
    OBVIOUS
  <1>1. CASE Process
    BY <1>1, TraceStart, TraceReturn DEF Process
  <1>2. CASE \E b \in Blobbers : Goroutine(b)
    BY <1>2, TraceRead, TraceRollback, TraceCommit, TraceUndo DEF Goroutine
  <1>3. CASE \E r \in late : LateCommit(r)
    BY <1>3, TraceLate
  <1>4. CASE (\E o \in Ops, found \in SUBSET Blobbers : RepairFile(o, found)) \/ RepairDone
    BY <1>4, TraceRepair
  <1>5. CASE UNCHANGED vars
    <2>1. TypeInv'
      BY TypeNext DEF TraceInv
    <2>2. Progress' /\ LateAccounted' /\ SeenAccounted' /\ PrevAccounted' /\ TreesAccounted'
      BY <1>5 DEF vars, TraceInv, Progress, LateAccounted, SeenAccounted, PrevAccounted,
                  TreesAccounted, Accounted, Undoable
    <2>. QED  BY <2>1, <2>2 DEF TraceInv
  <1>. QED  BY <1>1, <1>2, <1>3, <1>4, <1>5 DEF Next, NoMoreOperations

\* For every allocation, any number of operations, failures and lost requests, and any
\* repairs between them: an operation Process reported as failed is on no blobber, unless
\* one of its own commits or rollbacks has no known outcome.
THEOREM NoTrace == Spec => []FailedLeavesNoTrace
  <1>1. TraceInv => FailedLeavesNoTrace
    <2> SUFFICES ASSUME TraceInv, NEW o \in failed \ dirty, NEW b \in Blobbers, o \in wm[b].v
                 PROVE  FALSE
      BY DEF FailedLeavesNoTrace
    <2>1. o \in Ops /\ o \notin acked
      BY DEF TraceInv, TypeInv, TypeOK, Progress
    <2>2. Undoable(o, b)
      BY <2>1 DEF TraceInv, TreesAccounted, Accounted
    <2>. QED  BY <2>2 DEF Undoable, TraceInv, Progress
  <1>. QED  BY <1>1, TraceInit, TraceNext, PTL DEF Spec

-----------------------------------------------------------------------------
(* A completed operation stays readable.  Only rollbacks take files away.     *)
(* RollbackWithMask takes only the running operation's: nothing can have      *)
(* landed on its commits.  A rollback of CheckAllocStatus leaves one version  *)
(* alone that has enough blobbers, if every marker was read: the blobbers the *)
(* completed operation needs were all seen with it, as trees only grow while  *)
(* the check reads.                                                           *)

\* The commit of the running operation is the last thing that happened at b.
Committed(b) ==
  /\ op \in wm[b].v /\ wm[b].ts > 0
  /\ wm[b].v \subseteq prev[b].v \cup {Root, op}

\* Requests on their way were computed before the running operation's commits.
Fresh ==
  /\ phase \in {"check", "rollback"} => op \notin dirty
  /\ phase \in {"commit", "undo"} => \A r \in late : op \notin r.from
  /\ phase = "commit" => \A b \in todo :
       op \notin wm[b].v /\ \A r \in late : r.blobber = b => op \notin r.marker.v
  /\ phase = "commit" => \A b \in ok : Committed(b)
  /\ phase = "undo" => \A b \in todo : Committed(b)

Stamped == now >= 1 /\ \A r \in late : r.marker.ts >= 1 /\ r.from \subseteq r.marker.v

\* What the check has read so far: latestVersion was read from a blobber, and no tree has
\* lost a file since it was read.
ReadInv ==
  /\ phase = "idle" => highestTS = 0 /\ \A b \in Blobbers : lpm[b] = Unread
  /\ phase = "check" =>
       /\ \A b \in Blobbers : lpm[b].latest.ts <= highestTS
       /\ \/ highestTS = 0
          \/ \E b \in Blobbers \ todo :
               lpm[b].latest.v = latestVersion /\ lpm[b].latest.ts = highestTS
       /\ \A b \in Blobbers \ todo : blind = 0 => lpm[b].latest.v \subseteq wm[b].v

\* The blobbers that hold file o, or have a marker, as far as the check has read and will
\* read if nothing else happens.
Read(o) == {b \in Blobbers : IF b \in todo THEN o \in wm[b].v ELSE o \in lpm[b].latest.v}
Stamps == {b \in Blobbers : wm[b].ts > 0}
StampsRead == {b \in Blobbers : IF b \in todo THEN wm[b].ts > 0 ELSE lpm[b].latest.ts > 0}

Enough(S) == Cardinality(S) >= DataShards

Kept(o) ==
  /\ Enough(Holders(o))
  /\ phase = "check" => Enough(Read(o))
  /\ phase = "rollback" => Enough(Holders(o) \ todo)

\* What AckedAvailable supposes.
Sure == blind = 0 /\ ~split
USE DEF Sure

KeptStamps ==
  acked # {} => /\ Cardinality(Stamps) >= Thresh
                /\ phase = "check" => Cardinality(StampsRead) >= Thresh

AckInv ==
  /\ TraceInv /\ Fresh /\ Stamped /\ ReadInv
  /\ Sure => KeptStamps /\ \A o \in acked : Kept(o)

\* More blobbers are enough too.
LEMMA MoreBlobbers ==
  ASSUME NEW S, NEW T, S \subseteq T, T \subseteq Blobbers, NEW n \in Nat, Cardinality(S) >= n
  PROVE  Cardinality(T) >= n
  <1>1. IsFiniteSet(T) /\ IsFiniteSet(S)
    BY AllocConstants, FS_Subset
  <1>2. Cardinality(S) <= Cardinality(T) /\ Cardinality(S) \in Nat /\ Cardinality(T) \in Nat
    BY <1>1, FS_Subset, FS_CardinalityType
  <1>. QED  BY <1>2

LEMMA EnoughMore ==
  ASSUME NEW S, NEW T, S \subseteq T, T \subseteq Blobbers, Enough(S)
  PROVE  Enough(T)
  BY MoreBlobbers, AllocConstants DEF Enough

LEMMA ThreshNat == Thresh \in Nat /\ Thresh >= DataShards
  BY AllocConstants DEF Thresh

LEMMA AckInit == Init => AckInv
  <1> SUFFICES ASSUME Init PROVE AckInv
    OBVIOUS
  <1>1. TraceInv
    BY TraceInit
  <1>2. Fresh /\ Stamped /\ ReadInv
    BY DEF Init, Fresh, Stamped, ReadInv
  <1>3. KeptStamps /\ \A o \in acked : Kept(o)
    BY DEF Init, KeptStamps
  <1>. QED  BY <1>1, <1>2, <1>3 DEF AckInv

\* While only files and markers come, what is kept stays kept.
LEMMA GrowsKept ==
  ASSUME AckInv, acked' = acked, Sure' => Sure,
         \A b \in Blobbers : wm[b].v \cap acked \subseteq wm'[b].v /\ (wm[b].ts > 0 => wm'[b].ts > 0),
         phase' = "check" =>
           /\ phase = "check"
           /\ \A o \in acked : Read(o) \subseteq Read(o)'
           /\ StampsRead \subseteq StampsRead',
         phase' = "rollback" => phase = "rollback" /\ todo' \subseteq todo
  PROVE  Sure' => KeptStamps' /\ \A o \in acked' : Kept(o)'
  <1> SUFFICES ASSUME Sure' PROVE KeptStamps' /\ \A o \in acked' : Kept(o)'
    OBVIOUS
  <1>0. Sure /\ acked \subseteq Ops /\ KeptStamps
    BY DEF AckInv, TraceInv, TypeInv, TypeOK
  <1>1. KeptStamps'
    <2>1. Stamps \subseteq Stamps' /\ Stamps' \subseteq Blobbers /\ StampsRead' \subseteq Blobbers
      BY DEF Stamps, StampsRead
    <2>2. acked' # {} => Cardinality(Stamps') >= Thresh
      BY <1>0, <2>1, MoreBlobbers, ThreshNat DEF KeptStamps
    <2>3. acked' # {} /\ phase' = "check" => Cardinality(StampsRead') >= Thresh
      BY <1>0, <2>1, MoreBlobbers, ThreshNat DEF KeptStamps
    <2>4. Thresh' = Thresh
      BY DEF Thresh
    <2>. QED  BY <2>2, <2>3, <2>4 DEF KeptStamps
  <1>2. ASSUME NEW o \in acked' PROVE Kept(o)'
    <2>1. o \in acked /\ o \in Ops /\ Kept(o)
      BY <1>0 DEF AckInv
    <2>2. /\ Holders(o) \subseteq Holders(o)' /\ Holders(o)' \subseteq Blobbers
          /\ Read(o)' \subseteq Blobbers
      BY <2>1 DEF Holders, Read
    <2>3. Enough(Holders(o)')
      BY <2>1, <2>2, EnoughMore DEF Kept
    <2>4. phase' = "check" => Enough(Read(o)')
      BY <2>1, <2>2, EnoughMore DEF Kept
    <2>5. phase' = "rollback" => Enough(Holders(o)' \ todo')
      <3> SUFFICES ASSUME phase' = "rollback" PROVE Enough(Holders(o)' \ todo')
        OBVIOUS
      <3>1. Holders(o) \ todo \subseteq Holders(o)' \ todo' /\ Holders(o)' \ todo' \subseteq Blobbers
        BY <2>2
      <3>. QED  BY <2>1, <3>1, EnoughMore DEF Kept
    <2>. QED  BY <2>3, <2>4, <2>5 DEF Kept, Enough
  <1>. QED  BY <1>1, <1>2

\* Reading a marker moves a blobber from what will be read to what was read.
LEMMA AckRead ==
  ASSUME AckInv, NEW b \in Blobbers, MarkerRead(b) \/ MarkerError(b)
  PROVE  AckInv'
  <1>1. TraceInv'
    BY TraceRead DEF AckInv
  <1>2. /\ UNCHANGED <<wm, late, phase, op, now, acked, dirty>>
        /\ phase = "check" /\ b \in todo /\ todo' = todo \ {b}
        /\ blind \in Nat
    BY DEF MarkerRead, MarkerError, blobberVars, historyVars, AckInv, TraceInv, TypeInv, TypeOK
  <1>3. Fresh' /\ Stamped'
    BY <1>2 DEF AckInv, Fresh, Stamped
  <1>4. CASE MarkerRead(b)
    <2>1. /\ UNCHANGED <<blind, split>>
          /\ lpm'[b].latest = wm[b] /\ \A c \in Blobbers : c # b => lpm'[c] = lpm[c]
      BY <1>4 DEF MarkerRead, historyVars, AckInv, TraceInv, TypeInv, TypeOK
    <2>2. wm[b].ts \in Nat /\ highestTS \in Nat /\ \A c \in Blobbers : lpm[c].latest.ts \in Nat
      BY DEF AckInv, TraceInv, TypeInv, TypeOK, Markers
    <2>3. \/ wm[b].ts = 0 /\ UNCHANGED <<latestVersion, highestTS>>
          \/ highestTS < wm[b].ts /\ highestTS' = wm[b].ts /\ latestVersion' = wm[b].v
          \/ ~(highestTS < wm[b].ts) /\ UNCHANGED <<latestVersion, highestTS>>
      BY <1>4 DEF MarkerRead, NoMarker
    <2>4. ReadInv'
      <3>1. \A c \in Blobbers : lpm'[c].latest.ts <= highestTS'
        BY <1>2, <2>1, <2>2, <2>3 DEF AckInv, ReadInv
      <3>2. \/ highestTS' = 0
            \/ \E c \in Blobbers \ todo' :
                 lpm'[c].latest.v = latestVersion' /\ lpm'[c].latest.ts = highestTS'
        <4>1. CASE highestTS' = wm[b].ts /\ latestVersion' = wm[b].v
          BY <1>2, <2>1, <4>1
        <4>2. CASE UNCHANGED <<latestVersion, highestTS>>
          BY <1>2, <2>1, <4>2 DEF AckInv, ReadInv
        <4>. QED  BY <2>3, <4>1, <4>2
      <3>3. \A c \in Blobbers \ todo' : blind' = 0 => lpm'[c].latest.v \subseteq wm'[c].v
        BY <1>2, <2>1 DEF AckInv, ReadInv
      <3>. QED  BY <1>2, <3>1, <3>2, <3>3 DEF ReadInv
    <2>5. (\A o \in acked : Read(o) \subseteq Read(o)') /\ StampsRead \subseteq StampsRead'
      BY <1>2, <2>1 DEF Read, StampsRead
    <2>6. Sure' => KeptStamps' /\ \A o \in acked' : Kept(o)'
      BY <1>2, <2>1, <2>5, GrowsKept
    <2>. QED  BY <1>1, <1>3, <2>4, <2>6 DEF AckInv
  <1>5. CASE MarkerError(b)
    <2>1. blind' # 0 /\ UNCHANGED <<lpm, latestVersion, highestTS>>
      BY <1>2, <1>5 DEF MarkerError, checkVars
    <2>2. ReadInv'
      BY <1>2, <2>1 DEF AckInv, ReadInv
    <2>. QED  BY <1>1, <1>3, <2>1, <2>2 DEF AckInv
  <1>. QED  BY <1>4, <1>5

\* A rollback of the check concerns none of the blobbers that are kept.
LEMMA AckRollback ==
  ASSUME AckInv, NEW b \in Blobbers, RollbackOK(b) \/ RollbackRefused(b) \/ RollbackUnheard(b)
  PROVE  AckInv'
  <1>1. TraceInv'
    BY TraceRollback DEF AckInv
  <1>2. /\ UNCHANGED <<late, phase, op, now, acked, dirty, blind, split>>
        /\ phase = "rollback" /\ b \in todo /\ todo' = todo \ {b}
    BY DEF RollbackOK, RollbackRefused, RollbackUnheard, blobberVars, historyVars
  <1>3. \A c \in Blobbers : wm'[c].ts = wm[c].ts /\ (c # b => wm'[c] = wm[c])
    BY DEF RollbackOK, RollbackRefused, RollbackUnheard, RolledBack, blobberVars, AckInv,
           TraceInv, TypeInv, TypeOK, Markers
  <1>4. Fresh' /\ Stamped' /\ ReadInv'
    BY <1>2 DEF AckInv, Fresh, Stamped, ReadInv
  <1>5. ASSUME Sure' PROVE KeptStamps' /\ \A o \in acked' : Kept(o)'
    <2>1. KeptStamps /\ \A o \in acked : Kept(o)
      BY <1>2, <1>5 DEF AckInv
    <2>2. KeptStamps'
      <3>1. Stamps' = Stamps
        BY <1>3 DEF Stamps
      <3>. QED  BY <1>2, <2>1, <3>1 DEF KeptStamps, Thresh
    <2>3. ASSUME NEW o \in acked' PROVE Kept(o)'
      <3>1. Enough(Holders(o) \ todo)
        BY <1>2, <2>1, <2>3 DEF Kept
      <3>2. /\ Holders(o) \ todo \subseteq Holders(o)' \ todo'
            /\ Holders(o) \ todo \subseteq Holders(o)'
            /\ Holders(o)' \subseteq Blobbers /\ Holders(o)' \ todo' \subseteq Blobbers
        BY <1>2, <1>3 DEF Holders
      <3>3. Enough(Holders(o)') /\ Enough(Holders(o)' \ todo')
        BY <3>1, <3>2, EnoughMore
      <3>. QED  BY <1>2, <3>3 DEF Kept, Enough
    <2>. QED  BY <2>2, <2>3
  <1>. QED  BY <1>1, <1>4, <1>5 DEF AckInv

\* A commit adds the running operation to a tree that did not have it.
LEMMA AckCommit ==
  ASSUME AckInv, NEW b \in Blobbers, CommitOK(b) \/ CommitRefused(b) \/ CommitTimeout(b)
  PROVE  AckInv'
  <1>1. TraceInv'
    BY TraceCommit DEF AckInv
  <1>2. /\ UNCHANGED <<phase, op, now, acked, blind, split>>
        /\ phase = "commit" /\ b \in todo /\ todo' = todo \ {b}
        /\ ok' = ok \/ (ok' = ok \cup {b} /\ wm'[b] = NewMarker(b) /\ prev'[b] = wm[b])
    BY DEF CommitOK, CommitRefused, CommitTimeout, Applied, blobberVars, historyVars, AckInv,
           TraceInv, TypeInv, TypeOK
  <1>3. /\ \A c \in Blobbers : c # b => wm'[c] = wm[c] /\ prev'[c] = prev[c]
        /\ wm'[b] = wm[b] \/ wm'[b] = NewMarker(b)
    BY DEF CommitOK, CommitRefused, CommitTimeout, Applied, blobberVars, AckInv, TraceInv,
           TypeInv, TypeOK
  <1>4. /\ NewMarker(b).v = wm[b].v \cup {Root, op} /\ NewMarker(b).ts = now /\ now > 0
        /\ op \notin wm[b].v /\ b \notin ok
    BY <1>2 DEF NewMarker, AckInv, Stamped, Fresh, TraceInv, Progress, TypeInv, TypeOK
  <1>5. \/ late' = late
        \/ late' = late \cup {[blobber |-> b, from |-> wm[b].v, marker |-> NewMarker(b)]}
    BY DEF CommitOK, CommitRefused, CommitTimeout, blobberVars
  <1>6. Fresh'
    <2>1. \A r \in late' : op \notin r.from
      BY <1>2, <1>4, <1>5 DEF AckInv, Fresh
    <2>2. \A c \in todo' : op \notin wm'[c].v /\ \A r \in late' : r.blobber = c => op \notin r.marker.v
      <3>1. \A c \in todo' : c # b /\ c \in todo /\ c \in Blobbers
        BY <1>2 DEF AckInv, TraceInv, TypeInv, TypeOK
      <3>. QED  BY <1>2, <1>3, <1>5, <3>1 DEF AckInv, Fresh
    <2>3. ASSUME NEW c \in ok' PROVE Committed(c)'
      <3>1. CASE c = b
        <4>1. wm'[b] = NewMarker(b) /\ prev'[b] = wm[b]
          BY <1>2, <1>4, <2>3, <3>1
        <4>. QED  BY <1>2, <1>4, <3>1, <4>1 DEF Committed
      <3>2. CASE c # b
        <4>1. c \in ok /\ c \in Blobbers
          BY <1>2, <2>3, <3>2 DEF AckInv, TraceInv, TypeInv, TypeOK
        <4>. QED  BY <1>2, <1>3, <3>2, <4>1 DEF AckInv, Fresh, Committed
      <3>. QED  BY <3>1, <3>2
    <2>. QED  BY <1>2, <2>1, <2>2, <2>3 DEF Fresh
  <1>7. Stamped'
    <2>1. now \in Nat
      BY DEF AckInv, TraceInv, TypeInv, TypeOK
    <2>. QED  BY <1>2, <1>4, <1>5, <2>1 DEF AckInv, Stamped
  <1>8. ReadInv'
    BY <1>2 DEF ReadInv
  <1>9. \A c \in Blobbers : wm[c].v \cap acked \subseteq wm'[c].v /\ (wm[c].ts > 0 => wm'[c].ts > 0)
    BY <1>3, <1>4
  <1>10. Sure' => KeptStamps' /\ \A o \in acked' : Kept(o)'
    BY <1>2, <1>9, GrowsKept
  <1>. QED  BY <1>1, <1>6, <1>7, <1>8, <1>10 DEF AckInv

\* RollbackWithMask takes back the running operation and nothing else.
LEMMA AckUndo ==
  ASSUME AckInv, NEW b \in Blobbers, UndoOK(b) \/ UndoFails(b)
  PROVE  AckInv'
  <1>1. TraceInv'
    BY TraceUndo DEF AckInv
  <1>2. /\ UNCHANGED <<prev, late, phase, op, now, acked, blind, split>>
        /\ phase = "undo" /\ b \in todo /\ todo' = todo \ {b}
    BY DEF UndoOK, UndoFails, RolledBack, blobberVars, historyVars
  <1>3. /\ \A c \in Blobbers : c # b => wm'[c] = wm[c]
        /\ wm'[b].ts = wm[b].ts /\ (wm'[b].v = wm[b].v \/ wm'[b].v = prev[b].v)
    BY DEF UndoOK, UndoFails, RolledBack, blobberVars, AckInv, TraceInv, TypeInv, TypeOK, Markers
  <1>4. Fresh'
    <2>1. \A c \in todo' : c # b /\ c \in todo /\ c \in Blobbers
      BY <1>2 DEF AckInv, TraceInv, TypeInv, TypeOK
    <2>2. \A c \in todo' : Committed(c)'
      BY <1>2, <1>3, <2>1 DEF AckInv, Fresh, Committed
    <2>. QED  BY <1>2, <2>2 DEF AckInv, Fresh
  <1>5. Stamped' /\ ReadInv'
    BY <1>2 DEF AckInv, Stamped, ReadInv
  <1>6. wm[b].v \cap acked \subseteq prev[b].v
    <2>1. op \notin acked /\ Root \notin acked
      BY <1>2 DEF AckInv, TraceInv, Progress, TypeInv, TypeOK, Ops, Root
    <2>2. wm[b].v \subseteq prev[b].v \cup {Root, op}
      BY <1>2 DEF AckInv, Fresh, Committed
    <2>. QED  BY <2>1, <2>2
  <1>7. \A c \in Blobbers : wm[c].v \cap acked \subseteq wm'[c].v /\ (wm[c].ts > 0 => wm'[c].ts > 0)
    BY <1>3, <1>6
  <1>8. Sure' => KeptStamps' /\ \A o \in acked' : Kept(o)'
    BY <1>2, <1>7, GrowsKept
  <1>. QED  BY <1>1, <1>4, <1>5, <1>8 DEF AckInv

\* A late commit only adds to the tree it was computed from, and that is never a tree the
\* running operation may still take back.
LEMMA AckLate ==
  ASSUME AckInv, NEW r \in late, LateCommit(r)
  PROVE  AckInv'
  <1>1. TraceInv'
    BY TraceLate DEF AckInv
  <1>2. /\ UNCHANGED <<phase, op, now, todo, ok, lpm, latestVersion, highestTS, acked, dirty, blind, split>>
        /\ late' \subseteq late
    BY DEF LateCommit, checkVars, historyVars
  <1>3. /\ r.blobber \in Blobbers /\ r.marker.ts >= 1 /\ r.from \subseteq r.marker.v
        /\ r.marker.ts \in Nat
    BY DEF AckInv, Stamped, TraceInv, TypeInv, TypeOK, LateCommits, Markers
  <1>4. \A c \in Blobbers :
          \/ wm'[c] = wm[c] /\ prev'[c] = prev[c]
          \/ c = r.blobber /\ wm'[c] = r.marker /\ wm[c].v = r.from
    BY <1>3 DEF LateCommit, Applied, AckInv, TraceInv, TypeInv, TypeOK
  <1>5. \A c \in Blobbers : wm[c].v \subseteq wm'[c].v /\ (wm[c].ts > 0 => wm'[c].ts > 0)
    BY <1>3, <1>4
  <1>6. todo \subseteq Blobbers /\ ok \subseteq Blobbers
    BY DEF AckInv, TraceInv, TypeInv, TypeOK
  <1>7. Fresh'
    <2>1. ASSUME NEW c \in Blobbers, phase \in {"commit", "undo"}, Committed(c) PROVE Committed(c)'
      <3>1. op \notin r.from
        BY <2>1 DEF AckInv, Fresh
      <3>2. wm'[c] = wm[c] /\ prev'[c] = prev[c]
        BY <1>4, <2>1, <3>1 DEF Committed
      <3>. QED  BY <1>2, <2>1, <3>2 DEF Committed
    <2>2. ASSUME phase = "commit", NEW c \in todo PROVE op \notin wm'[c].v
      BY <1>4, <1>6, <2>2 DEF AckInv, Fresh
    <2>. QED  BY <1>2, <1>6, <2>1, <2>2 DEF AckInv, Fresh
  <1>8. Stamped'
    BY <1>2 DEF AckInv, Stamped
  <1>9. ReadInv'
    <2>1. phase = "idle" => highestTS' = 0 /\ \A b \in Blobbers : lpm'[b] = Unread
      BY <1>2 DEF AckInv, ReadInv
    <2>2. ASSUME phase = "check", blind = 0, NEW b \in Blobbers \ todo
          PROVE  lpm[b].latest.v \subseteq wm'[b].v
      BY <1>5, <2>2 DEF AckInv, ReadInv
    <2>. QED  BY <1>2, <2>1, <2>2 DEF AckInv, ReadInv
  <1>10. Sure' => KeptStamps' /\ \A o \in acked' : Kept(o)'
    <2>1. (\A o \in acked : Read(o) \subseteq Read(o)') /\ StampsRead \subseteq StampsRead'
      BY <1>2, <1>5 DEF Read, StampsRead
    <2>2. \A c \in Blobbers : wm[c].v \cap acked \subseteq wm'[c].v
                               /\ (wm[c].ts > 0 => wm'[c].ts > 0)
      BY <1>5
    <2>. QED  BY <1>2, <2>1, <2>2, GrowsKept
  <1>. QED  BY <1>1, <1>7, <1>8, <1>9, <1>10 DEF AckInv

\* A repair that saw every file deletes none that DataShards blobbers hold.
LEMMA AckRepair ==
  ASSUME AckInv,
         \/ \E o \in Ops, found \in SUBSET Blobbers : RepairFile(o, found)
         \/ RepairDone
  PROVE  AckInv'
  <1>1. TraceInv'
    BY TraceRepair DEF AckInv
  <1>2. /\ UNCHANGED <<late, phase, op, lpm, highestTS, acked, dirty>> /\ phase = "idle"
    BY DEF RepairFile, RepairDone, blobberVars, checkVars, historyVars
  <1>3. Fresh' /\ ReadInv'
    BY <1>2 DEF AckInv, Fresh, ReadInv
  <1>4. CASE RepairDone
    <2>1. UNCHANGED <<wm, now, blind, split>>
      BY <1>4 DEF RepairDone, blobberVars, historyVars
    <2>2. Stamped'
      BY <1>2, <2>1 DEF AckInv, Stamped
    <2>3. Sure' => KeptStamps' /\ \A o \in acked' : Kept(o)'
      BY <1>2, <2>1, GrowsKept
    <2>. QED  BY <1>1, <1>3, <2>2, <2>3 DEF AckInv
  <1>5. ASSUME NEW o \in Ops, NEW found \in SUBSET Blobbers, RepairFile(o, found)
        PROVE  AckInv'
    <2>1. /\ found \subseteq Holders(o) /\ now \in Nat /\ now >= 1 /\ now' \in {now, now + 1}
          /\ blind' = blind + Cardinality(Holders(o) \ found) /\ blind \in Nat /\ split' = split
      BY <1>5 DEF RepairFile, Clock, AckInv, Stamped, TraceInv, TypeInv, TypeOK
    <2>2. IsFiniteSet(Holders(o) \ found) /\ Cardinality(Holders(o) \ found) \in Nat
      <3>1. Holders(o) \ found \subseteq Blobbers
        BY DEF Holders
      <3>. QED  BY <3>1, AllocConstants, FS_Subset, FS_CardinalityType
    <2>3. Sure' => Sure /\ found = Holders(o)
      <3> SUFFICES ASSUME Sure' PROVE Sure /\ found = Holders(o)
        OBVIOUS
      <3>1. Sure /\ Cardinality(Holders(o) \ found) = 0
        BY <2>1, <2>2
      <3>2. Holders(o) \ found = {}
        BY <2>2, <3>1, FS_EmptySet
      <3>. QED  BY <2>1, <3>1, <3>2
    <2>4. Stamped'
      BY <1>2, <2>1 DEF AckInv, Stamped
    <2>5. PICK S \in SUBSET Blobbers, add \in BOOLEAN :
            /\ RepairCommit(S, o, add)
            /\ ~add => ~(Cardinality(found) >= DataShards)
      BY <1>5 DEF RepairFile, Holders
    <2>6. \A c \in Blobbers :
            /\ wm[c].v \ {o} \subseteq wm'[c].v
            /\ add => wm[c].v \subseteq wm'[c].v
            /\ wm[c].ts > 0 => wm'[c].ts > 0
      <3>1. now > 0
        BY <2>1
      <3>. QED  BY <2>5, <3>1 DEF RepairCommit
    <2>7. ASSUME Sure' PROVE KeptStamps' /\ \A q \in acked' : Kept(q)'
      <3>1. o \in acked => add
        <4> SUFFICES ASSUME o \in acked, ~add PROVE FALSE
          BY <2>5
        <4>1. Kept(o)
          BY <2>3, <2>7 DEF AckInv
        <4>. QED  BY <2>3, <2>5, <2>7, <4>1 DEF Kept, Enough
      <3>2. \A c \in Blobbers : wm[c].v \cap acked \subseteq wm'[c].v
        BY <2>6, <3>1
      <3>. QED  BY <1>2, <2>3, <2>6, <2>7, <3>2, GrowsKept
    <2>. QED  BY <1>1, <1>3, <2>4, <2>7 DEF AckInv
  <1>. QED  BY <1>4, <1>5

\* Three different values are three.
LEMMA ThreeValues ==
  ASSUME NEW S, IsFiniteSet(S), NEW x \in S, NEW y \in S, NEW z \in S, x # y, y # z, x # z
  PROVE  Cardinality(S) > 2
  <1>1. IsFiniteSet({x}) /\ Cardinality({x}) = 1
    BY FS_Singleton
  <1>2. IsFiniteSet({x} \cup {y}) /\ Cardinality({x} \cup {y}) = 2
    BY <1>1, FS_AddElement
  <1>3. z \notin {x} \cup {y}
    OBVIOUS
  <1>4. IsFiniteSet(({x} \cup {y}) \cup {z}) /\ Cardinality(({x} \cup {y}) \cup {z}) = 3
    BY <1>2, <1>3, FS_AddElement
  <1>5. ({x} \cup {y}) \cup {z} \subseteq S
    OBVIOUS
  <1>6. 3 <= Cardinality(S) /\ Cardinality(S) \in Nat
    BY <1>4, <1>5, FS_Subset, FS_CardinalityType
  <1>. QED  BY <1>6

\* Without few blobbers, enough of many remain.
LEMMA EnoughRemain ==
  ASSUME NEW M \in SUBSET Blobbers, NEW X \in SUBSET Blobbers,
         ~(Cardinality(M) < 2 * DataShards - 1), ~(Cardinality(X) >= DataShards)
  PROVE  Enough(M \ X)
  <1>1. IsFiniteSet(M) /\ IsFiniteSet(X) /\ IsFiniteSet(M \ X) /\ IsFiniteSet(M \cap X)
    <2>1. M \ X \subseteq Blobbers /\ M \cap X \subseteq Blobbers
      OBVIOUS
    <2>. QED  BY <2>1, AllocConstants, FS_Subset
  <1>2. Cardinality(M \cap X) <= Cardinality(X)
    BY <1>1, FS_Subset
  <1>3. Cardinality(M \ X) = Cardinality(M) - Cardinality(M \cap X)
    BY <1>1, FS_Difference
  <1>4. /\ Cardinality(M) \in Nat /\ Cardinality(X) \in Nat /\ Cardinality(M \ X) \in Nat
        /\ Cardinality(M \cap X) \in Nat /\ DataShards \in Nat
    BY <1>1, FS_CardinalityType, AllocConstants
  <1>. QED  BY <1>2, <1>3, <1>4 DEF Enough

\* CheckAllocStatus rolls back: the other version stays on enough blobbers.
LEMMA RollbackKeeps ==
  ASSUME AckInv, StartRollback, Sure, Sure', NEW o \in acked
  PROVE  Enough(Holders(o) \ VersionMap(latestVersion))
  <1> DEFINE X == VersionMap(latestVersion)
             M == StampsRead
             R == {b \in Blobbers : lpm[b].latest # NoMarker}
  <1>1. /\ phase = "check" /\ todo = {} /\ ~SeesCommit /\ ~SeesRepair
    BY DEF StartRollback
  <1>2. KeptStamps /\ Kept(o) /\ ReadInv
    BY DEF AckInv
  <1>3. /\ Cardinality(M) >= Thresh /\ M \in SUBSET Blobbers
        /\ M = {b \in Blobbers : lpm[b].latest.ts > 0}
    BY <1>1, <1>2 DEF KeptStamps, StampsRead
  <1>4. /\ Cardinality(Read(o)) >= DataShards /\ Read(o) \in SUBSET Blobbers
        /\ Read(o) = {b \in Blobbers : o \in lpm[b].latest.v}
    BY <1>1, <1>2 DEF Kept, Read, Enough
  <1>5. X \in SUBSET Blobbers /\ ~(Cardinality(X) >= DataShards)
    BY <1>1 DEF SeesRepair, Count, VersionMap
  <1>6. Enough(R \ X)
    <2>1. ~TooFew
      BY DEF StartRollback
    <2>. QED  BY <1>5, <2>1, EnoughRemain DEF TooFew
  <1>7. PICK x \in M : TRUE
    <2>1. M # {}
      <3>1. Cardinality({}) = 0 /\ DataShards > 0 /\ DataShards \in Nat
        BY FS_EmptySet, AllocConstants
      <3>2. Thresh > 0
        BY <3>1, ThreshNat
      <3> HIDE DEF M
      <3>3. M = {} => Cardinality(M) = 0
        BY <3>1
      <3>. QED  BY <1>3, <3>2, <3>3, ThreshNat
    <2>. QED  BY <2>1
  <1>8. PICK w \in Blobbers : /\ lpm[w].latest.v = latestVersion
                              /\ lpm[w].latest # NoMarker
    <2>1. lpm[x].latest.ts > 0 /\ lpm[x].latest.ts <= highestTS
      BY <1>1, <1>2, <1>3, <1>7 DEF ReadInv
    <2>2. lpm[x].latest.ts \in Nat /\ highestTS \in Nat
      BY <1>3, <1>7 DEF AckInv, TraceInv, TypeInv, TypeOK, Markers
    <2>3. highestTS # 0
      BY <2>1, <2>2
    <2>4. PICK w \in Blobbers : lpm[w].latest.v = latestVersion /\ lpm[w].latest.ts = highestTS
      BY <1>1, <1>2, <2>3 DEF ReadInv
    <2>5. lpm[w].latest # NoMarker
      BY <2>3, <2>4 DEF NoMarker
    <2>. QED  BY <2>4, <2>5
  <1>9. PICK y \in Blobbers : y \in Read(o) /\ y \notin X
    <2>1. ~(Read(o) \subseteq X)
      <3>1. Read(o) \subseteq X => Cardinality(X) >= DataShards
        BY <1>4, <1>5, MoreBlobbers, AllocConstants
      <3>. QED  BY <1>5, <3>1
    <2>. QED  BY <1>4, <2>1
  <1>10. lpm[y].latest # NoMarker /\ o \in lpm[y].latest.v /\ lpm[y].latest.v # latestVersion
    BY <1>4, <1>9 DEF VersionMap, NoMarker, NoVersion
  <1>11. IsFiniteSet(VersionsSeen)
    <2> DEFINE C == {c \in Blobbers : lpm[c].latest # NoMarker}
               f == [c \in C |-> lpm[c].latest.v]
    <2>1. IsFiniteSet(C)
      BY AllocConstants, FS_Subset
    <2>2. VersionsSeen = {f[c] : c \in C}
      BY DEF VersionsSeen
    <2>3. f \in [C -> {f[c] : c \in C}] /\ f \in Surjection(C, {f[c] : c \in C})
      BY DEF Surjection
    <2>. QED  BY <2>1, <2>2, <2>3, FS_Surjection
  <1>12. ASSUME NEW z \in R \ X PROVE z \in Holders(o) \ X
    <2>1. z \in Blobbers /\ lpm[z].latest # NoMarker
      BY <1>12
    <2>2. lpm[z].latest.v # latestVersion
      BY <1>12, <2>1 DEF VersionMap
    <2>3. {latestVersion, lpm[y].latest.v, lpm[z].latest.v} \subseteq VersionsSeen
      BY <1>8, <1>10, <2>1 DEF VersionsSeen
    <2>4. lpm[z].latest.v = lpm[y].latest.v
      <3>1. ~(Cardinality(VersionsSeen) > 2)
        BY <1>1 DEF SeesRepair
      <3>. QED  BY <1>10, <1>11, <2>2, <2>3, <3>1, ThreeValues
    <2>5. lpm[z].latest.v \subseteq wm[z].v
      BY <1>1, <1>2, <2>1 DEF ReadInv
    <2>. QED  BY <1>10, <1>12, <2>1, <2>4, <2>5 DEF Holders
  <1>13. R \ X \subseteq Holders(o) \ X /\ Holders(o) \ X \subseteq Blobbers
    BY <1>12 DEF Holders
  <1>. QED  BY <1>6, <1>13, EnoughMore

\* Starting an operation, choosing a status and starting a fan-out.
LEMMA AckStart ==
  ASSUME AckInv, Locked \/ StatusCommit \/ StartRollback \/ StartUndo
  PROVE  AckInv'
  <1>1. TraceInv'
    BY TraceStart DEF AckInv
  <1>2. /\ UNCHANGED <<wm, prev, late, lpm, latestVersion, highestTS, ok, acked, dirty, blind>>
        /\ Sure' => Sure
    <2>1. UNCHANGED <<wm, prev, late, lpm, latestVersion, highestTS, ok, acked, dirty, blind>>
      BY DEF Locked, StatusCommit, StartRollback, StartUndo, blobberVars, checkVars, historyVars
    <2>2. CASE split' = split
      BY <2>1, <2>2
    <2>3. CASE StartRollback
      <3>1. split => split'
        BY <2>3, Zenon DEF StartRollback
      <3>. QED  BY <2>1, <3>1
    <2>. QED  BY <2>2, <2>3 DEF Locked, StatusCommit, StartUndo, historyVars
  <1>3. Stamped'
    <2>1. now \in Nat /\ now >= 1 /\ now' \in {now, now + 1}
      BY DEF Locked, StatusCommit, StartRollback, StartUndo, Clock, AckInv, Stamped, TraceInv,
             TypeInv, TypeOK
    <2>. QED  BY <1>2, <2>1 DEF AckInv, Stamped
  <1>4. CASE Locked
    <2>1. /\ phase = "idle" /\ phase' = "check" /\ todo' = Blobbers /\ op' = op + 1 /\ op \in Nat
      BY <1>4, AllocConstants DEF Locked, AckInv, TraceInv, TypeInv, TypeOK
    <2>2. Fresh'
      <3>1. \A o \in dirty : o \in Nat /\ o <= op
        BY DEF AckInv, TraceInv, TypeInv, TypeOK, Progress, Ops
      <3>2. op' \notin dirty'
        BY <1>2, <2>1, <3>1
      <3>. QED  BY <2>1, <3>2 DEF Fresh
    <2>3. ReadInv'
      <3>1. highestTS = 0 /\ \A b \in Blobbers : lpm[b] = Unread
        BY <2>1 DEF AckInv, ReadInv
      <3>. QED  BY <1>2, <2>1, <3>1 DEF ReadInv, Unread, NoMarker
    <2>4. ASSUME Sure' PROVE KeptStamps' /\ \A o \in acked' : Kept(o)'
      <3>1. KeptStamps /\ \A o \in acked : Kept(o)
        BY <1>2, <2>4 DEF AckInv
      <3>2. Stamps' = Stamps /\ StampsRead' = Stamps
        BY <1>2, <2>1 DEF Stamps, StampsRead
      <3>3. \A o : Holders(o)' = Holders(o) /\ Read(o)' = Holders(o)
        BY <1>2, <2>1 DEF Holders, Read
      <3>4. KeptStamps'
        BY <1>2, <3>1, <3>2 DEF KeptStamps, Thresh
      <3>5. \A o \in acked' : Kept(o)'
        BY <1>2, <2>1, <3>1, <3>3 DEF Kept, Enough
      <3>. QED  BY <3>4, <3>5
    <2>. QED  BY <1>1, <1>3, <2>2, <2>3, <2>4 DEF AckInv
  <1>5. CASE StatusCommit
    <2>1. phase = "check" /\ phase' = "commit" /\ op' = op /\ todo' \subseteq Blobbers
      BY <1>5 DEF StatusCommit, AckInv, TraceInv, TypeInv, TypeOK
    <2>2. Fresh'
      <3>1. op \in Ops /\ ~Accounted(op) /\ \A b \in Blobbers : ~Undoable(op, b)
        BY <2>1 DEF AckInv, Fresh, TraceInv, Progress, TypeInv, OpStarted, Accounted, Undoable
      <3>2. \A b \in Blobbers : op \notin wm[b].v
        BY <3>1 DEF AckInv, TraceInv, TreesAccounted
      <3>3. \A r \in late : op \notin r.from /\ op \notin r.marker.v
        BY <3>1 DEF AckInv, TraceInv, LateAccounted
      <3>4. ok' = {}
        BY <1>2, <2>1 DEF AckInv, TraceInv, Progress
      <3>. QED  BY <1>2, <2>1, <3>2, <3>3, <3>4 DEF Fresh
    <2>3. ReadInv'
      BY <2>1 DEF ReadInv
    <2>4. \A c \in Blobbers : wm[c].v \cap acked \subseteq wm'[c].v
                               /\ (wm[c].ts > 0 => wm'[c].ts > 0)
      BY <1>2
    <2>5. Sure' => KeptStamps' /\ \A o \in acked' : Kept(o)'
      BY <1>2, <2>1, <2>4, GrowsKept
    <2>. QED  BY <1>1, <1>3, <2>2, <2>3, <2>5 DEF AckInv
  <1>6. CASE StartRollback
    <2>1. /\ phase = "check" /\ phase' = "rollback" /\ op' = op
          /\ todo' = VersionMap(latestVersion)
      BY <1>6 DEF StartRollback
    <2>2. Fresh' /\ ReadInv'
      BY <1>2, <2>1 DEF AckInv, Fresh, ReadInv
    <2>3. ASSUME Sure' PROVE KeptStamps' /\ \A o \in acked' : Kept(o)'
      <3>1. Sure /\ KeptStamps /\ \A o \in acked : Kept(o)
        BY <1>2, <2>3 DEF AckInv
      <3>2. Stamps' = Stamps
        BY <1>2 DEF Stamps
      <3>3. KeptStamps'
        BY <1>2, <2>1, <3>1, <3>2 DEF KeptStamps, Thresh
      <3>4. ASSUME NEW o \in acked' PROVE Kept(o)'
        <4>1. Enough(Holders(o)) /\ Enough(Holders(o) \ VersionMap(latestVersion))
          BY <1>2, <1>6, <2>3, <3>1, <3>4, RollbackKeeps DEF Kept
        <4>2. Holders(o)' = Holders(o)
          BY <1>2 DEF Holders
        <4>. QED  BY <2>1, <4>1, <4>2 DEF Kept, Enough
      <3>. QED  BY <3>3, <3>4
    <2>. QED  BY <1>1, <1>3, <2>2, <2>3 DEF AckInv
  <1>7. CASE StartUndo
    <2>1. phase = "commit" /\ phase' = "undo" /\ op' = op /\ todo' = ok
      BY <1>7 DEF StartUndo
    <2>2. Fresh'
      BY <1>2, <2>1 DEF AckInv, Fresh, Committed
    <2>3. ReadInv'
      BY <2>1 DEF ReadInv
    <2>4. \A c \in Blobbers : wm[c].v \cap acked \subseteq wm'[c].v
                               /\ (wm[c].ts > 0 => wm'[c].ts > 0)
      BY <1>2
    <2>5. Sure' => KeptStamps' /\ \A o \in acked' : Kept(o)'
      BY <1>2, <2>1, <2>4, GrowsKept
    <2>. QED  BY <1>1, <1>3, <2>2, <2>3, <2>5 DEF AckInv
  <1>. QED  BY <1>4, <1>5, <1>6, <1>7

\* Process returns; a new completed operation is on the blobbers that said so.
LEMMA AckReturn ==
  ASSUME AckInv, CheckFails \/ StatusRepair \/ RollbackDone \/ CommitDone \/ UndoDone
  PROVE  AckInv'
  <1>1. TraceInv'
    BY TraceReturn DEF AckInv
  <1>2. /\ UNCHANGED <<wm, prev, late, op, now, dirty, blind, split>>
        /\ phase' = "idle" /\ highestTS' = 0 /\ lpm' = [b \in Blobbers |-> Unread]
    BY DEF CheckFails, StatusRepair, RollbackDone, CommitDone, UndoDone, Returns, blobberVars
  <1>3. Fresh' /\ Stamped' /\ ReadInv'
    BY <1>2 DEF AckInv, Fresh, Stamped, ReadInv
  <1>4. \A c \in Blobbers : wm[c].v \cap acked \subseteq wm'[c].v
                             /\ (wm[c].ts > 0 => wm'[c].ts > 0)
    BY <1>2
  <1>5. CASE acked' = acked
    <2>1. Sure' => KeptStamps' /\ \A o \in acked' : Kept(o)'
      BY <1>2, <1>4, <1>5, GrowsKept
    <2>. QED  BY <1>1, <1>3, <2>1 DEF AckInv
  <1>6. CASE CommitDone
    <2>1. /\ phase = "commit" /\ Cardinality(ok) >= Thresh /\ acked' = acked \cup {op}
          /\ ok \subseteq Blobbers
      BY <1>6 DEF CommitDone, IsConsensusOk, AckInv, TraceInv, TypeInv, TypeOK
    <2>2. \A b \in ok : op \in wm[b].v /\ wm[b].ts > 0
      BY <2>1 DEF AckInv, Fresh, Committed
    <2>3. ASSUME Sure' PROVE KeptStamps' /\ \A o \in acked' : Kept(o)'
      <3>1. \A o : Holders(o)' = Holders(o)
        BY <1>2 DEF Holders
      <3>2. KeptStamps'
        <4>1. ok \subseteq Stamps' /\ Stamps' \subseteq Blobbers
          BY <1>2, <2>1, <2>2 DEF Stamps
        <4>2. Cardinality(Stamps') >= Thresh
          BY <2>1, <4>1, MoreBlobbers, ThreshNat
        <4>. QED  BY <1>2, <4>2 DEF KeptStamps, Thresh
      <3>3. Enough(Holders(op))
        <4>1. ok \subseteq Holders(op) /\ Holders(op) \subseteq Blobbers
          BY <2>1, <2>2 DEF Holders
        <4>2. Cardinality(Holders(op)) >= Thresh
          BY <2>1, <4>1, MoreBlobbers, ThreshNat
        <4>3. Cardinality(Holders(op)) \in Nat
          BY <4>1, AllocConstants, FS_Subset, FS_CardinalityType
        <4>. QED  BY <4>2, <4>3, ThreshNat, AllocConstants DEF Enough
      <3>4. \A o \in acked : Enough(Holders(o))
        BY <1>2, <2>3 DEF AckInv, Kept
      <3>5. \A o \in acked' : Kept(o)'
        BY <1>2, <2>1, <3>1, <3>3, <3>4 DEF Kept, Enough
      <3>. QED  BY <3>2, <3>5
    <2>. QED  BY <1>1, <1>3, <2>3 DEF AckInv
  <1>. QED  BY <1>5, <1>6 DEF CheckFails, StatusRepair, RollbackDone, UndoDone

\* MultiOperation.Process, CheckAllocStatus, RollbackWithMask and the repair together: a
\* file whose upload was reported as completed stays on DataShards blobbers, for every
\* number of shards, operations and lost requests, as long as all markers are read and
\* no rollback is decided on fewer than 2 * DataShards - 1 of them.
THEOREM CompletedStays == Spec => []AckedAvailable
  <1>1. AckInv /\ [Next]_vars => AckInv'
    <2> SUFFICES ASSUME AckInv, [Next]_vars PROVE AckInv'
      OBVIOUS
    <2>1. CASE Process
      BY <2>1, AckStart, AckReturn DEF Process
    <2>2. CASE \E b \in Blobbers : Goroutine(b)
      BY <2>2, AckRead, AckRollback, AckCommit, AckUndo DEF Goroutine
    <2>3. CASE \E r \in late : LateCommit(r)
      BY <2>3, AckLate
    <2>4. CASE (\E o \in Ops, found \in SUBSET Blobbers : RepairFile(o, found)) \/ RepairDone
      BY <2>4, AckRepair
    <2>5. CASE UNCHANGED vars
      <3>1. TraceInv'
        BY TraceNext DEF AckInv
      <3>2. Fresh' /\ Stamped' /\ ReadInv'
        BY <2>5 DEF vars, AckInv, Fresh, Committed, Stamped, ReadInv
      <3>3. Sure' => KeptStamps' /\ \A o \in acked' : Kept(o)'
        BY <2>5 DEF vars, AckInv, KeptStamps, Stamps, StampsRead, Thresh, Kept, Enough, Holders,
                    Read
      <3>. QED  BY <3>1, <3>2, <3>3 DEF AckInv
    <2>. QED  BY <2>1, <2>2, <2>3, <2>4, <2>5 DEF Next, NoMoreOperations
  <1>2. AckInv => AckedAvailable
    BY DEF AckInv, Kept, Enough, AckedAvailable
  <1>. QED  BY <1>1, <1>2, AckInit, PTL DEF Spec
=============================================================================
