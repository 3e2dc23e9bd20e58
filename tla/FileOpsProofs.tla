---------------------------- MODULE FileOpsProofs ----------------------------
(***************************************************************************)
(* A rename, copy, move, delete or mkdir that reports success holds on the  *)
(* threshold of blobbers, and its lock is released, for every number of     *)
(* blobbers, attempts and failures.                                         *)
(***************************************************************************)
EXTENDS FileOps, FiniteSetTheorems, TLAPS

\* The workers whose goroutines each look at the tree of their own blobber.
OwnTrees == kind = "delete" => direct

\* The part of the types the argument needs.
Types ==
  /\ kind \in Kinds /\ direct \in BOOLEAN
  /\ obj \in [Blobbers -> BOOLEAN]
  /\ staged \in SUBSET Blobbers /\ applied \in SUBSET Blobbers /\ exists \in SUBSET Blobbers
  /\ g \in [Blobbers -> {"tree", "wait", "send", "check", "end"}]
  /\ ref \in [Blobbers -> Blobbers \cup {Nil}]
  /\ loop \in SUBSET Blobbers /\ mask \in SUBSET Blobbers /\ todo \in SUBSET mask
  /\ consensus \in Nat /\ removed \in Nat
  /\ locked \in BOOLEAN
  /\ phase \in {"fan", "lock", "status", "commit", "end"}

\* A blobber stages only what it can change, and says that the directory exists only if
\* it does.
AnswersTrue ==
  /\ \A b \in staged : Changeable(b)
  /\ \A b \in exists : kind = "dir" /\ obj[b]

\* Who is in the mask and has answered has an object tree.
MaskHasRefs ==
  OwnTrees /\ kind # "dir" =>
    /\ \A b \in Blobbers : g[b] = "tree" => b \in mask
    /\ \A b \in mask : g[b] # "tree" => ref[b] # Nil

\* The blobbers without the object, which leave the mask of a delete.
Absent == {b \in Blobbers \ mask : ~obj[b]}
RemovedCounted == kind = "delete" /\ direct => removed <= Cardinality(Absent)

\* The lock is taken after the last goroutine has returned, and only then are there
\* commits to wait for.
FanOver ==
  /\ phase \in {"lock", "status", "commit"} => \A b \in Blobbers : g[b] = "end"
  /\ phase # "commit" => todo = {}

\* The blobbers counted when the commit starts, and those counted since.
Before ==
  CASE direct /\ kind = "delete" -> Absent
    [] direct /\ kind = "dir"    -> exists
    [] OTHER                     -> {}
Since == {b \in mask \ todo : Fits(b)}
CommitsCounted == phase = "commit" /\ OwnTrees => consensus <= Cardinality(Before \cup Since)

\* Where the lock is held.
LockPhases ==
  locked => \/ phase \in {"status", "commit"}
            \/ phase = "end" /\ kind = "move" /\ direct /\ result = "status_failed"

FInv ==
  /\ Types /\ AnswersTrue /\ MaskHasRefs /\ RemovedCounted /\ FanOver /\ CommitsCounted
  /\ LockPhases /\ SucceedsOnThreshold

-----------------------------------------------------------------------------
(* Counting blobbers                                                        *)

LEMMA FiniteSubsets ==
  ASSUME NEW S \in SUBSET Blobbers
  PROVE  IsFiniteSet(S) /\ Cardinality(S) \in Nat
<1>1. IsFiniteSet(0 .. N-1) BY FileOpsConstants, FS_Interval
<1>2. IsFiniteSet(S) BY <1>1, FS_Subset DEF Blobbers
<1> QED BY <1>2, FS_CardinalityType

LEMMA CountGrows ==
  ASSUME NEW T \in SUBSET Blobbers, NEW S \in SUBSET T
  PROVE  Cardinality(S) <= Cardinality(T)
BY FiniteSubsets, FS_Subset

LEMMA CountOneMore ==
  ASSUME NEW T \in SUBSET Blobbers, NEW S \in SUBSET T, NEW b \in T, b \notin S
  PROVE  Cardinality(S) + 1 <= Cardinality(T)
<1>1. S \cup {b} \in SUBSET T /\ S \in SUBSET Blobbers OBVIOUS
<1>2. Cardinality(S \cup {b}) = Cardinality(S) + 1 BY <1>1, FiniteSubsets, FS_AddElement
<1> QED BY <1>1, <1>2, CountGrows

LEMMA NilIsNoBlobber == Nil \notin Blobbers
BY FileOpsConstants DEF Nil, Blobbers

-----------------------------------------------------------------------------
(* The invariant                                                            *)

LEMMA FInit == Init => FInv
<1> SUFFICES ASSUME Init PROVE FInv OBVIOUS
<1> USE FileOpsConstants DEF Init
<1>1. mask \in SUBSET Blobbers /\ (direct => mask = Blobbers)
  OBVIOUS
<1>2. Types
  <2>1. kind \in Kinds /\ direct \in BOOLEAN /\ obj \in [Blobbers -> BOOLEAN] OBVIOUS
  <2>2. g \in [Blobbers -> {"tree", "wait", "send", "check", "end"}] OBVIOUS
  <2>3. ref \in [Blobbers -> Blobbers \cup {Nil}] OBVIOUS
  <2> QED BY <1>1, <2>1, <2>2, <2>3 DEF Types
<1>3. AnswersTrue BY DEF AnswersTrue
<1>4. MaskHasRefs BY <1>1 DEF MaskHasRefs
<1>5. RemovedCounted
  <2>1. Absent \in SUBSET Blobbers BY DEF Absent
  <2>2. Cardinality(Absent) \in Nat BY <2>1, FiniteSubsets
  <2> QED BY <2>2 DEF RemovedCounted
<1>6. FanOver /\ CommitsCounted /\ LockPhases /\ SucceedsOnThreshold
  BY DEF FanOver, CommitsCounted, LockPhases, SucceedsOnThreshold
<1> QED BY <1>2, <1>3, <1>4, <1>5, <1>6 DEF FInv

LEMMA AbsentGrows ==
  ASSUME Types, mask' \in SUBSET mask, UNCHANGED obj
  PROVE  /\ Cardinality(Absent) \in Nat /\ Cardinality(Absent') \in Nat
         /\ Cardinality(Absent) <= Cardinality(Absent')
<1>1. Absent' \in SUBSET Blobbers /\ Absent \in SUBSET Absent' BY DEF Absent, Types
<1> QED BY <1>1, CountGrows, FiniteSubsets

\* The goroutines of the fan-out run before the lock is asked for, or after ProcessDelete
\* has given up.
LEMMA FanStep ==
  ASSUME FInv, phase \notin {"lock", "status", "commit"},
         UNCHANGED <<world, applied, phase, todo, locked, result>>,
         Types', AnswersTrue', MaskHasRefs', RemovedCounted'
  PROVE  FInv'
<1>1. FanOver' /\ CommitsCounted' /\ LockPhases'
  BY DEF FInv, FanOver, CommitsCounted, LockPhases, world
<1>2. \A b \in Blobbers : Fits(b)' = Fits(b) BY DEF Fits, world
<1>3. SucceedsOnThreshold' BY <1>2 DEF FInv, SucceedsOnThreshold, world
<1> QED BY <1>1, <1>3 DEF FInv

\* getObjectTreeFromBlobber, for whichever blobber it is called.
LEMMA TreeStep ==
  ASSUME FInv, NEW b \in Blobbers, TreeFound(b) \/ TreeMissing(b) \/ TreeFails(b)
  PROVE  FInv'
<1> USE DEF world, counted
<1>0. /\ g[b] = "tree" /\ UNCHANGED <<kind, direct, obj, loop, staged, applied, phase, exists, todo,
                                      locked, result>>
      /\ g' = [g EXCEPT ![b] = g'[b]] /\ g'[b] \in {"wait", "send", "end"}
  BY DEF TreeFound, TreeMissing, TreeFails, AfterTree, FInv, Types
<1>1. phase \notin {"lock", "status", "commit"} /\ todo = {} BY <1>0 DEF FInv, FanOver
<1>2. TreeOf(b) \in SUBSET Blobbers /\ (OwnTrees => TreeOf(b) = {b})
  BY DEF TreeOf, OwnTrees, FInv, Types
<1>3. Types'
  <2>1. mask' \in SUBSET mask
    BY DEF TreeFound, TreeMissing, TreeFails
  <2>2. ref' \in [Blobbers -> Blobbers \cup {Nil}]
    BY <1>2 DEF TreeFound, TreeMissing, TreeFails, FInv, Types
  <2>3. consensus' \in Nat /\ removed' \in Nat
    BY DEF TreeFound, TreeMissing, TreeFails, FInv, Types
  <2>4. g' \in [Blobbers -> {"tree", "wait", "send", "check", "end"}] BY <1>0 DEF FInv, Types
  <2> QED BY <1>0, <1>1, <2>1, <2>2, <2>3, <2>4 DEF FInv, Types
<1>4. AnswersTrue' BY <1>0 DEF FInv, AnswersTrue, Changeable
<1>5. MaskHasRefs'
  <2> SUFFICES ASSUME OwnTrees, kind # "dir"
               PROVE  /\ \A c \in Blobbers : g'[c] = "tree" => c \in mask'
                      /\ \A c \in mask' : g'[c] # "tree" => ref'[c] # Nil
    BY <1>0 DEF MaskHasRefs, OwnTrees
  <2>0. /\ \A c \in Blobbers : g[c] = "tree" => c \in mask
        /\ \A c \in mask : g[c] # "tree" => ref[c] # Nil
        /\ mask \in SUBSET Blobbers
    BY DEF FInv, MaskHasRefs, Types
  <2>1. \A c \in Blobbers : c # b => g'[c] = g[c] BY <1>0 DEF FInv, Types
  <2>2. CASE TreeFound(b)
    <3>1. ref' = [ref EXCEPT ![b] = b] /\ mask' = mask BY <2>2, <1>2 DEF TreeFound
    <3>2. ref'[b] = b /\ \A c \in Blobbers : c # b => ref'[c] = ref[c]
      BY <3>1 DEF FInv, Types
    <3> QED BY <3>1, <3>2, <2>0, <2>1, <1>0, NilIsNoBlobber
  <2>3. CASE TreeMissing(b) \/ TreeFails(b)
    <3>1. ref' = ref /\ mask' = mask \ {b} BY <2>3, <1>2 DEF TreeMissing, TreeFails
    <3> QED BY <3>1, <2>0, <2>1, <1>0
  <2> QED BY <2>2, <2>3
<1>6. RemovedCounted'
  <2> SUFFICES ASSUME kind = "delete", direct PROVE removed' <= Cardinality(Absent')
    BY <1>0 DEF RemovedCounted
  <2>1. removed <= Cardinality(Absent) /\ removed \in Nat BY DEF FInv, RemovedCounted, Types
  <2>2. CASE TreeMissing(b)
    <3>1. mask' = mask \ {b} /\ ~obj[b] /\ removed' = removed + 1
      BY <2>2, <1>2 DEF TreeMissing, OwnTrees
    <3>2. b \in mask BY <1>0 DEF FInv, MaskHasRefs, OwnTrees
    <3>3. /\ Absent' \in SUBSET Blobbers /\ Absent \in SUBSET Absent'
          /\ b \in Absent' /\ b \notin Absent
      BY <3>1, <3>2, <1>0 DEF Absent
    <3>4. Cardinality(Absent) + 1 <= Cardinality(Absent') BY <3>3, CountOneMore
    <3>5. Cardinality(Absent) \in Nat /\ Cardinality(Absent') \in Nat
      BY <3>3, FiniteSubsets
    <3> QED BY <2>1, <3>1, <3>4, <3>5
  <2>3. CASE TreeFound(b) \/ TreeFails(b)
    <3>1. removed' = removed /\ mask' \in SUBSET mask BY <2>3 DEF TreeFound, TreeFails
    <3> QED BY <2>1, <3>1, <1>0, AbsentGrows DEF FInv
  <2> QED BY <2>2, <2>3
<1> QED BY <1>0, <1>1, <1>3, <1>4, <1>5, <1>6, FanStep

\* A request is over or repeated; nothing is fetched any more.
LEMMA SendStep ==
  ASSUME FInv, NEW b \in Blobbers,
         SendOK(b) \/ TooMany(b) \/ SendFails(b) \/ CheckErr(b) \/ StartDelete
  PROVE  FInv'
<1> USE DEF world, counted
<1>1. phase \notin {"lock", "status", "commit"} /\ todo = {}
  BY DEF FInv, FanOver, SendOK, TooMany, SendFails, CheckErr, StartDelete
<1>2. UNCHANGED <<kind, direct, obj, loop, applied, phase, ref, removed, todo, locked, result>>
  BY DEF SendOK, TooMany, SendFails, CheckErr, StartDelete
<1>3. mask' \in SUBSET mask /\ consensus' \in Nat
  <2>1. CASE SendOK(b) BY <2>1 DEF FInv, Types, SendOK
  <2>2. CASE TooMany(b) BY <2>2 DEF FInv, Types, TooMany, GiveUp
  <2>3. CASE SendFails(b) BY <2>3 DEF FInv, Types, SendFails
  <2>4. CASE CheckErr(b) \/ StartDelete BY <2>4 DEF FInv, Types, CheckErr, StartDelete
  <2> QED BY <2>1, <2>2, <2>3, <2>4
<1>4. /\ g' \in [Blobbers -> {"tree", "wait", "send", "check", "end"}]
      /\ \A c \in Blobbers : g'[c] = "tree" => g[c] = "tree" /\ (c \in mask => c \in mask')
      /\ \A c \in Blobbers : g[c] = "tree" => g'[c] = "tree"
  <2>1. CASE SendOK(b) BY <2>1 DEF FInv, Types, SendOK, Sent
  <2>2. CASE TooMany(b) BY <2>2 DEF FInv, Types, TooMany, Sent, GiveUp
  <2>3. CASE SendFails(b) BY <2>3 DEF FInv, Types, SendFails, Sent
  <2>4. CASE CheckErr(b) BY <2>4 DEF FInv, Types, CheckErr
  <2>5. CASE StartDelete BY <2>5 DEF FInv, Types, StartDelete
  <2> QED BY <2>1, <2>2, <2>3, <2>4, <2>5
<1>5. staged' \in SUBSET Blobbers /\ exists' \in SUBSET Blobbers /\ AnswersTrue'
  <2>1. \A c : Changeable(c)' = Changeable(c) BY <1>2 DEF Changeable
  <2>2. CASE SendOK(b) BY <2>1, <2>2, <1>2 DEF FInv, Types, AnswersTrue, SendOK
  <2>3. CASE SendFails(b) BY <2>1, <2>3, <1>2 DEF FInv, Types, AnswersTrue, SendFails
  <2>4. CASE TooMany(b) \/ CheckErr(b) \/ StartDelete
    BY <2>1, <2>4, <1>2 DEF FInv, Types, AnswersTrue, TooMany, CheckErr, StartDelete
  <2> QED BY <2>2, <2>3, <2>4
<1>6. Types' BY <1>1, <1>2, <1>3, <1>4, <1>5 DEF FInv, Types
<1>7. MaskHasRefs'
  BY <1>2, <1>3, <1>4 DEF FInv, Types, MaskHasRefs, OwnTrees
<1>8. RemovedCounted'
  BY <1>2, <1>3, AbsentGrows DEF FInv, Types, RemovedCounted
<1> QED BY <1>1, <1>2, <1>5, <1>6, <1>7, <1>8, FanStep

\* The worker after the fan-out, up to the commit; the mask may only lose blobbers.
LEMMA PhaseStep ==
  ASSUME FInv, UNCHANGED <<world, staged, applied, g, ref, exists, removed>>,
         mask' \in SUBSET mask, consensus' \in Nat, locked' \in BOOLEAN, todo' = {},
         phase' \in {"lock", "status", "end"}, LockPhases', SucceedsOnThreshold',
         phase' # "end" \/ mask' # mask => \A b \in Blobbers : g[b] = "end"
  PROVE  FInv'
<1> USE DEF world
<1>1. Types' BY DEF FInv, Types
<1>2. AnswersTrue' BY DEF FInv, AnswersTrue, Changeable
<1>3. MaskHasRefs'
  <2> SUFFICES ASSUME OwnTrees, kind # "dir"
               PROVE  /\ \A c \in Blobbers : g[c] = "tree" => c \in mask'
                      /\ \A c \in mask' : g[c] # "tree" => ref[c] # Nil
    BY DEF MaskHasRefs, OwnTrees
  <2> QED BY DEF FInv, MaskHasRefs
<1>4. RemovedCounted' BY AbsentGrows DEF FInv, Types, RemovedCounted
<1>5. FanOver' /\ CommitsCounted' BY DEF FanOver, CommitsCounted
<1> QED BY <1>1, <1>2, <1>3, <1>4, <1>5 DEF FInv

LEMMA WorkerStep ==
  ASSUME FInv,
         \/ FanDone \/ DeleteFailsEarly \/ LockOK \/ LockFails \/ StatusFails \/ StatusRetry
  PROVE  FInv'
<1> USE DEF world, counted
<1>1. UNCHANGED <<world, staged, applied, g, ref, exists, removed, consensus, todo>>
  BY DEF FanDone, DeleteFailsEarly, LockOK, LockFails, StatusFails, StatusRetry
<1>2. phase # "commit" /\ todo = {} /\ consensus \in Nat /\ mask \in SUBSET mask
  BY DEF FanDone, DeleteFailsEarly, LockOK, LockFails, StatusFails, StatusRetry, FInv, FanOver, Types
<1>3. SucceedsOnThreshold'
  <2>1. \A b \in Blobbers : Fits(b)' = Fits(b) BY <1>1 DEF Fits
  <2>2. result' = "ok" => result = "ok"
    BY DEF FanDone, DeleteFailsEarly, LockOK, LockFails, StatusFails, StatusRetry
  <2> QED BY <1>1, <2>1, <2>2 DEF FInv, SucceedsOnThreshold
<1>4. phase \in {"lock", "status"} => \A b \in Blobbers : g[b] = "end" BY DEF FInv, FanOver
<1>5. CASE FanDone
  <2>1. ~locked BY <1>5 DEF FInv, LockPhases, FanDone
  <2>2. /\ phase' \in {"lock", "end"} /\ mask' = mask /\ locked' = locked
        /\ \A b \in Blobbers : g[b] = "end"
    BY <1>5 DEF FanDone
  <2>3. LockPhases' /\ locked' \in BOOLEAN BY <2>1, <2>2, <1>1 DEF LockPhases, FInv, Types
  <2> QED BY <2>2, <2>3, <1>1, <1>2, <1>3, PhaseStep
<1>6. CASE DeleteFailsEarly \/ LockFails
  <2>1. ~locked BY <1>6 DEF FInv, LockPhases, DeleteFailsEarly, LockFails
  <2>2. phase' = "end" /\ mask' = mask /\ locked' = locked
    BY <1>6 DEF DeleteFailsEarly, LockFails
  <2>3. LockPhases' /\ locked' \in BOOLEAN BY <2>1, <2>2, <1>1 DEF LockPhases, FInv, Types
  <2> QED BY <2>2, <2>3, <1>1, <1>2, <1>3, PhaseStep
<1>7. CASE LockOK
  <2>1. phase = "lock" /\ phase' = "status" /\ locked' = TRUE BY <1>7 DEF LockOK
  <2>2. mask' \in SUBSET mask BY <1>7 DEF LockOK
  <2> QED BY <2>1, <2>2, <1>1, <1>2, <1>3, <1>4, PhaseStep DEF LockPhases
<1>8. CASE StatusFails
  <2>1. /\ phase' = "end" /\ mask' = mask /\ result' = "status_failed"
        /\ locked' = (kind = "move" /\ direct)
    BY <1>8 DEF StatusFails
  <2>2. LockPhases' BY <2>1, <1>1 DEF LockPhases
  <2> QED BY <2>1, <2>2, <1>1, <1>2, <1>3, PhaseStep
<1>9. CASE StatusRetry
  <2>1. phase' = "end" /\ mask' = mask /\ locked' = FALSE BY <1>9 DEF StatusRetry
  <2> QED BY <2>1, <1>1, <1>2, <1>3, PhaseStep DEF LockPhases
<1> QED BY <1>5, <1>6, <1>7, <1>8, <1>9

-----------------------------------------------------------------------------
(* The commit                                                               *)

\* What is counted when the commit starts.
LEMMA AddConsensusCounted ==
  ASSUME FInv, OwnTrees
  PROVE  /\ Before \in SUBSET Blobbers /\ AddConsensus \in Nat
         /\ AddConsensus <= Cardinality(Before)
<1>1. Absent \in SUBSET Blobbers /\ exists \in SUBSET Blobbers BY DEF FInv, Types, Absent
<1>2. Cardinality(exists) \in Nat /\ Cardinality({}) = 0 BY <1>1, FiniteSubsets, FS_EmptySet
<1>3. CASE direct /\ kind = "delete"
  <2>1. Before = Absent /\ AddConsensus = removed BY <1>3 DEF Before, AddConsensus
  <2> QED BY <2>1, <1>1, <1>3 DEF FInv, Types, RemovedCounted
<1>4. CASE direct /\ kind = "dir"
  <2>1. Before = exists /\ AddConsensus = Cardinality(exists)
    BY <1>4 DEF Before, AddConsensus
  <2> QED BY <2>1, <1>1, <1>2
<1>5. CASE ~(direct /\ kind = "delete") /\ ~(direct /\ kind = "dir")
  <2>1. Before = {} /\ AddConsensus = 0 BY <1>5 DEF Before, AddConsensus
  <2> QED BY <2>1, <1>2
<1> QED BY <1>3, <1>4, <1>5

LEMMA StartCommitStep ==
  ASSUME FInv, StartCommit
  PROVE  FInv'
<1> USE DEF world, counted
<1>1. /\ phase = "status" /\ phase' = "commit" /\ consensus' = AddConsensus /\ todo' = mask
      /\ UNCHANGED <<kind, direct, obj, loop, staged, applied, g, ref, exists, mask, removed, locked,
                     result>>
  BY DEF StartCommit
<1>2. \A b \in Blobbers : g[b] = "end" BY <1>1 DEF FInv, FanOver
<1>3. AddConsensus \in Nat
  BY FiniteSubsets DEF FInv, Types, AddConsensus
<1>4. Types' BY <1>1, <1>3 DEF FInv, Types
<1>5. AnswersTrue' BY <1>1 DEF FInv, AnswersTrue, Changeable
<1>6. MaskHasRefs' BY <1>1 DEF FInv, MaskHasRefs, OwnTrees
<1>7. RemovedCounted' BY <1>1 DEF FInv, RemovedCounted, Absent
<1>8. FanOver' /\ LockPhases' BY <1>1, <1>2 DEF FInv, FanOver, LockPhases
<1>9. CommitsCounted'
  <2> SUFFICES ASSUME OwnTrees PROVE consensus' <= Cardinality((Before \cup Since)')
    BY <1>1 DEF CommitsCounted, OwnTrees
  <2>1. Before' = Before /\ Since' = {} BY <1>1 DEF Before, Since, Absent
  <2> QED BY <2>1, <1>1, AddConsensusCounted
<1>10. SucceedsOnThreshold' BY <1>1 DEF FInv, SucceedsOnThreshold, Fits
<1> QED BY <1>4, <1>5, <1>6, <1>7, <1>8, <1>9, <1>10 DEF FInv

\* A commit returns; d says whether it is counted.
LEMMA CountStep ==
  ASSUME FInv, NEW b \in todo, NEW d \in {0, 1}, phase = "commit",
         todo' = todo \ {b}, consensus' = consensus + d,
         applied' = applied \/ (applied' = applied \cup {b} /\ b \in staged),
         UNCHANGED <<kind, direct, obj, loop, staged, phase, g, ref, exists, mask, removed, locked,
                     result>>,
         d = 1 /\ OwnTrees => Fits(b)' /\ b \notin Before
  PROVE  FInv'
<1>1. Types' BY DEF FInv, Types
<1>2. AnswersTrue' BY DEF FInv, AnswersTrue, Changeable
<1>3. MaskHasRefs' BY DEF FInv, MaskHasRefs, OwnTrees
<1>4. RemovedCounted' BY DEF FInv, RemovedCounted, Absent
<1>5. FanOver' /\ LockPhases' BY DEF FInv, FanOver, LockPhases
<1>6. \A c \in Blobbers : Fits(c) => Fits(c)' BY DEF Fits
<1>7. CommitsCounted'
  <2> SUFFICES ASSUME OwnTrees PROVE consensus' <= Cardinality((Before \cup Since)')
    BY DEF CommitsCounted, OwnTrees
  <2>1. mask \in SUBSET Blobbers /\ todo \in SUBSET mask BY DEF FInv, Types
  <2>2. Before' = Before /\ Before \in SUBSET Blobbers
    BY AddConsensusCounted DEF Before, Absent
  <2>3. Since \in SUBSET Since' /\ Since' \in SUBSET Blobbers
    BY <1>6, <2>1 DEF Since
  <2>4. /\ (Before \cup Since)' \in SUBSET Blobbers
        /\ Before \cup Since \in SUBSET (Before \cup Since)'
    BY <2>2, <2>3
  <2>5. consensus <= Cardinality(Before \cup Since) /\ consensus \in Nat
    BY DEF FInv, CommitsCounted, Types
  <2>6. Cardinality(Before \cup Since) \in Nat /\ Cardinality((Before \cup Since)') \in Nat
    BY <2>4, FiniteSubsets
  <2>7. CASE d = 0
    <3>1. Cardinality(Before \cup Since) <= Cardinality((Before \cup Since)')
      BY <2>4, CountGrows
    <3> QED BY <2>5, <2>6, <2>7, <3>1
  <2>8. CASE d = 1
    <3>1. b \in Since' /\ b \notin Since /\ b \notin Before
      BY <2>1, <2>8 DEF Since
    <3>2. Cardinality(Before \cup Since) + 1 <= Cardinality((Before \cup Since)')
      BY <2>4, <3>1, CountOneMore
    <3> QED BY <2>5, <2>6, <2>8, <3>2
  <2> QED BY <2>7, <2>8
<1>8. SucceedsOnThreshold'
  <2> SUFFICES ASSUME result = "ok", OwnTrees
               PROVE  Cardinality({c \in Blobbers : Fits(c)'}) >= Thresh
    BY DEF SucceedsOnThreshold, OwnTrees
  <2> DEFINE S == {c \in Blobbers : Fits(c)}
             T == {c \in Blobbers : Fits(c)'}
  <2>1. S \in SUBSET T /\ T \in SUBSET Blobbers BY <1>6
  <2>2. Cardinality(S) >= Thresh BY DEF FInv, SucceedsOnThreshold, OwnTrees
  <2>3. Cardinality(S) <= Cardinality(T) /\ Cardinality(S) \in Nat /\ Cardinality(T) \in Nat
    BY <2>1, CountGrows, FiniteSubsets
  <2> QED BY <2>2, <2>3, FileOpsConstants
<1> QED BY <1>1, <1>2, <1>3, <1>4, <1>5, <1>7, <1>8 DEF FInv

\* One commit request returns.  A worker whose goroutines saw their own trees sends
\* nothing empty except a directory that exists.
LEMMA CommitStep ==
  ASSUME FInv, NEW b \in Blobbers, CommitNothing(b) \/ CommitOK(b) \/ CommitFails(b)
  PROVE  FInv'
<1> USE DEF world, counted
<1>1. /\ phase = "commit" /\ b \in todo /\ todo' = todo \ {b}
      /\ UNCHANGED <<kind, direct, obj, loop, staged, phase, g, ref, exists, mask, removed, locked,
                     result>>
  BY DEF CommitNothing, CommitOK, CommitFails
<1>2. b \in mask /\ g[b] = "end" /\ kind \in Kinds
  BY <1>1 DEF FInv, Types, FanOver
<1>3. CASE CommitNothing(b)
  <2>1. Empty(b) /\ consensus' = consensus + 1 /\ applied' = applied BY <1>3 DEF CommitNothing
  <2>2. OwnTrees => Fits(b)' /\ b \notin Before
    <3> SUFFICES ASSUME OwnTrees PROVE Fits(b)' /\ b \notin Before OBVIOUS
    <3>1. kind = "dir" BY <2>1, <1>2 DEF Empty, FInv, MaskHasRefs
    <3>2. ~direct /\ b \in exists BY <2>1, <3>1 DEF Empty
    <3>3. obj[b] BY <3>2 DEF FInv, AnswersTrue
    <3> QED BY <3>1, <3>2, <3>3, <1>1 DEF Fits, Before
  <2> QED BY <1>1, <2>1, <2>2, CountStep
<1>4. CASE CommitOK(b)
  <2>1. b \in staged /\ consensus' = consensus + 1 /\ applied' = applied \cup {b}
    BY <1>4 DEF CommitOK
  <2>2. Changeable(b) BY <2>1 DEF FInv, AnswersTrue
  <2>3. Fits(b)' BY <2>1, <1>1 DEF Fits
  <2>4. b \notin Before
    <3>1. b \notin Absent BY <1>2 DEF Absent
    <3>2. b \notin exists BY <2>2 DEF Changeable, FInv, AnswersTrue
    <3> QED BY <3>1, <3>2 DEF Before
  <2> QED BY <1>1, <2>1, <2>3, <2>4, CountStep
<1>5. CASE CommitFails(b)
  <2>1. consensus' = consensus + 0 BY <1>5 DEF CommitFails, FInv, Types
  <2>2. applied' = applied \/ (applied' = applied \cup {b} /\ b \in staged)
    BY <1>5 DEF CommitFails
  <2> QED BY <1>1, <2>1, <2>2, CountStep
<1> QED BY <1>3, <1>4, <1>5

\* All commits are back: whoever was counted has the change.
LEMMA CommittedStep ==
  ASSUME FInv, Committed
  PROVE  FInv'
<1> USE DEF world, counted
<1>1. /\ phase = "commit" /\ todo = {} /\ todo' = todo /\ phase' = "end" /\ locked' = FALSE
      /\ UNCHANGED <<kind, direct, obj, loop, staged, applied, g, ref, exists, mask, removed,
                     consensus>>
      /\ result' = "ok" => consensus >= Thresh
  BY DEF Committed, Unlocked
<1>2. consensus \in Nat BY DEF FInv, Types
<1>3. LockPhases' BY <1>1 DEF LockPhases
<1>4. SucceedsOnThreshold'
  <2> SUFFICES ASSUME result' = "ok", OwnTrees
               PROVE  Cardinality({b \in Blobbers : Fits(b)'}) >= Thresh
    BY <1>1 DEF SucceedsOnThreshold, OwnTrees
  <2> DEFINE S == {b \in Blobbers : Fits(b)'}
  <2>1. S = {b \in Blobbers : Fits(b)} BY <1>1 DEF Fits
  <2>2. Since \in SUBSET S BY <2>1 DEF Since, FInv, Types
  <2>3. Before \in SUBSET S
    <3> SUFFICES ASSUME NEW b \in Before PROVE b \in S OBVIOUS
    <3>1. \/ kind = "delete" /\ b \in Absent
          \/ kind = "dir" /\ b \in exists
      BY DEF Before
    <3>2. b \in Blobbers BY <3>1 DEF Absent, FInv, Types
    <3>3. Fits(b)
      <4>1. CASE kind = "delete" /\ b \in Absent BY <4>1 DEF Fits, Absent
      <4>2. CASE kind = "dir" /\ b \in exists BY <4>2 DEF Fits, FInv, AnswersTrue
      <4> QED BY <3>1, <4>1, <4>2
    <3> QED BY <2>1, <3>2, <3>3
  <2>4. Before \cup Since \in SUBSET S /\ S \in SUBSET Blobbers BY <2>2, <2>3
  <2>5. consensus <= Cardinality(Before \cup Since)
    BY <1>1 DEF FInv, CommitsCounted
  <2>6. /\ Cardinality(Before \cup Since) <= Cardinality(S)
        /\ Cardinality(Before \cup Since) \in Nat /\ Cardinality(S) \in Nat
    BY <2>4, CountGrows, FiniteSubsets
  <2> HIDE DEF S
  <2>7. Cardinality(S) >= Thresh BY <1>1, <1>2, <2>5, <2>6, FileOpsConstants
  <2> QED BY <2>7 DEF S
<1> QED BY <1>1, <1>2, <1>3, <1>4, PhaseStep

-----------------------------------------------------------------------------
LEMMA FStep == FInv /\ [Next]_vars => FInv'
<1> SUFFICES ASSUME FInv, [Next]_vars PROVE FInv' OBVIOUS
<1>1. ASSUME NEW b \in Blobbers,
             \/ RenameBlobberObject(b) \/ CopyBlobberObject(b) \/ MoveBlobberObject(b)
             \/ DeleteBlobberFile(b) \/ CreateDirInBlobber(b)
      PROVE  FInv'
  <2>1. \/ TreeFound(b) \/ TreeMissing(b) \/ TreeFails(b)
        \/ SendOK(b) \/ TooMany(b) \/ SendFails(b) \/ CheckErr(b)
    BY <1>1 DEF RenameBlobberObject, CopyBlobberObject, MoveBlobberObject, DeleteBlobberFile,
                CreateDirInBlobber
  <2> QED BY <2>1, TreeStep, SendStep
<1>2. CASE StartDelete
  <2>1. 0 \in Blobbers BY FileOpsConstants DEF Blobbers
  <2> QED BY <1>2, <2>1, SendStep
<1>3. CASE DeleteFailsEarly BY <1>3, WorkerStep
<1>4. CASE Process BY <1>4, WorkerStep, StartCommitStep, CommitStep, CommittedStep DEF Process
<1>5. CASE UNCHANGED vars
  <2> USE <1>5 DEF vars, FInv
  <2>1. Types' /\ AnswersTrue' /\ FanOver' /\ LockPhases'
    BY DEF Types, AnswersTrue, Changeable, FanOver, LockPhases
  <2>2. MaskHasRefs' /\ RemovedCounted' BY DEF MaskHasRefs, OwnTrees, RemovedCounted, Absent
  <2>3. \A b : Fits(b)' = Fits(b) BY DEF Fits
  <2>4. CommitsCounted' BY <2>3 DEF CommitsCounted, OwnTrees, Before, Absent, Since
  <2>5. SucceedsOnThreshold' BY <2>3 DEF SucceedsOnThreshold
  <2> QED BY <2>1, <2>2, <2>4, <2>5
<1> QED BY <1>1, <1>2, <1>3, <1>4, <1>5 DEF Next, Returned

LEMMA FAlways == Spec => []FInv
BY FInit, FStep, PTL DEF Spec

\* A rename, copy, move, mkdir or unbatched delete that returns nil holds on
\* consensusThresh blobbers at least: none is counted both as having been in the wanted
\* state and as having committed, and a blobber counted as "nothing to commit" was
\* already in it.
THEOREM OperationHolds == Spec => []SucceedsOnThreshold
<1>1. FInv => SucceedsOnThreshold BY DEF FInv
<1> QED BY <1>1, FAlways, PTL

\* Every worker gives the write-marker lock back on every path, but for a move whose
\* status check fails.
THEOREM LockGivenBack == Spec => []LockReleased
<1>1. FInv => LockReleased BY DEF FInv, LockPhases, LockReleased
<1> QED BY <1>1, FAlways, PTL
=============================================================================
