----------------------------- MODULE RepairProofs -----------------------------
(***************************************************************************)
(* Two repairs that MultiOperation.Process starts do not run at once, no    *)
(* repair makes a file unreadable, and repairs that end undisturbed leave   *)
(* nothing to repair, for every number of blobbers, requests, entries,      *)
(* versions and faults.                                                     *)
(***************************************************************************)
EXTENDS Repair, FiniteSetTheorems, WellFoundedInduction, TLAPS

-----------------------------------------------------------------------------
(* The repair lock                                                          *)

\* The part of the types the argument about the lock needs.
BarTypes ==
  /\ bars \in SUBSET Requests
  /\ call \in [Requests -> {"new", "start", "wait", "retry", "failed", "returned"}]
  /\ sender \in [Requests -> {"none", "send", "register", "end"}]
  /\ work \in [Requests -> {"none", "begin", "next", "dir", "file", "remove", "clean", "local",
                            "copy", "copied", "again", "stuck", "finish", "deferred", "end"}]
  /\ completed \in [Requests -> Nat]
  /\ locked \in BOOLEAN
  /\ repairChan = <<>> \/ \E r \in Requests : repairChan = <<r>>

\* The caller got the lock, and neither its repair nor anybody else has released it.
Owner(r) ==
  /\ r \in bars
  /\ call[r] \in {"start", "failed"} \/ (call[r] = "wait" /\ completed[r] = 0)

OneOwner ==
  /\ \A r \in Requests : Owner(r) => locked
  /\ \A r, s \in Requests : Owner(r) /\ Owner(s) => r = s

Waiting(r) == call[r] = "wait" /\ completed[r] = 0
Queued(r) == repairChan = <<r>>

\* The way of a request: from its caller to the goroutine that queues it, into the
\* channel, to processRepair; it is at one of them, and once.
Stages(r) ==
  /\ call[r] \in {"new", "start", "failed"} =>
       sender[r] = "none" /\ ~Queued(r) /\ work[r] = "none" /\ completed[r] = 0
  /\ sender[r] = "send" => Waiting(r) /\ ~Queued(r) /\ work[r] = "none"
  /\ Queued(r) => Waiting(r) /\ sender[r] # "none" /\ work[r] = "none"
  /\ Running(r) => Waiting(r) /\ sender[r] # "none"

BarInv ==
  /\ BarTypes
  /\ canceled = {} => OneOwner /\ \A r \in bars : Stages(r)

LEMMA BarInit == Init => BarInv
<1> SUFFICES ASSUME Init PROVE BarInv OBVIOUS
<1>1. /\ bars \in SUBSET Requests
      /\ locked = FALSE /\ repairChan = <<>> /\ canceled = {}
      /\ call = [r \in Requests |-> IF r \in bars THEN "new" ELSE "start"]
      /\ sender = [r \in Requests |-> "none"] /\ work = [r \in Requests |-> "none"]
      /\ completed = [r \in Requests |-> 0]
  BY DEF Init
<1>2. BarTypes BY <1>1 DEF BarTypes
<1>3. OneOwner BY <1>1 DEF OneOwner, Owner
<1>4. \A r \in bars : Stages(r) BY <1>1 DEF Stages, Queued, Running, Waiting
<1> QED BY <1>2, <1>3, <1>4 DEF BarInv

\* A caller or a sender takes a step, or the request is taken from the channel.
LEMMA RequestStep ==
  ASSUME BarInv, UNCHANGED <<bars, canceled>>, NEW r \in Requests,
         \/ NewRepairBar(r) \/ RepairAllocFails(r) \/ StartRepair(r) \/ ProcessReturns(r)
         \/ Send(r) \/ Register(r) \/ Dispatch
  PROVE  BarInv'
<1> USE DEF BarInv, BarTypes
<1>1. CASE NewRepairBar(r)
  <2>1. /\ call[r] = "new" /\ locked' = TRUE
        /\ call' = [call EXCEPT ![r] = IF locked THEN "retry" ELSE "start"]
        /\ UNCHANGED <<sender, repairChan, work, completed>>
    BY <1>1 DEF NewRepairBar
  <2>2. BarTypes' BY <2>1
  <2>3. canceled = {} => OneOwner' BY <2>1 DEF OneOwner, Owner
  <2>4. canceled = {} => \A s \in bars : Stages(s)'
    BY <2>1 DEF Stages, Waiting, Queued, Running
  <2> QED BY <2>2, <2>3, <2>4
<1>2. CASE RepairAllocFails(r)
  <2>1. /\ call[r] = "start" /\ r \in bars /\ call' = [call EXCEPT ![r] = "failed"]
        /\ UNCHANGED <<locked, sender, repairChan, work, completed>>
    BY <1>2 DEF RepairAllocFails
  <2>2. BarTypes' BY <2>1
  <2>3. canceled = {} => OneOwner' BY <2>1 DEF OneOwner, Owner
  <2>4. canceled = {} => \A s \in bars : Stages(s)'
    BY <2>1 DEF Stages, Waiting, Queued, Running
  <2> QED BY <2>2, <2>3, <2>4
<1>3. CASE StartRepair(r)
  <2>1. /\ call[r] = "start" /\ sender' = [sender EXCEPT ![r] = "send"]
        /\ call' = [call EXCEPT ![r] = IF r \in bars THEN "wait" ELSE "returned"]
        /\ UNCHANGED <<locked, repairChan, work, completed>>
    BY <1>3 DEF StartRepair
  <2>2. BarTypes' BY <2>1
  <2>3. canceled = {} => OneOwner' BY <2>1 DEF OneOwner, Owner
  <2>4. canceled = {} => \A s \in bars : Stages(s)'
    BY <2>1 DEF Stages, Waiting, Queued, Running
  <2> QED BY <2>2, <2>3, <2>4
<1>4. CASE ProcessReturns(r)
  <2>1. /\ call[r] = "wait" /\ completed[r] > 0 /\ call' = [call EXCEPT ![r] = "retry"]
        /\ UNCHANGED <<locked, sender, repairChan, work, completed>>
    BY <1>4 DEF ProcessReturns
  <2>2. BarTypes' BY <2>1
  <2>3. canceled = {} => OneOwner' BY <2>1 DEF OneOwner, Owner
  <2>4. canceled = {} => \A s \in bars : Stages(s)'
    BY <2>1 DEF Stages, Waiting, Queued, Running
  <2> QED BY <2>2, <2>3, <2>4
<1>5. CASE Send(r)
  <2>1. /\ sender[r] = "send" /\ repairChan = <<>> /\ repairChan' = <<r>>
        /\ sender' = [sender EXCEPT ![r] = "register"]
        /\ UNCHANGED <<locked, call, work, completed>>
    BY <1>5 DEF Send
  <2>2. BarTypes' BY <2>1
  <2>3. canceled = {} => OneOwner' BY <2>1 DEF OneOwner, Owner
  <2>4. \A s \in Requests : Queued(s)' => s = r BY <2>1 DEF Queued
  <2>5. canceled = {} => \A s \in bars : Stages(s)'
    BY <2>1, <2>4 DEF Stages, Waiting, Running
  <2> QED BY <2>2, <2>3, <2>5
<1>6. CASE Register(r)
  <2>1. /\ sender[r] = "register" /\ sender' = [sender EXCEPT ![r] = "end"]
        /\ UNCHANGED <<locked, call, repairChan, work, completed>>
    BY <1>6 DEF Register
  <2>2. BarTypes' BY <2>1
  <2>3. canceled = {} => OneOwner' BY <2>1 DEF OneOwner, Owner
  <2>4. canceled = {} => \A s \in bars : Stages(s)'
    BY <2>1 DEF Stages, Waiting, Queued, Running
  <2> QED BY <2>2, <2>3, <2>4
<1>7. CASE Dispatch
  <2>1. PICK h \in Requests : repairChan = <<h>> BY <1>7 DEF Dispatch
  <2>2. /\ work' = [work EXCEPT ![h] = "begin"] /\ repairChan' = <<>>
        /\ UNCHANGED <<locked, call, sender, completed>>
    BY <1>7, <2>1 DEF Dispatch
  <2>3. BarTypes' BY <2>2
  <2>4. canceled = {} => OneOwner' BY <2>2 DEF OneOwner, Owner
  <2>5. \A s \in Requests : ~Queued(s)' /\ Queued(h) BY <2>1, <2>2 DEF Queued
  <2>6. canceled = {} => \A s \in bars : Stages(s)'
    BY <2>2, <2>5 DEF Stages, Waiting, Running
  <2> QED BY <2>3, <2>4, <2>6
<1> QED BY <1>1, <1>2, <1>3, <1>4, <1>5, <1>6, <1>7

\* A step of processRepair: it goes on, or reports its end.
LEMMA WorkStep ==
  ASSUME BarInv, UNCHANGED <<bars, canceled, call, sender, repairChan>>, NEW r \in Requests,
         NEW w \in {"next", "dir", "file", "remove", "clean", "local", "copy", "copied", "again", "stuck", "finish",
                    "deferred", "end"},
         work' = [work EXCEPT ![r] = w],
         \/ /\ UNCHANGED <<locked, completed>>
            /\ Running(r) \/ (work[r] = "deferred" /\ w = "end")
         \/ /\ RepairCompleted(r)
            /\ canceled # {} \/ (Running(r) /\ w = "deferred")
  PROVE  BarInv'
<1> USE DEF BarInv, BarTypes
<1>1. BarTypes'
  <2>1. work' \in [Requests -> {"none", "begin", "next", "dir", "file", "remove", "clean", "local",
                                "copy", "copied", "again", "stuck", "finish", "deferred", "end"}]
    OBVIOUS
  <2>2. CASE UNCHANGED <<locked, completed>> BY <2>1, <2>2
  <2>3. CASE RepairCompleted(r)
    <3>1. completed' \in [Requests -> Nat] BY <2>3 DEF RepairCompleted
    <3>2. locked' = FALSE \/ locked' = locked BY <2>3 DEF RepairCompleted
    <3> QED BY <2>1, <3>1, <3>2
  <2> QED BY <2>2, <2>3
<1>2. ASSUME canceled = {} PROVE OneOwner' /\ \A s \in bars : Stages(s)'
  <2>1. CASE UNCHANGED <<locked, completed>> /\ (Running(r) \/ (work[r] = "deferred" /\ w = "end"))
    <3>1. OneOwner' BY <1>2, <2>1 DEF OneOwner, Owner
    <3>2. \A s \in bars : Stages(s)'
      BY <1>2, <2>1 DEF Stages, Waiting, Queued, Running
    <3> QED BY <3>1, <3>2
  <2>2. CASE RepairCompleted(r) /\ Running(r) /\ w = "deferred"
    <3>1. CASE r \notin bars
      <4>1. completed' = [completed EXCEPT ![r] = @ + 1] /\ locked' = locked
        BY <2>2, <3>1 DEF RepairCompleted
      <4>2. OneOwner' BY <1>2, <3>1, <4>1 DEF OneOwner, Owner
      <4>3. \A s \in bars : Stages(s)'
        BY <1>2, <2>2, <3>1, <4>1 DEF Stages, Waiting, Queued, Running
      <4> QED BY <4>2, <4>3
    <3>2. CASE r \in bars
      <4>1. completed' = [completed EXCEPT ![r] = @ + 1] BY <2>2 DEF RepairCompleted
      <4>2. Owner(r) /\ Waiting(r) /\ sender[r] # "none" /\ ~Queued(r) /\ sender[r] # "send"
        BY <1>2, <2>2, <3>2 DEF Stages, Owner, Waiting, Running
      <4>3. \A s \in Requests : ~Owner(s)'
        BY <1>2, <4>1, <4>2 DEF OneOwner, Owner, Waiting
      <4>4. OneOwner' BY <4>3 DEF OneOwner
      <4>5. \A s \in bars : Stages(s)'
        BY <1>2, <2>2, <4>1, <4>2 DEF Stages, Waiting, Queued, Running
      <4> QED BY <4>4, <4>5
    <3> QED BY <3>1, <3>2
  <2> QED BY <1>2, <2>1, <2>2
<1> QED BY <1>1, <1>2

LEMMA ProcessRepairBar ==
  ASSUME BarInv, NEW r \in Requests, ProcessRepair(r)
  PROVE  BarInv'
<1> USE DEF ProcessRepair, request, At, Goto
<1> DEFINE W == {"next", "dir", "file", "remove", "clean", "local", "copy", "copied", "again", "stuck", "finish",
                 "deferred", "end"}
           Goes(w) == work' = [work EXCEPT ![r] = w]
           Quiet == UNCHANGED <<locked, completed>>
<1>1. UNCHANGED <<bars, canceled, call, sender, repairChan>>
  BY DEF Begin, FirstSteps, ListAgain, NextChild, LastChild, VisitDir, VisitFile, Delete, DeleteFails,
         CheckLocal, Copy, CopyFails, CopyHangs, CopyEnds, Copied, Finish, Deferred
<1>2. CASE Begin(r) \/ NextChild(r) \/ VisitFile(r) \/ CheckLocal(r) \/ Copied(r)
  <2>1. Running(r)
    BY <1>2 DEF Begin, NextChild, VisitFile, CheckLocal, Copied, Running
  <2>2. \E w \in W : Goes(w) /\ (Quiet \/ (RepairCompleted(r) /\ canceled # {}))
    <3>1. CASE Begin(r) BY <3>1 DEF Begin, FirstSteps, CheckForCancel, NotCanceled
    <3>2. CASE NextChild(r) BY <3>2 DEF NextChild, CheckForCancel, NotCanceled
    <3>3. CASE VisitFile(r)
      <4>1. \A fm, dm : Branch(fm, dm) \in W BY DEF Branch
      <4> QED BY <3>3, <4>1 DEF VisitFile, CheckForCancel, NotCanceled
    <3>4. CASE CheckLocal(r) BY <3>4 DEF CheckLocal, CheckForCancel
    <3>5. CASE Copied(r) BY <3>5 DEF Copied, CheckForCancel, NotCanceled
    <3> QED BY <1>2, <3>1, <3>2, <3>3, <3>4, <3>5
  <2> QED BY <1>1, <2>1, <2>2, WorkStep
<1>3. CASE \/ LastChild(r) \/ VisitDir(r) \/ Delete(r) \/ DeleteFails(r) \/ Copy(r) \/ CopyFails(r)
           \/ CopyHangs(r) \/ ListAgain(r) \/ Deferred(r)
  <2>1. Running(r) \/ (work[r] = "deferred" /\ Goes("end"))
    BY <1>3 DEF LastChild, VisitDir, Delete, DeleteFails, Copy, CopyFails, CopyHangs, CopyEnds,
                ListAgain, Deferred, Running
  <2>2. Quiet /\ \E w \in W : Goes(w)
    BY <1>3 DEF LastChild, VisitDir, Delete, DeleteFails, Copy, CopyFails, CopyHangs, CopyEnds,
                ListAgain, Deferred
  <2> QED BY <1>1, <2>1, <2>2, WorkStep
<1>4. CASE Finish(r)
  BY <1>1, <1>4, WorkStep DEF Finish, Running
<1> QED BY <1>2, <1>3, <1>4

LEMMA BarStep == BarInv /\ [Next]_vars => BarInv'
<1> SUFFICES ASSUME BarInv, [Next]_vars PROVE BarInv' OBVIOUS
<1>1. ASSUME NEW r \in Requests, Caller(r) PROVE BarInv'
  <2>1. UNCHANGED <<bars, canceled>>
    BY <1>1 DEF Caller, NewRepairBar, RepairAllocFails, StartRepair, ProcessReturns
  <2> QED BY <1>1, <2>1, RequestStep DEF Caller
<1>2. ASSUME NEW r \in Requests, Sender(r) PROVE BarInv'
  <2>1. UNCHANGED <<bars, canceled>> BY <1>2 DEF Sender, Send, Register
  <2> QED BY <1>2, <2>1, RequestStep DEF Sender
<1>3. CASE Dispatcher
  <2>1. UNCHANGED <<bars, canceled>> BY <1>3 DEF Dispatcher, Dispatch
  <2>2. PICK r \in Requests : repairChan = <<r>>
    BY <1>3 DEF Dispatcher, Dispatch, BarInv, BarTypes
  <2> QED BY <1>3, <2>1, <2>2, RequestStep DEF Dispatcher
<1>4. CASE Canceler
  <2>1. canceled' # {} BY <1>4 DEF Canceler, CancelRepair
  <2>2. UNCHANGED <<bars, locked, call, sender, repairChan, work, completed>>
    BY <1>4 DEF Canceler, CancelRepair, request
  <2> QED BY <2>1, <2>2 DEF BarInv, BarTypes
<1>5. CASE UNCHANGED vars
  BY <1>5 DEF vars, request, BarInv, BarTypes, OneOwner, Owner, Stages, Waiting, Queued, Running
<1> QED BY <1>1, <1>2, <1>3, <1>4, <1>5, ProcessRepairBar DEF Next

LEMMA BarAlways == Spec => []BarInv
BY BarInit, BarStep, PTL DEF Spec

\* Two repairs that MultiOperation.Process starts never run at once as long as none is
\* canceled: a request that runs is the one whose caller got the lock and still waits,
\* and it releases the lock by its last step.
THEOREM OneBarRepair == Spec => []BarRepairsExclusive
<1>1. BarInv => BarRepairsExclusive
  BY DEF BarInv, BarTypes, BarRepairsExclusive, OneOwner, Owner, Stages, Waiting
<1> QED BY <1>1, BarAlways, PTL

-----------------------------------------------------------------------------
(* What a repair may delete                                                 *)

Visiting == {"dir", "file", "remove", "clean", "local", "copy"}
Copying == {"clean", "local", "copy"}
Deleting == {"remove", "clean"}

\* The part of the types the argument about the files needs.
FileTypes ==
  /\ ver \in [Entries -> [Blobbers -> 0 .. Versions]]
  /\ work \in [Requests -> {"none", "begin", "next", "dir", "file", "remove", "clean", "local",
                            "copy", "copied", "again", "stuck", "finish", "deferred", "end"}]
  /\ repairChan = <<>> \/ \E r \in Requests : repairChan = <<r>>
  /\ todo \in [Requests -> SUBSET (Entries \X (1 .. Versions))]
  /\ cur \in [Requests -> Entries \cup {None}]
  /\ found \in [Requests -> SUBSET Blobbers] /\ del \in [Requests -> SUBSET Blobbers]
  /\ lost \in Nat
  /\ \A r \in Requests :
       /\ work[r] \in Visiting => cur[r] \in Entries
       /\ work[r] = "dir" => cur[r] \in Dirs
       /\ work[r] \in Copying => found[r] # {}

\* DataShards of the first blobbers, up to i, have version v of f, and no other version
\* is on as many of them: this is what getFileConsensusFromBlobbers selects.  No repair
\* under way is to delete it from them or to copy another version.  (A repair may be to
\* delete from a blobber that has got v by now, from another repair: hence C, which is
\* not all that have v.)
Core(f, v, C, i) ==
  /\ C \in SUBSET Blobbers /\ C \in SUBSET (0 .. i)
  /\ Cardinality(C) >= DataShards
  /\ \A b \in C : ver[f][b] = v
  /\ \A u \in (1 .. Versions) \ {v} :
       Cardinality(Holders(f, u, Blobbers \cap (0 .. i))) < DataShards
  /\ \A r \in Requests : cur[r] = f /\ work[r] \in Deleting => del[r] \cap C = {}
  /\ \A r \in Requests : cur[r] = f /\ work[r] \in Copying =>
       \A b \in found[r] : ver[f][b] \in {0, v}

HeldAt(f, v) == \E C \in SUBSET Blobbers, i \in Blobbers : Core(f, v, C, i)
Held(f) == \E v \in 1 .. Versions : HeldAt(f, v)

\* No version is on DataShards blobbers, and nobody is to copy one.
Unreadable(f) ==
  /\ ~Recoverable(f)
  /\ \A r \in Requests : cur[r] = f => work[r] \notin Copying

FileInv == FileTypes /\ (lost = 0 => \A f \in Files : Held(f) \/ Unreadable(f))

\* A step changes neither which of the two holds nor the version.
KeepsFile(f) ==
  /\ \A v \in 1 .. Versions : HeldAt(f, v) => HeldAt(f, v)'
  /\ Unreadable(f) => Unreadable(f)'

-----------------------------------------------------------------------------
(* Counting, and the first index                                            *)

LEMMA FiniteSubsets ==
  ASSUME NEW S \in SUBSET Blobbers
  PROVE  IsFiniteSet(S) /\ Cardinality(S) \in Nat
<1>1. IsFiniteSet(0 .. N-1) BY RepairConstants, FS_Interval
<1>2. IsFiniteSet(S) BY <1>1, FS_Subset DEF Blobbers
<1> QED BY <1>2, FS_CardinalityType

LEMMA CountGrows ==
  ASSUME NEW T \in SUBSET Blobbers, NEW S \in SUBSET T
  PROVE  Cardinality(S) <= Cardinality(T) /\ Cardinality(S) \in Nat /\ Cardinality(T) \in Nat
<1>1. S \in SUBSET Blobbers OBVIOUS
<1> QED BY <1>1, FiniteSubsets, FS_Subset

LEMMA LeastNumber ==
  ASSUME NEW T \in SUBSET Nat, T # {}
  PROVE  \E m \in T : \A n \in T : m <= n
<1> DEFINE R == {p \in Nat \X Nat : p[1] < p[2]}
<1>1. IsWellFoundedOn(R, Nat) BY NatLessThanWellFounded DEF OpToRel
<1>2. \A n, k \in Nat : n < k => <<n, k>> \in R OBVIOUS
<1> HIDE DEF R
<1>3. \E m \in T : \A n \in T : <<n, m>> \notin R BY <1>1, WFMin
<1>4. PICK m \in T : \A n \in T : <<n, m>> \notin R BY <1>3
<1>5. ASSUME NEW n \in T PROVE m <= n
  <2>1. m \in Nat /\ n \in Nat OBVIOUS
  <2>2. ~(n < m) BY <2>1, <1>2, <1>4, Zenon
  <2> QED BY <2>1, <2>2
<1> QED BY <1>5

\* Going through the blobbers, one version is the first to be on DataShards of them.
LEMMA FirstReached ==
  ASSUME NEW f \in Files, FileTypes, Recoverable(f)
  PROVE  \E v \in 1 .. Versions, i \in Blobbers :
           /\ Cardinality(Holders(f, v, Blobbers \cap (0 .. i))) >= DataShards
           /\ \A u \in (1 .. Versions) \ {v} :
                Cardinality(Holders(f, u, Blobbers \cap (0 .. i))) < DataShards
<1> USE RepairConstants
<1> DEFINE H(v, i) == Holders(f, v, Blobbers \cap (0 .. i))
           T == {i \in Blobbers : \E v \in 1 .. Versions : Cardinality(H(v, i)) >= DataShards}
<1>1. \A v \in 1 .. Versions, i \in Int : H(v, i) \in SUBSET Blobbers /\ Cardinality(H(v, i)) \in Nat
  BY FiniteSubsets DEF Holders
<1>2. N - 1 \in T
  <2>1. PICK v \in 1 .. Versions : Cardinality(Holders(f, v, Blobbers)) >= DataShards
    BY DEF Recoverable
  <2>2. N - 1 \in Blobbers /\ Blobbers \cap (0 .. N-1) = Blobbers BY DEF Blobbers
  <2> QED BY <2>1, <2>2
<1>3. T \in SUBSET Nat BY DEF Blobbers
<1>4. PICK m \in T : \A n \in T : m <= n
  <2> HIDE DEF T
  <2> QED BY <1>2, <1>3, LeastNumber
<1>5. m \in Blobbers /\ m \in Nat BY DEF Blobbers
<1>6. PICK v \in 1 .. Versions : Cardinality(H(v, m)) >= DataShards OBVIOUS
\* A version that is on DataShards blobbers up to m but not before is on m.
<1>7. ASSUME NEW w \in 1 .. Versions, Cardinality(H(w, m)) >= DataShards
      PROVE  ver[f][m] = w
  <2> SUFFICES ASSUME ver[f][m] # w PROVE FALSE OBVIOUS
  <2>1. H(w, m) = H(w, m - 1) BY <1>5 DEF Holders, Blobbers
  <2>2. CASE m = 0
    <3>1. H(w, m) = {} BY <2>2 DEF Holders, Blobbers
    <3> QED BY <3>1, <1>7, FS_EmptySet
  <2>3. CASE m # 0
    <3>1. m - 1 \in T BY <2>1, <2>3, <1>5, <1>7 DEF Blobbers
    <3>2. ~(m <= m - 1) BY <1>5
    <3> QED BY <3>1, <3>2, <1>4
  <2> QED BY <2>2, <2>3
<1>8. ASSUME NEW u \in (1 .. Versions) \ {v} PROVE Cardinality(H(u, m)) < DataShards
  <2>1. ~(Cardinality(H(u, m)) >= DataShards) BY <1>6, <1>7
  <2> QED BY <2>1, <1>1, <1>5
<1> QED BY <1>5, <1>6, <1>8

LEMMA FileInit == Init => FileInv
<1> SUFFICES ASSUME Init PROVE FileInv OBVIOUS
<1>1. /\ ver \in [Entries -> [Blobbers -> 0 .. Versions]]
      /\ repairChan = <<>> /\ lost = 0
      /\ work = [r \in Requests |-> "none"] /\ todo = [r \in Requests |-> {}]
      /\ cur = [r \in Requests |-> None]
      /\ found = [r \in Requests |-> {}] /\ del = [r \in Requests |-> {}]
  BY DEF Init
<1>2. FileTypes BY <1>1 DEF FileTypes, Visiting, Copying
<1>3. ASSUME NEW f \in Files PROVE Held(f) \/ Unreadable(f)
  <2>1. CASE ~Recoverable(f) BY <2>1, <1>1 DEF Unreadable, Copying
  <2>2. CASE Recoverable(f)
    <3>1. PICK v \in 1 .. Versions, i \in Blobbers :
            /\ Cardinality(Holders(f, v, Blobbers \cap (0 .. i))) >= DataShards
            /\ \A u \in (1 .. Versions) \ {v} :
                 Cardinality(Holders(f, u, Blobbers \cap (0 .. i))) < DataShards
      BY <1>2, <2>2, FirstReached
    <3> DEFINE C == Holders(f, v, Blobbers \cap (0 .. i))
    <3>2. C \in SUBSET Blobbers /\ C \in SUBSET (0 .. i) /\ \A b \in C : ver[f][b] = v
      BY DEF Holders
    <3>3. \A r \in Requests : work[r] \notin Deleting /\ work[r] \notin Copying
      BY <1>1 DEF Deleting, Copying
    <3>4. Core(f, v, C, i) BY <3>1, <3>2, <3>3 DEF Core
    <3> QED BY <3>2, <3>4 DEF Held, HeldAt
  <2> QED BY <2>1, <2>2
<1> QED BY <1>2, <1>3 DEF FileInv

LEMMA HeldIsRecoverable ==
  ASSUME NEW f \in Files, Held(f)
  PROVE  Recoverable(f)
<1>1. PICK v \in 1 .. Versions, C \in SUBSET Blobbers, i \in Blobbers : Core(f, v, C, i)
  BY DEF Held, HeldAt
<1>2. C \in SUBSET Holders(f, v, Blobbers) /\ Holders(f, v, Blobbers) \in SUBSET Blobbers
  BY <1>1 DEF Core, Holders
<1>3. Cardinality(C) <= Cardinality(Holders(f, v, Blobbers)) /\ Cardinality(C) \in Nat
      /\ Cardinality(Holders(f, v, Blobbers)) \in Nat
  BY <1>2, CountGrows
<1>4. Cardinality(C) >= DataShards BY <1>1 DEF Core
<1> QED BY <1>3, <1>4, RepairConstants DEF Recoverable

\* getFileConsensusFromBlobbers selects the version of the core, and no other.
LEMMA CoreSelected ==
  ASSUME NEW f \in Files, NEW v \in 1 .. Versions, NEW C \in SUBSET Blobbers, NEW i \in Blobbers,
         Core(f, v, C, i)
  PROVE  Selected(f, Blobbers) = {v}
<1> USE RepairConstants
<1> DEFINE H(w, j) == Holders(f, w, Blobbers \cap (0 .. j))
<1>1. \A w, j : H(w, j) \in SUBSET Blobbers /\ Cardinality(H(w, j)) \in Nat
  BY FiniteSubsets DEF Holders
<1>2. ASSUME NEW w, NEW j \in Blobbers, NEW k \in Blobbers, j <= k,
             Cardinality(H(w, j)) >= DataShards
      PROVE  Cardinality(H(w, k)) >= DataShards
  <2>1. H(w, j) \in SUBSET H(w, k) BY <1>2 DEF Holders, Blobbers
  <2>2. Cardinality(H(w, j)) <= Cardinality(H(w, k)) BY <1>1, <2>1, CountGrows
  <2>3. Cardinality(H(w, j)) \in Nat /\ Cardinality(H(w, k)) \in Nat BY <1>1
  <2> HIDE DEF H
  <2> QED BY <1>2, <2>2, <2>3
<1>3. Cardinality(H(v, i)) >= DataShards
  <2>1. C \in SUBSET H(v, i) BY DEF Core, Holders
  <2>2. Cardinality(C) <= Cardinality(H(v, i)) /\ Cardinality(C) \in Nat BY <1>1, <2>1, CountGrows
  <2>3. Cardinality(C) >= DataShards /\ Cardinality(H(v, i)) \in Nat BY <1>1 DEF Core
  <2> HIDE DEF H
  <2> QED BY <2>2, <2>3
<1>4. \A u \in (1 .. Versions) \ {v} : ~(Cardinality(H(u, i)) >= DataShards)
  <2> SUFFICES ASSUME NEW u \in (1 .. Versions) \ {v} PROVE ~(Cardinality(H(u, i)) >= DataShards)
    OBVIOUS
  <2>1. Cardinality(H(u, i)) < DataShards BY DEF Core
  <2>2. Cardinality(H(u, i)) \in Nat BY <1>1
  <2> HIDE DEF H
  <2> QED BY <2>1, <2>2
<1>5. v \in Selected(f, Blobbers) BY <1>3, <1>4 DEF Selected
<1>6. ASSUME NEW u \in Selected(f, Blobbers), u # v PROVE FALSE
  <2>1. u \in 1 .. Versions BY DEF Selected
  <2>2. PICK j \in Blobbers : /\ Cardinality(H(u, j)) >= DataShards
                              /\ ~(Cardinality(H(v, j)) >= DataShards)
    BY <1>6 DEF Selected
  <2>3. i <= j \/ j <= i BY DEF Blobbers
  <2> QED BY <2>1, <2>2, <2>3, <1>2, <1>3, <1>4, <1>6
<1> QED BY <1>5, <1>6

LEMMA NothingSelected ==
  ASSUME NEW f \in Files, ~Recoverable(f)
  PROVE  FoundMask(f, Blobbers) = {}
<1> SUFFICES ASSUME NEW v \in Selected(f, Blobbers) PROVE FALSE BY DEF FoundMask
<1>1. v \in 1 .. Versions BY DEF Selected
<1>2. PICK i \in Blobbers : Cardinality(Holders(f, v, Blobbers \cap (0 .. i))) >= DataShards
  BY DEF Selected
<1>3. /\ Holders(f, v, Blobbers \cap (0 .. i)) \in SUBSET Holders(f, v, Blobbers)
      /\ Holders(f, v, Blobbers) \in SUBSET Blobbers
  BY DEF Holders
<1>4. Cardinality(Holders(f, v, Blobbers)) >= DataShards
  BY <1>2, <1>3, CountGrows, RepairConstants
<1> QED BY <1>1, <1>4 DEF Recoverable

-----------------------------------------------------------------------------
(* One lemma per kind of step                                               *)

\* A step that leaves the files alone and gives no request anything to delete or copy.
LEMMA QuietKeeps ==
  ASSUME NEW f \in Files, ver' = ver,
         \A r \in Requests : cur'[r] = f /\ work'[r] \in Deleting =>
           cur[r] = f /\ work[r] \in Deleting /\ del'[r] = del[r],
         \A r \in Requests : cur'[r] = f /\ work'[r] \in Copying =>
           cur[r] = f /\ work[r] \in Copying /\ found'[r] = found[r]
  PROVE  KeepsFile(f)
<1>1. \A v, A : Holders(f, v, A)' = Holders(f, v, A) BY DEF Holders
<1>2. Recoverable(f)' = Recoverable(f) BY <1>1 DEF Recoverable
<1>3. ASSUME NEW v \in 1 .. Versions, NEW C \in SUBSET Blobbers, NEW i \in Blobbers,
             Core(f, v, C, i)
      PROVE  Core(f, v, C, i)'
  BY <1>1, <1>3 DEF Core
<1> QED BY <1>2, <1>3 DEF KeepsFile, HeldAt, Unreadable

\* A file other than the one at hand.
LEMMA OtherKeeps ==
  ASSUME FileTypes, NEW f \in Files, NEW r \in Requests, cur[r] # f, ver'[f] = ver[f],
         cur' = cur,
         \A s \in Requests : s # r =>
           work'[s] = work[s] /\ del'[s] = del[s] /\ found'[s] = found[s]
  PROVE  KeepsFile(f)
<1>1. \A v, A : Holders(f, v, A)' = Holders(f, v, A) BY DEF Holders
<1>2. Recoverable(f)' = Recoverable(f) BY <1>1 DEF Recoverable
<1>3. ASSUME NEW v \in 1 .. Versions, NEW C \in SUBSET Blobbers, NEW i \in Blobbers,
             Core(f, v, C, i)
      PROVE  Core(f, v, C, i)'
  BY <1>1, <1>3 DEF Core
<1> QED BY <1>2, <1>3 DEF KeepsFile, HeldAt, Unreadable

\* The file-meta answers of all blobbers are in.
LEMMA VisitKeeps ==
  ASSUME NEW f \in Files, FileTypes, NEW r \in Requests, ver' = ver, cur' = cur,
         cur[r] = f,
         found' = [found EXCEPT ![r] = FoundMask(f, Blobbers)],
         del' = [del EXCEPT ![r] = DeleteMask(f, Blobbers)],
         work' = [work EXCEPT ![r] = Branch(FoundMask(f, Blobbers), DeleteMask(f, Blobbers))]
  PROVE  KeepsFile(f)
<1>1. \A v, A : Holders(f, v, A)' = Holders(f, v, A) BY DEF Holders
<1>2. Recoverable(f)' = Recoverable(f) BY <1>1 DEF Recoverable
<1>3. \A s \in Requests : s # r => found'[s] = found[s] /\ del'[s] = del[s] /\ work'[s] = work[s]
  BY DEF FileTypes
<1>4. /\ found'[r] = FoundMask(f, Blobbers) /\ del'[r] = DeleteMask(f, Blobbers)
      /\ work'[r] = Branch(FoundMask(f, Blobbers), DeleteMask(f, Blobbers))
  BY DEF FileTypes
<1>5. ASSUME NEW v \in 1 .. Versions, NEW C \in SUBSET Blobbers, NEW i \in Blobbers,
             Core(f, v, C, i)
      PROVE  Core(f, v, C, i)'
  <2>1. FoundMask(f, Blobbers) = Holders(f, v, Blobbers)
    BY <1>5, CoreSelected DEF FoundMask
  <2>2. /\ \A b \in found'[r] : ver[f][b] = v
        /\ C \in SUBSET found'[r] /\ del'[r] \cap found'[r] = {}
    BY <1>4, <1>5, <2>1 DEF Holders, Core, DeleteMask
  <2>3. \A s \in Requests : cur[s] = f /\ work'[s] \in Deleting => del'[s] \cap C = {}
    <3> SUFFICES ASSUME NEW s \in Requests, cur[s] = f, work'[s] \in Deleting
                 PROVE  del'[s] \cap C = {}
      OBVIOUS
    <3>1. CASE s = r BY <3>1, <2>2
    <3>2. CASE s # r BY <3>2, <1>3, <1>5 DEF Core
    <3> QED BY <3>1, <3>2
  <2>4. \A s \in Requests : cur[s] = f /\ work'[s] \in Copying =>
          \A b \in found'[s] : ver[f][b] \in {0, v}
    <3> SUFFICES ASSUME NEW s \in Requests, cur[s] = f, work'[s] \in Copying
                 PROVE  \A b \in found'[s] : ver[f][b] \in {0, v}
      OBVIOUS
    <3>1. CASE s = r BY <3>1, <2>2
    <3>2. CASE s # r BY <3>2, <1>3, <1>5 DEF Core
    <3> QED BY <3>1, <3>2
  <2> QED BY <1>1, <1>5, <2>3, <2>4 DEF Core
<1>6. Unreadable(f) => Unreadable(f)'
  <2> SUFFICES ASSUME Unreadable(f) PROVE Unreadable(f)' OBVIOUS
  <2>1. FoundMask(f, Blobbers) = {} BY NothingSelected DEF Unreadable
  <2>2. work'[r] \notin Copying BY <2>1, <1>4 DEF Branch, Copying
  <2> QED BY <2>2, <1>2, <1>3 DEF Unreadable
<1> QED BY <1>5, <1>6 DEF KeepsFile, HeldAt

\* deleteFile of r's minority shards, where it succeeds.
LEMMA DeleteKeeps ==
  ASSUME NEW f \in Files, FileTypes, NEW r \in Requests, NEW done \in SUBSET del[r],
         cur[r] = f, work[r] \in Deleting, DeleteFile(r, done),
         UNCHANGED <<cur, found, del>>,
         \/ work[r] = "clean" /\ work' = [work EXCEPT ![r] = "local"]
         \/ work' = [work EXCEPT ![r] = "next"]
  PROVE  KeepsFile(f)
<1>1. \A b \in Blobbers : ver'[f][b] = IF b \in done THEN 0 ELSE ver[f][b]
  BY DEF FileTypes, DeleteFile, Entries
<1>2. \A s \in Requests : /\ work'[s] \in Deleting => work[s] \in Deleting
                          /\ work'[s] \in Copying => work[s] \in Copying
  BY DEF FileTypes, Deleting, Copying
<1>3. ASSUME NEW u \in 1 .. Versions, NEW A \in SUBSET Blobbers
      PROVE  /\ Holders(f, u, A)' \in SUBSET Holders(f, u, A)
             /\ Holders(f, u, A) \in SUBSET Blobbers
  BY <1>1 DEF Holders
<1>4. ASSUME NEW v \in 1 .. Versions, NEW C \in SUBSET Blobbers, NEW i \in Blobbers,
             Core(f, v, C, i)
      PROVE  Core(f, v, C, i)'
  <2>1. \A b \in C : ver'[f][b] = v BY <1>1, <1>4 DEF Core
  <2>2. ASSUME NEW u \in (1 .. Versions) \ {v}
        PROVE  Cardinality(Holders(f, u, Blobbers \cap (0 .. i))') < DataShards
    <3>1. Cardinality(Holders(f, u, Blobbers \cap (0 .. i))) < DataShards BY <1>4 DEF Core
    <3>2. Blobbers \cap (0 .. i) \in SUBSET Blobbers OBVIOUS
    <3> QED BY <3>1, <3>2, <1>3, CountGrows, RepairConstants
  <2>3. \A s \in Requests : cur[s] = f /\ work'[s] \in Deleting => del[s] \cap C = {}
    BY <1>2, <1>4 DEF Core
  <2>4. \A s \in Requests : cur[s] = f /\ work'[s] \in Copying =>
          \A b \in found[s] : ver'[f][b] \in {0, v}
    BY <1>1, <1>2, <1>4 DEF Core, FileTypes
  <2> QED BY <1>4, <2>1, <2>2, <2>3, <2>4 DEF Core
<1>5. ~Recoverable(f) => ~Recoverable(f)'
  <2> SUFFICES ASSUME NEW v \in 1 .. Versions, Cardinality(Holders(f, v, Blobbers)') >= DataShards
               PROVE  Cardinality(Holders(f, v, Blobbers)) >= DataShards
    BY DEF Recoverable
  <2> QED BY <1>3, CountGrows, RepairConstants
<1> QED BY <1>2, <1>4, <1>5 DEF KeepsFile, HeldAt, Unreadable

\* The copy: what is read is the version of the core.
LEMMA CopyKeeps ==
  ASSUME NEW f \in Files, FileTypes, NEW r \in Requests, cur[r] = f, At(r, "copy"), Readable(r),
         NEW up \in SUBSET (Targets(r) \ Duplicates(r)),
         ver' = [ver EXCEPT ![f] = [b \in Blobbers |-> IF b \in up THEN Version(r) ELSE @[b]]],
         UNCHANGED <<cur, found, del>>, work' = [work EXCEPT ![r] = "copied"]
  PROVE  KeepsFile(f)
<1>1. \A b \in Blobbers : ver'[f][b] = IF b \in up THEN Version(r) ELSE ver[f][b]
  BY DEF FileTypes, Entries
<1>2. up \in SUBSET Blobbers /\ \A b \in up : ver[f][b] = 0 BY DEF Targets, Duplicates
<1>3. \A s \in Requests : /\ work'[s] \in Deleting => work[s] \in Deleting
                          /\ work'[s] \in Copying => work[s] \in Copying
  BY DEF FileTypes, Deleting, Copying
<1>4. work[r] \in Copying BY DEF At, Copying
<1>5. found[r] # {} /\ found[r] \in SUBSET Blobbers BY <1>4 DEF FileTypes
<1>6. ASSUME NEW v \in 1 .. Versions, NEW C \in SUBSET Blobbers, NEW i \in Blobbers,
             Core(f, v, C, i)
      PROVE  Core(f, v, C, i)'
  <2>1. Version(r) = v
    <3>1. \A b \in found[r] : ver[f][b] = v BY <1>4, <1>6 DEF Core, Readable
    <3>2. (CHOOSE b \in found[r] : TRUE) \in found[r] BY <1>5
    <3> QED BY <3>1, <3>2 DEF Version
  <2>2. \A b \in C : ver'[f][b] = v BY <1>1, <1>6, <2>1 DEF Core
  <2>3. ASSUME NEW u \in (1 .. Versions) \ {v}
        PROVE  Holders(f, u, Blobbers \cap (0 .. i))' \in SUBSET Holders(f, u, Blobbers \cap (0 .. i))
    BY <1>1, <2>1 DEF Holders
  <2>4. ASSUME NEW u \in (1 .. Versions) \ {v}
        PROVE  Cardinality(Holders(f, u, Blobbers \cap (0 .. i))') < DataShards
    <3>1. Cardinality(Holders(f, u, Blobbers \cap (0 .. i))) < DataShards BY <1>6 DEF Core
    <3>2. Holders(f, u, Blobbers \cap (0 .. i)) \in SUBSET Blobbers BY DEF Holders
    <3>3. /\ Cardinality(Holders(f, u, Blobbers \cap (0 .. i))') <=
               Cardinality(Holders(f, u, Blobbers \cap (0 .. i)))
          /\ Cardinality(Holders(f, u, Blobbers \cap (0 .. i))') \in Nat
          /\ Cardinality(Holders(f, u, Blobbers \cap (0 .. i))) \in Nat
      BY <3>2, <2>3, CountGrows
    <3> QED BY <3>1, <3>3, RepairConstants
  <2>5. \A s \in Requests : cur[s] = f /\ work'[s] \in Deleting => del[s] \cap C = {}
    BY <1>3, <1>6 DEF Core
  <2>6. \A s \in Requests : cur[s] = f /\ work'[s] \in Copying =>
          \A b \in found[s] : ver'[f][b] \in {0, v}
    BY <1>1, <1>3, <1>6, <2>1 DEF Core, FileTypes
  <2> QED BY <1>6, <2>2, <2>4, <2>5, <2>6 DEF Core
<1>7. ~Unreadable(f) BY <1>4 DEF Unreadable
<1> QED BY <1>6, <1>7 DEF KeepsFile, HeldAt

-----------------------------------------------------------------------------
(* The invariant                                                            *)

\* A step keeps the types and, if every blobber answered, every file.
Keeps == FileTypes' /\ (lost' = 0 => lost = 0 /\ \A f \in Files : KeepsFile(f))

\* The caller, the sender and the dispatcher touch no file.
LEMMA RequestKeeps ==
  ASSUME FileTypes, NEW r \in Requests,
         \/ NewRepairBar(r) \/ RepairAllocFails(r) \/ StartRepair(r) \/ ProcessReturns(r)
         \/ Send(r) \/ Register(r) \/ Dispatch \/ CancelRepair
  PROVE  Keeps
<1> USE DEF request, visit
<1>1. UNCHANGED <<ver, cur, found, del>>
  BY DEF NewRepairBar, RepairAllocFails, StartRepair, ProcessReturns, Send, Register, Dispatch,
         CancelRepair
<1>2. lost' \in Nat /\ lost' >= lost
  <2>1. CASE StartRepair(r)
    <3>1. PICK A \in SUBSET Blobbers : lost' = lost + Cardinality(Blobbers \ A)
      BY <2>1 DEF StartRepair, Answers
    <3>2. Cardinality(Blobbers \ A) \in Nat BY FiniteSubsets
    <3> QED BY <3>1, <3>2 DEF FileTypes
  <2>2. CASE ~StartRepair(r)
    BY <2>2 DEF NewRepairBar, RepairAllocFails, ProcessReturns, Send, Register, Dispatch,
                CancelRepair, FileTypes
  <2> QED BY <2>1, <2>2
<1>3. todo' \in [Requests -> SUBSET (Entries \X (1 .. Versions))]
  <2>1. \A A : Children(A) \in SUBSET (Entries \X (1 .. Versions)) BY DEF Children
  <2>2. CASE StartRepair(r) BY <2>1, <2>2 DEF StartRepair, FileTypes
  <2>3. CASE ~StartRepair(r)
    BY <2>3 DEF NewRepairBar, RepairAllocFails, ProcessReturns, Send, Register, Dispatch,
                CancelRepair, FileTypes
  <2> QED BY <2>2, <2>3
<1>4. /\ repairChan' = <<>> \/ \E s \in Requests : repairChan' = <<s>>
      /\ \/ work' = work
         \/ \E s \in Requests : work' = [work EXCEPT ![s] = "begin"]
  <2>1. CASE Dispatch
    <3>1. PICK h \in Requests : repairChan = <<h>> BY <2>1 DEF Dispatch, FileTypes
    <3>2. repairChan' = <<>> /\ work' = [work EXCEPT ![h] = "begin"]
      BY <2>1, <3>1 DEF Dispatch
    <3> QED BY <3>2
  <2>2. CASE ~Dispatch
    BY <2>2 DEF NewRepairBar, RepairAllocFails, StartRepair, ProcessReturns, Send, Register,
                CancelRepair, FileTypes
  <2> QED BY <2>1, <2>2
<1>5. /\ work' \in [Requests -> {"none", "begin", "next", "dir", "file", "remove", "clean", "local",
                                 "copy", "copied", "again", "stuck", "finish", "deferred", "end"}]
      /\ \A s \in Requests : work'[s] = work[s] \/ work'[s] = "begin"
  BY <1>4 DEF FileTypes
<1>6. FileTypes'
  BY <1>1, <1>2, <1>3, <1>4, <1>5 DEF FileTypes, Visiting, Copying
<1>7. \A f \in Files : KeepsFile(f)
  BY <1>1, <1>5, QuietKeeps DEF Deleting, Copying
<1> QED BY <1>2, <1>6, <1>7 DEF Keeps, FileTypes

\* processRepair goes on, with nothing new to delete or copy.
LEMMA GoesOn ==
  ASSUME FileTypes, NEW r \in Requests,
         NEW w \in {"next", "copy", "copied", "again", "stuck", "finish", "deferred", "end"},
         work' = [work EXCEPT ![r] = w], w = "copy" => work[r] = "local",
         UNCHANGED <<ver, repairChan, todo, cur, found, del, lost>>
  PROVE  Keeps
<1>1. \A s \in Requests : work'[s] = work[s] \/ (s = r /\ work'[s] = w) BY DEF FileTypes
<1>2. FileTypes' BY <1>1 DEF FileTypes, Visiting, Copying
<1>3. \A f \in Files : KeepsFile(f)
  <2> SUFFICES ASSUME NEW f \in Files PROVE KeepsFile(f) OBVIOUS
  <2>1. \A s \in Requests : /\ work'[s] \in Deleting => work[s] \in Deleting
                            /\ work'[s] \in Copying => work[s] \in Copying
    BY <1>1 DEF Deleting, Copying
  <2> QED BY <2>1, QuietKeeps
<1> QED BY <1>2, <1>3 DEF Keeps

LEMMA GoesOnActions ==
  ASSUME FileTypes, NEW r \in Requests,
         \/ Begin(r) \/ LastChild(r) \/ DeleteFails(r) \/ CheckLocal(r) \/ CopyFails(r)
         \/ CopyHangs(r) \/ Copied(r) \/ Finish(r) \/ Deferred(r)
  PROVE  Keeps
<1> USE DEF request, visit, At, Goto
<1>1. UNCHANGED <<ver, repairChan, todo, cur, found, del, lost>>
  BY DEF Begin, FirstSteps, LastChild, DeleteFails, CheckLocal, CopyFails, CopyHangs, CopyEnds, Copied, Finish,
         Deferred
<1>2. \E w \in {"next", "copy", "copied", "again", "stuck", "finish", "deferred", "end"} :
        work' = [work EXCEPT ![r] = w] /\ (w = "copy" => work[r] = "local")
  BY DEF Begin, FirstSteps, LastChild, DeleteFails, CheckLocal, CopyFails, CopyHangs, CopyEnds, Copied, Finish,
         Deferred, CheckForCancel
<1> QED BY <1>1, <1>2, GoesOn

LEMMA NextChildKeeps ==
  ASSUME FileTypes, NEW r \in Requests, NextChild(r)
  PROVE  Keeps
<1> USE DEF request, At, Goto
<1>1. UNCHANGED <<ver, repairChan, found, del, lost>> BY DEF NextChild
<1>2. CASE UNCHANGED <<todo, cur>> /\ work' = [work EXCEPT ![r] = "finish"]
  BY <1>1, <1>2, GoesOn
<1>3. ASSUME NEW c \in todo[r], todo' = [todo EXCEPT ![r] = @ \ {c}],
             cur' = [cur EXCEPT ![r] = c[1]],
             work' = [work EXCEPT ![r] = IF c[1] \in Dirs THEN "dir" ELSE "file"]
      PROVE  Keeps
  <2>1. c[1] \in Entries BY DEF FileTypes
  <2>2. \A s \in Requests :
          \/ s # r /\ work'[s] = work[s] /\ cur'[s] = cur[s]
          \/ /\ s = r /\ cur'[s] = c[1]
             /\ work'[s] \in {"dir", "file"} /\ (work'[s] = "dir" => c[1] \in Dirs)
    BY <1>3 DEF FileTypes
  <2>3. FileTypes'
    <3>1. todo' \in [Requests -> SUBSET (Entries \X (1 .. Versions))] BY <1>3 DEF FileTypes
    <3>2. cur' \in [Requests -> Entries \cup {None}] BY <1>3, <2>1 DEF FileTypes
    <3>3. work' \in [Requests -> {"none", "begin", "next", "dir", "file", "remove", "clean",
                                  "local", "copy", "copied", "again", "stuck", "finish", "deferred", "end"}]
      BY <1>3 DEF FileTypes
    <3> QED BY <1>1, <2>1, <2>2, <3>1, <3>2, <3>3 DEF FileTypes, Visiting, Copying
  <2>4. \A f \in Files : KeepsFile(f)
    BY <1>1, <2>2, QuietKeeps DEF Deleting, Copying
  <2> QED BY <1>1, <2>3, <2>4 DEF Keeps
<1>4. \/ UNCHANGED <<todo, cur>> /\ work' = [work EXCEPT ![r] = "finish"]
      \/ \E c \in todo[r] :
           /\ todo' = [todo EXCEPT ![r] = @ \ {c}] /\ cur' = [cur EXCEPT ![r] = c[1]]
           /\ work' = [work EXCEPT ![r] = IF c[1] \in Dirs THEN "dir" ELSE "file"]
  BY DEF NextChild, CheckForCancel
<1> QED BY <1>2, <1>3, <1>4

\* If no answer was lost, all blobbers answered.
LEMMA AllAnswer ==
  ASSUME FileTypes, NEW A \in SUBSET Blobbers, Answers(A)
  PROVE  lost' \in Nat /\ (lost' = 0 => lost = 0 /\ A = Blobbers)
<1>1. IsFiniteSet(Blobbers \ A) /\ Cardinality(Blobbers \ A) \in Nat BY FiniteSubsets
<1>2. lost' = lost + Cardinality(Blobbers \ A) BY DEF Answers
<1>3. lost' = 0 => lost = 0 /\ Cardinality(Blobbers \ A) = 0 BY <1>1, <1>2 DEF FileTypes
<1>4. Cardinality(Blobbers \ A) = 0 => A = Blobbers BY <1>1, FS_EmptySet
<1> QED BY <1>1, <1>2, <1>3, <1>4 DEF FileTypes

LEMMA ListAgainKeeps ==
  ASSUME FileTypes, NEW r \in Requests, ListAgain(r)
  PROVE  Keeps
<1> USE DEF request, visit, At, Goto
<1>1. UNCHANGED <<ver, repairChan, cur, found, del>> /\ work' = [work EXCEPT ![r] = "next"]
  BY DEF ListAgain
<1>2. PICK A \in SUBSET Blobbers : Answers(A) /\ todo' = [todo EXCEPT ![r] = Children(A)]
  BY DEF ListAgain
<1>3. lost' \in Nat /\ (lost' = 0 => lost = 0) BY <1>2, AllAnswer
<1>4. Children(A) \in SUBSET (Entries \X (1 .. Versions)) BY DEF Children
<1>5. todo' \in [Requests -> SUBSET (Entries \X (1 .. Versions))] BY <1>2, <1>4 DEF FileTypes
<1>6. \A s \in Requests : work'[s] = work[s] \/ work'[s] = "next" BY <1>1 DEF FileTypes
<1>7. FileTypes' BY <1>1, <1>3, <1>5, <1>6 DEF FileTypes, Visiting, Copying
<1>8. \A f \in Files : KeepsFile(f) BY <1>1, <1>6, QuietKeeps DEF Deleting, Copying
<1> QED BY <1>3, <1>7, <1>8 DEF Keeps

LEMMA VisitDirKeeps ==
  ASSUME FileTypes, NEW r \in Requests, VisitDir(r)
  PROVE  Keeps
<1> USE DEF request, At, Goto
<1>1. PICK A \in SUBSET Blobbers :
        /\ Answers(A) /\ del' = [del EXCEPT ![r] = Holders(cur[r], 1, A)]
        /\ \/ work' = [work EXCEPT ![r] = "remove"]
           \/ work' = [work EXCEPT ![r] = "next"]
  BY DEF VisitDir
<1>2. work[r] = "dir" /\ UNCHANGED <<ver, repairChan, todo, cur, found>> BY DEF VisitDir
<1>3. cur[r] \in Dirs /\ cur[r] \notin Files /\ cur[r] \in Entries
  BY <1>2, RepairConstants DEF FileTypes, Entries
<1>4. \A s \in Requests :
        \/ s # r /\ work'[s] = work[s] /\ del'[s] = del[s]
        \/ s = r /\ work'[s] \in {"remove", "next"}
  BY <1>1 DEF FileTypes
<1>5. FileTypes'
  <2>1. del' \in [Requests -> SUBSET Blobbers] BY <1>1 DEF FileTypes, Holders
  <2>2. work' \in [Requests -> {"none", "begin", "next", "dir", "file", "remove", "clean", "local",
                                "copy", "copied", "again", "stuck", "finish", "deferred", "end"}]
    BY <1>1 DEF FileTypes
  <2>3. lost' \in Nat BY <1>1, AllAnswer
  <2> QED BY <1>2, <1>3, <1>4, <2>1, <2>2, <2>3 DEF FileTypes, Visiting, Copying
<1>6. \A f \in Files : KeepsFile(f)
  BY <1>2, <1>3, <1>4, QuietKeeps DEF Deleting, Copying
<1> QED BY <1>1, <1>5, <1>6, AllAnswer DEF Keeps

LEMMA BranchCopies ==
  ASSUME NEW fm, NEW dm
  PROVE  /\ Branch(fm, dm) \in {"remove", "clean", "local", "next"}
         /\ Branch(fm, dm) \in Copying => fm # {}
BY DEF Branch, Copying

LEMMA VisitFileKeeps ==
  ASSUME FileTypes, NEW r \in Requests, VisitFile(r)
  PROVE  Keeps
<1> USE DEF request, At, Goto
<1>1. work[r] = "file" /\ UNCHANGED <<ver, repairChan, todo, cur>> BY DEF VisitFile
<1>2. CASE UNCHANGED <<found, del, lost>> /\ work' = [work EXCEPT ![r] = "next"]
  BY <1>1, <1>2, GoesOn
<1>3. ASSUME NEW A \in SUBSET Blobbers, Answers(A),
             found' = [found EXCEPT ![r] = FoundMask(cur[r], A)],
             del' = [del EXCEPT ![r] = DeleteMask(cur[r], A)],
             work' = [work EXCEPT ![r] = Branch(FoundMask(cur[r], A), DeleteMask(cur[r], A))]
      PROVE  Keeps
  <2>1. FoundMask(cur[r], A) \in SUBSET Blobbers /\ DeleteMask(cur[r], A) \in SUBSET Blobbers
    BY DEF FoundMask, DeleteMask, Holders
  <2>2. Branch(FoundMask(cur[r], A), DeleteMask(cur[r], A)) \in {"remove", "clean", "local", "next"}
    BY BranchCopies
  <2>3. \A s \in Requests :
          \/ s # r /\ work'[s] = work[s] /\ del'[s] = del[s] /\ found'[s] = found[s]
          \/ /\ s = r /\ found'[s] = FoundMask(cur[r], A)
             /\ work'[s] = Branch(FoundMask(cur[r], A), DeleteMask(cur[r], A))
    BY <1>3 DEF FileTypes
  <2>4. FileTypes'
    <3>1. found' \in [Requests -> SUBSET Blobbers] /\ del' \in [Requests -> SUBSET Blobbers]
      BY <1>3, <2>1 DEF FileTypes
    <3>2. work' \in [Requests -> {"none", "begin", "next", "dir", "file", "remove", "clean",
                                  "local", "copy", "copied", "again", "stuck", "finish", "deferred", "end"}]
      BY <1>3, <2>2 DEF FileTypes
    <3>3. lost' \in Nat BY <1>3, AllAnswer
    <3>4. \A s \in Requests : /\ work'[s] \in Visiting => cur[s] \in Entries
                              /\ work'[s] = "dir" => cur[s] \in Dirs
                              /\ work'[s] \in Copying => found'[s] # {}
      <4> SUFFICES ASSUME NEW s \in Requests
                   PROVE  /\ work'[s] \in Visiting => cur[s] \in Entries
                          /\ work'[s] = "dir" => cur[s] \in Dirs
                          /\ work'[s] \in Copying => found'[s] # {}
        OBVIOUS
      <4>1. CASE s = r
        <5>1. cur[r] \in Entries BY <1>1 DEF FileTypes, Visiting
        <5>2. work'[r] \in Copying => found'[r] # {} BY <2>3, BranchCopies
        <5> QED BY <4>1, <5>1, <5>2, <2>2, <2>3
      <4>2. CASE s # r BY <4>2, <2>3 DEF FileTypes
      <4> QED BY <4>1, <4>2
    <3> QED BY <1>1, <3>1, <3>2, <3>3, <3>4 DEF FileTypes
  <2>5. ASSUME lost' = 0, NEW f \in Files PROVE lost = 0 /\ KeepsFile(f)
    <3>1. lost = 0 /\ A = Blobbers BY <1>3, <2>5, AllAnswer
    <3>2. CASE cur[r] = f BY <3>1, <3>2, <1>1, <1>3, VisitKeeps
    <3>3. CASE cur[r] # f
      <4>1. \A s \in Requests : s # r =>
              work'[s] = work[s] /\ del'[s] = del[s] /\ found'[s] = found[s]
        BY <2>3
      <4> QED BY <3>1, <3>3, <1>1, <4>1, OtherKeeps
    <3> QED BY <3>1, <3>2, <3>3
  <2> QED BY <1>3, <2>4, <2>5, AllAnswer DEF Keeps
<1>4. \/ UNCHANGED <<found, del, lost>> /\ work' = [work EXCEPT ![r] = "next"]
      \/ \E A \in SUBSET Blobbers :
           /\ Answers(A) /\ found' = [found EXCEPT ![r] = FoundMask(cur[r], A)]
           /\ del' = [del EXCEPT ![r] = DeleteMask(cur[r], A)]
           /\ work' = [work EXCEPT ![r] = Branch(FoundMask(cur[r], A), DeleteMask(cur[r], A))]
  BY DEF VisitFile, CheckForCancel
<1> QED BY <1>2, <1>3, <1>4

LEMMA DeleteStep ==
  ASSUME FileTypes, NEW r \in Requests, Delete(r)
  PROVE  Keeps
<1> USE DEF request, visit, At, Goto
<1>1. PICK done \in SUBSET del[r] : DeleteFile(r, done) BY DEF Delete
<1>2. /\ work[r] \in Deleting /\ UNCHANGED <<repairChan, todo, cur, found, del, lost>>
      /\ \/ work[r] = "clean" /\ work' = [work EXCEPT ![r] = "local"]
         \/ work' = [work EXCEPT ![r] = "next"]
  BY DEF Delete, Deleting
<1>3. cur[r] \in Entries BY <1>2 DEF FileTypes, Visiting, Deleting
<1>4. /\ ver' \in [Entries -> [Blobbers -> 0 .. Versions]]
      /\ \A f \in Entries : f # cur[r] => ver'[f] = ver[f]
  BY <1>1, <1>3, RepairConstants DEF DeleteFile, FileTypes
<1>5. FileTypes'
  <2>1. \A s \in Requests :
          \/ s # r /\ work'[s] = work[s]
          \/ s = r /\ work'[s] = "local" /\ work[s] = "clean"
          \/ s = r /\ work'[s] = "next"
    BY <1>2 DEF FileTypes
  <2>2. work' \in [Requests -> {"none", "begin", "next", "dir", "file", "remove", "clean", "local",
                                "copy", "copied", "again", "stuck", "finish", "deferred", "end"}]
    BY <1>2 DEF FileTypes
  <2> QED BY <1>2, <1>3, <1>4, <2>1, <2>2 DEF FileTypes, Visiting, Copying
<1>6. ASSUME NEW f \in Files PROVE KeepsFile(f)
  <2>1. CASE cur[r] = f BY <2>1, <1>1, <1>2, DeleteKeeps
  <2>2. CASE cur[r] # f
    <3>1. ver'[f] = ver[f] BY <2>2, <1>4 DEF Entries
    <3>2. \A s \in Requests : s # r => work'[s] = work[s] BY <1>2 DEF FileTypes
    <3> QED BY <2>2, <3>1, <3>2, <1>2, OtherKeeps
  <2> QED BY <2>1, <2>2
<1> QED BY <1>2, <1>5, <1>6 DEF Keeps

LEMMA CopyStep ==
  ASSUME FileTypes, NEW r \in Requests, Copy(r)
  PROVE  Keeps
<1> USE DEF request, visit, Goto
<1>1. PICK up \in SUBSET (Targets(r) \ Duplicates(r)) :
        ver' = [ver EXCEPT ![cur[r]] = [b \in Blobbers |-> IF b \in up THEN Version(r) ELSE @[b]]]
  BY DEF Copy
<1>2. /\ At(r, "copy") /\ Readable(r) /\ work' = [work EXCEPT ![r] = "copied"]
      /\ UNCHANGED <<repairChan, todo, cur, found, del, lost>>
  BY DEF Copy
<1>3. cur[r] \in Entries /\ found[r] # {} /\ found[r] \in SUBSET Blobbers
  BY <1>2 DEF FileTypes, Visiting, Copying, At
<1>4. Version(r) \in 0 .. Versions
  <2>1. (CHOOSE b \in found[r] : TRUE) \in found[r] BY <1>3
  <2> QED BY <2>1, <1>3 DEF Version, FileTypes
<1>5. /\ ver' \in [Entries -> [Blobbers -> 0 .. Versions]]
      /\ \A f \in Entries : f # cur[r] => ver'[f] = ver[f]
  BY <1>1, <1>3, <1>4 DEF FileTypes
<1>6. \A s \in Requests : (s # r /\ work'[s] = work[s]) \/ (s = r /\ work'[s] = "copied")
  BY <1>2 DEF FileTypes
<1>7. FileTypes'
  <2>1. work' \in [Requests -> {"none", "begin", "next", "dir", "file", "remove", "clean", "local",
                                "copy", "copied", "again", "stuck", "finish", "deferred", "end"}]
    BY <1>2 DEF FileTypes
  <2> QED BY <1>2, <1>5, <1>6, <2>1 DEF FileTypes, Visiting, Copying
<1>8. ASSUME NEW f \in Files PROVE KeepsFile(f)
  <2>1. CASE cur[r] = f BY <2>1, <1>1, <1>2, CopyKeeps
  <2>2. CASE cur[r] # f
    <3>1. ver'[f] = ver[f] BY <2>2, <1>5 DEF Entries
    <3> QED BY <2>2, <3>1, <1>2, <1>6, OtherKeeps
  <2> QED BY <2>1, <2>2
<1> QED BY <1>2, <1>7, <1>8 DEF Keeps

LEMMA NextKeeps == ASSUME FileInv, [Next]_vars PROVE Keeps
<1>0. FileTypes BY DEF FileInv
<1>1. ASSUME NEW r \in Requests, Caller(r) \/ Sender(r) PROVE Keeps
  BY <1>0, <1>1, RequestKeeps DEF Caller, Sender
<1>2. ASSUME NEW r \in Requests, ProcessRepair(r) PROVE Keeps
  BY <1>0, <1>2, GoesOnActions, ListAgainKeeps, NextChildKeeps, VisitDirKeeps, VisitFileKeeps,
     DeleteStep, CopyStep
     DEF ProcessRepair
<1>3. CASE Dispatcher
  <2>1. PICK r \in Requests : repairChan = <<r>>
    BY <1>3, <1>0 DEF Dispatcher, Dispatch, FileTypes
  <2> QED BY <1>0, <1>3, <2>1, RequestKeeps DEF Dispatcher
<1>4. CASE Canceler \/ UNCHANGED vars
  <2>1. UNCHANGED <<ver, repairChan, work, todo, cur, found, del, lost>>
    BY <1>4 DEF Canceler, CancelRepair, vars, request, visit
  <2>2. FileTypes' BY <1>0, <2>1 DEF FileTypes
  <2>3. \A f \in Files : KeepsFile(f) BY <2>1, QuietKeeps
  <2> QED BY <2>1, <2>2, <2>3 DEF Keeps
<1> QED BY <1>1, <1>2, <1>3, <1>4 DEF Next

LEMMA FileStep == FileInv /\ [Next]_vars => FileInv'
BY NextKeeps DEF FileInv, Keeps, KeepsFile, Held

LEMMA FileAlways == Spec => []FileInv
BY FileInit, FileStep, PTL DEF Spec

\* As long as every blobber answers, no step of any repair takes the last readable
\* version of a file, whatever deletes and copies fail and however repairs interleave:
\* the blobbers that first had DataShards copies of a version keep them, because every
\* later vote selects that version again.
THEOREM NeverUnreadable == Spec => KeepsRecoverable
<1>1. ASSUME FileInv, [Next]_vars, lost' = 0, NEW f \in Files, Recoverable(f)
      PROVE  Recoverable(f)'
  <2>1. lost = 0 /\ KeepsFile(f) BY <1>1, NextKeeps DEF Keeps
  <2>2. Held(f) BY <1>1, <2>1 DEF FileInv, Unreadable
  <2>3. Held(f)' BY <2>1, <2>2 DEF KeepsFile, Held
  <2>4. Held(f)' => Recoverable(f)' BY HeldIsRecoverable, PTL
  <2> QED BY <2>3, <2>4
<1>2. FileInv /\ [Next]_vars =>
        [lost' = 0 => \A f \in Files : Recoverable(f) => Recoverable(f)']_vars
  BY <1>1
<1> QED BY <1>2, FileAlways, PTL DEF Spec, KeepsRecoverable

-----------------------------------------------------------------------------
(* What a repair leaves behind                                              *)

\* Nothing failed, was lost or canceled so far.
Calm == lost = 0 /\ fails = 0 /\ canceled = {}

Started(r) == sender[r] # "none"
SomeStarted == \E r \in Requests : Started(r)

\* A request passes the queue once, visits all its children, and reports its end once.
Flow ==
  /\ \A r \in Requests :
       /\ ~Started(r) => /\ call[r] \in {"new", "start", "retry"} /\ ~Queued(r)
                         /\ work[r] = "none" /\ completed[r] = 0 /\ todo[r] = {}
       /\ sender[r] = "send" => ~Queued(r)
       /\ sender[r] = "send" \/ Queued(r) => work[r] = "none" /\ completed[r] = 0
       /\ call[r] \in {"new", "start"} => ~Started(r)
       /\ call[r] = "retry" /\ Started(r) => completed[r] > 0
       /\ completed[r] > 0 => work[r] \in {"deferred", "end"}
       /\ work[r] \in {"finish", "deferred", "end"} => todo[r] = {}
       /\ call[r] # "failed"
       /\ work[r] \in {"file", "clean", "local", "copy"} => cur[r] \in Files
  /\ \E r \in Requests : call[r] = "start" \/ Started(r) \/ (call[r] = "new" /\ ~locked)

\* The request will visit the entry, at least once or twice.
Comes(r, e) == \E c \in todo[r] : c[1] = e
ComesTwice(r, e) == \E c, d \in todo[r] : c # d /\ c[1] = e /\ d[1] = e

Has(e) == {b \in Blobbers : ver[e][b] # 0}

\* The copies of f that are not of version v.
Stale(f, v) == {b \in Blobbers : ver[f][b] \notin {0, v}}

\* As long as a stale copy is left, a request visits the file again after it has deleted
\* stale copies: the list gave it one child for v and one for the stale version.
Returning(f, v) ==
  \A r \in Requests :
    /\ Started(r) /\ Stale(f, v) # {} =>
         \/ ComesTwice(r, f)
         \/ cur[r] = f /\ work[r] \in {"file", "clean"} /\ Comes(r, f)
    /\ cur[r] = f /\ work[r] = "clean" => Comes(r, f) /\ Stale(f, v) \subseteq del[r]
    /\ cur[r] = f => work[r] # "remove"

\* The request will see to the file: it is to visit it, it is to copy it and nobody has
\* touched the file since it was visited, or it is to delete all copies that are left.
Attends(r, f) ==
  \/ Comes(r, f)
  \/ cur[r] = f /\ work[r] = "file"
  \/ cur[r] = f /\ work[r] \in {"local", "copy"} /\ found[r] = Has(f)
  \/ cur[r] = f /\ work[r] = "remove" /\ Has(f) \subseteq del[r]

FileJob(f) ==
  /\ Unreadable(f) \/ \E v \in 1 .. Versions : HeldAt(f, v) /\ Returning(f, v)
  /\ SomeStarted => InSync(f) \/ \E r \in Requests : Attends(r, f)

DirHolders(d) == Holders(d, 1, Blobbers)

DirJob(d) ==
  /\ \A b \in Blobbers : ver[d][b] \in 0 .. 1
  /\ \A r \in Requests : cur[r] = d /\ work[r] = "remove" => DirHolders(d) \subseteq del[r]
  /\ SomeStarted /\ Cardinality(DirHolders(d)) \in 1 .. DataShards-1 =>
       \E r \in Requests : Comes(r, d) \/ (cur[r] = d /\ work[r] \in {"dir", "remove"})

JobInv ==
  /\ BarTypes /\ FileInv /\ fails \in Nat
  /\ Calm => Flow /\ (\A f \in Files : FileJob(f)) /\ (\A d \in Dirs : DirJob(d))

-----------------------------------------------------------------------------
(* The way of the requests                                                  *)

\* Without a fault or a cancellation the step before was without one.
LEMMA CalmBefore ==
  ASSUME JobInv, Next
  PROVE  fails' \in Nat /\ (Calm' => Calm)
<1> USE DEF request, visit
<1>1. fails \in Nat /\ FileTypes BY DEF JobInv, FileInv
<1>2. lost' = 0 => lost = 0
  <2>1. FileInv /\ [Next]_vars BY DEF JobInv
  <2> QED BY <2>1, NextKeeps DEF Keeps
<1>3. ASSUME NEW r \in Requests, Caller(r) \/ Sender(r) \/ ProcessRepair(r)
      PROVE  canceled' = canceled
  BY <1>3 DEF Caller, NewRepairBar, RepairAllocFails, StartRepair, ProcessReturns, Sender, Send,
     Register, ProcessRepair, Begin, FirstSteps, ListAgain, NextChild, LastChild, VisitDir, VisitFile, Delete,
     DeleteFails, CheckLocal, Copy, CopyFails, CopyHangs, CopyEnds, Copied, Finish, Deferred
<1>4. canceled \subseteq canceled'
  BY <1>3 DEF Next, Dispatcher, Dispatch, Canceler, CancelRepair
<1>5. fails' \in Nat /\ (fails' = 0 => fails = 0)
  <2>1. ASSUME NEW n \in Nat, Fault(n) PROVE fails' \in Nat /\ (fails' = 0 => fails = 0)
    BY <1>1, <2>1 DEF Fault
  <2>2. ASSUME NEW r \in Requests, RepairAllocFails(r) \/ DeleteFails(r)
        PROVE  fails' \in Nat /\ (fails' = 0 => fails = 0)
    BY <2>1, <2>2 DEF RepairAllocFails, DeleteFails
  <2>3. ASSUME NEW r \in Requests, Delete(r) PROVE fails' \in Nat /\ (fails' = 0 => fails = 0)
    <3>1. PICK done \in SUBSET del[r] : Fault(Cardinality(del[r] \ done)) BY <2>3 DEF Delete
    <3>2. Cardinality(del[r] \ done) \in Nat BY <1>1, FiniteSubsets DEF FileTypes
    <3> QED BY <2>1, <3>1, <3>2
  <2>4. ASSUME NEW r \in Requests, Copy(r) PROVE fails' \in Nat /\ (fails' = 0 => fails = 0)
    <3>1. PICK up : Fault(Cardinality((Targets(r) \ Duplicates(r)) \ up)) BY <2>4 DEF Copy
    <3>2. Cardinality((Targets(r) \ Duplicates(r)) \ up) \in Nat BY FiniteSubsets DEF Targets
    <3> QED BY <2>1, <3>1, <3>2
  <2>5. ASSUME NEW r \in Requests, CopyFails(r) \/ CopyHangs(r)
        PROVE  fails' \in Nat /\ (fails' = 0 => fails = 0)
    BY <1>1, <2>1, <2>5 DEF CopyFails, CopyHangs, CopyEnds
  <2>6. ASSUME NEW r \in Requests, Caller(r) \/ Sender(r) \/ ProcessRepair(r)
        PROVE  fails' \in Nat /\ (fails' = 0 => fails = 0)
    BY <1>1, <2>2, <2>3, <2>4, <2>5, <2>6 DEF Caller, NewRepairBar, StartRepair, ProcessReturns,
       Sender, Send, Register, ProcessRepair, Begin, FirstSteps, ListAgain, NextChild, LastChild, VisitDir, VisitFile,
       CheckLocal, Copied, Finish, Deferred
  <2> QED BY <1>1, <2>6 DEF Next, Dispatcher, Dispatch, Canceler, CancelRepair
<1> QED BY <1>2, <1>4, <1>5 DEF Calm

\* A caller moves, or a request is queued or dispatched.
LEMMA FlowRequest ==
  ASSUME BarTypes, Flow, Calm, Calm', NEW r \in Requests,
         NewRepairBar(r) \/ RepairAllocFails(r) \/ StartRepair(r) \/ ProcessReturns(r)
         \/ Send(r) \/ Register(r) \/ Dispatch \/ CancelRepair
  PROVE  Flow'
<1> USE DEF Flow, BarTypes, Started, Queued, request, visit
<1>1. CASE NewRepairBar(r)
  <2>1. UNCHANGED <<sender, repairChan, work, todo, cur, completed>> BY <1>1 DEF NewRepairBar
  <2>2. /\ call[r] = "new" /\ locked' = TRUE
        /\ call' = [call EXCEPT ![r] = IF locked THEN "retry" ELSE "start"]
    BY <1>1 DEF NewRepairBar
  <2>3. \E s \in Requests : call'[s] = "start" \/ Started(s)'
    <3>1. CASE locked BY <2>1, <2>2, <3>1
    <3>2. CASE ~locked BY <2>2, <3>2
    <3> QED BY <3>1, <3>2
  <2> QED BY <2>1, <2>2, <2>3
<1>2. CASE StartRepair(r)
  <2>1. /\ call[r] = "start" /\ sender' = [sender EXCEPT ![r] = "send"]
        /\ \E t : todo' = [todo EXCEPT ![r] = t]
        /\ call' = [call EXCEPT ![r] = IF r \in bars THEN "wait" ELSE "returned"]
        /\ UNCHANGED <<locked, repairChan, work, cur, completed>>
    BY <1>2 DEF StartRepair
  <2>2. Started(r)' BY <2>1
  <2>3. \A s \in Requests : s # r => todo'[s] = todo[s] /\ call'[s] = call[s] /\ sender'[s] = sender[s]
    BY <2>1
  <2> QED BY <2>1, <2>2, <2>3
<1>3. CASE ProcessReturns(r)
  <2>1. /\ call[r] = "wait" /\ completed[r] > 0 /\ call' = [call EXCEPT ![r] = "retry"]
        /\ UNCHANGED <<sender, locked, repairChan, work, todo, cur, completed>>
    BY <1>3 DEF ProcessReturns
  <2> QED BY <2>1
<1>4. CASE Send(r)
  <2>1. /\ sender[r] = "send" /\ repairChan = <<>> /\ repairChan' = <<r>>
        /\ sender' = [sender EXCEPT ![r] = "register"]
        /\ UNCHANGED <<call, locked, work, todo, cur, completed>>
    BY <1>4 DEF Send
  <2>2. \A s \in Requests : Queued(s)' => s = r BY <2>1
  <2> QED BY <2>1, <2>2
<1>5. CASE Register(r)
  <2>1. /\ sender[r] = "register" /\ sender' = [sender EXCEPT ![r] = "end"]
        /\ UNCHANGED <<call, locked, repairChan, work, todo, cur, completed>>
    BY <1>5 DEF Register
  <2> QED BY <2>1
<1>6. CASE Dispatch
  <2>1. PICK h \in Requests : repairChan = <<h>> BY <1>6 DEF Dispatch
  <2>2. /\ repairChan' = <<>> /\ work' = [work EXCEPT ![h] = "begin"]
        /\ UNCHANGED <<call, sender, locked, todo, cur, completed>>
    BY <1>6, <2>1 DEF Dispatch
  <2>3. \A s \in Requests : ~Queued(s)' BY <2>2
  <2>4. Started(h) /\ sender[h] # "send" /\ completed[h] = 0 BY <2>1
  <2> QED BY <2>2, <2>3, <2>4
<1>7. ~RepairAllocFails(r) /\ ~CancelRepair
  <2>1. ~Fault(1)
    BY DEF Calm, Fault
  <2> QED BY <2>1 DEF RepairAllocFails, CancelRepair, Calm
<1> QED BY <1>1, <1>2, <1>3, <1>4, <1>5, <1>6, <1>7

\* processRepair takes a step: from w to x, possibly with a child taken off todo.
LEMMA FlowGoes ==
  ASSUME BarTypes, Flow, NEW r \in Requests,
         NEW x \in {"next", "dir", "file", "remove", "clean", "local", "copy", "copied", "again", "stuck", "finish",
                    "deferred", "end"},
         work[r] # "none", work' = [work EXCEPT ![r] = x],
         UNCHANGED <<call, sender, repairChan>>,
         \A s \in Requests : s # r => /\ todo'[s] = todo[s] /\ cur'[s] = cur[s]
                                     /\ completed'[s] = completed[s],
         completed'[r] = completed[r] \/ (completed'[r] \in Nat /\ x = "deferred"),
         completed[r] > 0 => completed'[r] > 0,
         locked' => locked,
         todo'[r] = {} \/ x \notin {"finish", "deferred", "end"},
         x \in {"deferred", "end"} \/ work[r] \notin {"deferred", "end"},
         x \in {"file", "clean", "local", "copy"} => cur'[r] \in Files
  PROVE  Flow'
<1> USE DEF Flow, BarTypes, Started, Queued
<1>1. work'[r] = x /\ \A s \in Requests : s # r => work'[s] = work[s] OBVIOUS
<1>2. \A s \in Requests : Flow!1!(s)'
  <2> SUFFICES ASSUME NEW s \in Requests PROVE Flow!1!(s)' OBVIOUS
  <2>1. CASE s # r BY <1>1, <2>1
  <2>2. CASE s = r BY <1>1, <2>2
  <2> QED BY <2>1, <2>2
<1>3. \E s \in Requests : call'[s] = "start" \/ Started(s)' \/ (call'[s] = "new" /\ ~locked')
  OBVIOUS
<1> QED BY <1>2, <1>3

\* No step of processRepair is a cancellation.
LEMMA FlowWork ==
  ASSUME BarTypes, FileTypes, Flow, Calm, Calm', NEW r \in Requests, ProcessRepair(r)
  PROVE  Flow'
<1> USE DEF request, visit, At, Goto, CheckForCancel, NotCanceled
<1>0. r \notin canceled /\ ~Fault(1) BY DEF Calm, Fault
<1>1. CASE Begin(r) \/ Copied(r) \/ DeleteFails(r) \/ CopyFails(r) \/ CopyHangs(r)
  <2>1. work[r] \in {"begin", "copied", "copy"}
    BY <1>0, <1>1 DEF Begin, FirstSteps, Copied, DeleteFails, CopyFails, CopyHangs, CopyEnds
  <2>2. ~(lost >= N) BY RepairConstants DEF Calm
  <2>3. /\ \E w \in {"next", "again", "stuck"} : work' = [work EXCEPT ![r] = w]
        /\ UNCHANGED <<call, sender, repairChan, locked, completed, todo, cur>>
    BY <1>0, <1>1, <2>2 DEF Begin, FirstSteps, Copied, DeleteFails, CopyFails, CopyHangs, CopyEnds
  <2> QED BY <2>1, <2>3, FlowGoes
<1>10. CASE ListAgain(r)
  <2>1. /\ work[r] = "again" /\ work' = [work EXCEPT ![r] = "next"]
        /\ UNCHANGED <<call, sender, repairChan, locked, completed, cur>>
        /\ \E t : todo' = [todo EXCEPT ![r] = t]
    BY <1>10 DEF ListAgain
  <2>2. \A s \in Requests : s # r => todo'[s] = todo[s] BY <2>1 DEF FileTypes
  <2> QED BY <2>1, <2>2, FlowGoes
<1>2. CASE NextChild(r)
  <2>1. PICK c \in todo[r] : /\ todo' = [todo EXCEPT ![r] = @ \ {c}]
                             /\ cur' = [cur EXCEPT ![r] = c[1]]
                             /\ work' = [work EXCEPT ![r] = IF c[1] \in Dirs THEN "dir" ELSE "file"]
    BY <1>0, <1>2 DEF NextChild
  <2>2. work[r] = "next" /\ UNCHANGED <<call, sender, repairChan, locked, completed>>
    BY <1>0, <1>2 DEF NextChild
  <2>3. c[1] \in Entries BY DEF FileTypes
  <2>4. /\ cur'[r] = c[1]
        /\ \A s \in Requests : s # r => todo'[s] = todo[s] /\ cur'[s] = cur[s]
    BY <2>1 DEF FileTypes
  <2>5. CASE c[1] \in Dirs BY <2>1, <2>2, <2>4, <2>5, FlowGoes
  <2>6. CASE c[1] \notin Dirs
    <3>1. cur'[r] \in Files BY <2>3, <2>4, <2>6 DEF Entries
    <3>2. work' = [work EXCEPT ![r] = "file"] BY <2>1, <2>6
    <3> QED BY <2>2, <2>4, <3>1, <3>2, FlowGoes
  <2> QED BY <2>5, <2>6
<1>3. CASE LastChild(r)
  <2>1. /\ work[r] = "next" /\ todo[r] = {} /\ work' = [work EXCEPT ![r] = "finish"]
        /\ UNCHANGED <<call, sender, repairChan, locked, completed, todo, cur>>
    BY <1>3 DEF LastChild
  <2> QED BY <2>1, FlowGoes
<1>4. CASE VisitDir(r)
  <2>1. /\ work[r] = "dir" /\ UNCHANGED <<call, sender, repairChan, locked, completed, todo, cur>>
        /\ work' = [work EXCEPT ![r] = "remove"] \/ work' = [work EXCEPT ![r] = "next"]
    BY <1>4 DEF VisitDir
  <2> QED BY <2>1, FlowGoes
<1>5. CASE VisitFile(r)
  <2>1. /\ work[r] = "file" /\ UNCHANGED <<call, sender, repairChan, locked, completed, todo, cur>>
        /\ \E fm, dm : work' = [work EXCEPT ![r] = Branch(fm, dm)]
    BY <1>0, <1>5 DEF VisitFile
  <2>2. PICK x \in {"remove", "clean", "local", "next"} : work' = [work EXCEPT ![r] = x]
    BY <2>1, BranchCopies
  <2>3. cur[r] \in Files BY <2>1 DEF Flow
  <2> QED BY <2>1, <2>2, <2>3, FlowGoes
<1>6. CASE Delete(r)
  <2>1. /\ work[r] \in {"remove", "clean"}
        /\ UNCHANGED <<call, sender, repairChan, locked, completed, todo, cur>>
        /\ \/ work[r] = "clean" /\ work' = [work EXCEPT ![r] = "local"]
           \/ work' = [work EXCEPT ![r] = "next"]
    BY <1>6 DEF Delete
  <2>2. work[r] = "clean" => cur[r] \in Files BY DEF Flow
  <2> QED BY <2>1, <2>2, FlowGoes
<1>7. CASE CheckLocal(r) \/ Copy(r)
  <2>1. /\ work[r] \in {"local", "copy"}
        /\ UNCHANGED <<call, sender, repairChan, locked, completed, todo, cur>>
        /\ work' = [work EXCEPT ![r] = "copy"] \/ work' = [work EXCEPT ![r] = "copied"]
    BY <1>0, <1>7 DEF CheckLocal, Copy
  <2>2. cur[r] \in Files BY <2>1 DEF Flow
  <2> QED BY <2>1, <2>2, FlowGoes
<1>8. CASE Finish(r)
  <2>1. /\ work[r] = "finish" /\ work' = [work EXCEPT ![r] = "deferred"]
        /\ completed' = [completed EXCEPT ![r] = completed[r] + 1] /\ (locked' => locked)
        /\ UNCHANGED <<call, sender, repairChan, todo, cur>>
    BY <1>8 DEF Finish, RepairCompleted
  <2>2. todo[r] = {} BY <2>1 DEF Flow
  <2>3. /\ completed'[r] \in Nat /\ completed'[r] > 0
        /\ \A s \in Requests : s # r => completed'[s] = completed[s]
    BY <2>1 DEF BarTypes
  <2> QED BY <2>1, <2>2, <2>3, FlowGoes
<1>9. CASE Deferred(r)
  <2>1. /\ work[r] = "deferred" /\ work' = [work EXCEPT ![r] = "end"]
        /\ UNCHANGED <<call, sender, repairChan, locked, completed, todo, cur>>
    BY <1>9 DEF Deferred
  <2>2. todo[r] = {} BY <2>1 DEF Flow
  <2> QED BY <2>1, <2>2, FlowGoes
<1> QED BY <1>1, <1>2, <1>3, <1>4, <1>5, <1>6, <1>7, <1>8, <1>9, <1>10 DEF ProcessRepair

-----------------------------------------------------------------------------
(* A step that leaves an entry to those who attend to it                    *)

\* Nothing that matters to e happens to the request: it is elsewhere, or it stays where it
\* is, goes on to the copy, or gives up a copy somebody else has changed.
Stays(r, e) ==
  /\ todo'[r] = todo[r] /\ (Started(r)' <=> Started(r))
  /\ \/ cur[r] # e /\ cur'[r] # e
     \/ /\ cur[r] = e /\ cur'[r] = e
        /\ \/ work'[r] = work[r] /\ del'[r] = del[r] /\ found'[r] = found[r]
           \/ work[r] = "local" /\ work'[r] = "copy" /\ found'[r] = found[r]
           \/ /\ work'[r] \notin Visiting
              /\ work[r] \notin Visiting \/ (work[r] = "copy" /\ found[r] # Has(e))

\* What is said of an entry and of who comes depends on ver and todo only.
LEMMA SameEntry ==
  ASSUME NEW e, ver'[e] = ver[e]
  PROVE  /\ Has(e)' = Has(e) /\ DirHolders(e)' = DirHolders(e) /\ (InSync(e)' <=> InSync(e))
         /\ \A v : Stale(e, v)' = Stale(e, v)
BY DEF Has, DirHolders, InSync, Stale, Holders

LEMMA SameComing ==
  ASSUME NEW r, NEW e, todo'[r] = todo[r]
  PROVE  (Comes(r, e)' <=> Comes(r, e)) /\ (ComesTwice(r, e)' <=> ComesTwice(r, e))
BY DEF Comes, ComesTwice

LEMMA FileStays ==
  ASSUME NEW f \in Files, FileJob(f), KeepsFile(f), ver'[f] = ver[f],
         \A r \in Requests : Stays(r, f)
  PROVE  FileJob(f)'
<1>1. /\ Has(f)' = Has(f) /\ (InSync(f)' <=> InSync(f))
      /\ \A v : Stale(f, v)' = Stale(f, v)
  BY SameEntry
<1>2. \A r \in Requests : /\ Comes(r, f)' <=> Comes(r, f)
                          /\ ComesTwice(r, f)' <=> ComesTwice(r, f)
  BY SameComing DEF Stays
<1>3. SomeStarted' <=> SomeStarted BY DEF SomeStarted, Stays
<1>4. ASSUME NEW v \in 1 .. Versions, Returning(f, v) PROVE Returning(f, v)'
  <2> SUFFICES ASSUME NEW r \in Requests PROVE Returning(f, v)!(r)' BY DEF Returning
  <2>1. Returning(f, v)!(r) BY <1>4 DEF Returning
  <2>2. Stays(r, f) OBVIOUS
  <2> QED BY <1>1, <1>2, <2>1, <2>2 DEF Stays, Visiting
<1>5. ASSUME NEW r \in Requests, Attends(r, f) PROVE Attends(r, f)'
  <2>1. Stays(r, f) OBVIOUS
  <2> QED BY <1>1, <1>2, <1>5, <2>1 DEF Stays, Attends, Visiting
<1> QED BY <1>1, <1>3, <1>4, <1>5 DEF FileJob, KeepsFile

LEMMA DirStays ==
  ASSUME NEW d \in Dirs, DirJob(d), ver'[d] = ver[d], \A r \in Requests : Stays(r, d)
  PROVE  DirJob(d)'
<1>1. DirHolders(d)' = DirHolders(d) BY SameEntry
<1>2. \A r \in Requests : Comes(r, d)' <=> Comes(r, d) BY SameComing DEF Stays
<1>3. SomeStarted' <=> SomeStarted BY DEF SomeStarted, Stays
<1>4. ASSUME NEW r \in Requests, cur'[r] = d, work'[r] = "remove" PROVE DirHolders(d)' \subseteq del'[r]
  <2>1. Stays(r, d) OBVIOUS
  <2> QED BY <1>1, <1>4, <2>1 DEF DirJob, Stays, Visiting
<1>5. ASSUME NEW r \in Requests, cur[r] = d, work[r] \in {"dir", "remove"}
      PROVE  cur'[r] = d /\ work'[r] \in {"dir", "remove"}
  <2>1. Stays(r, d) OBVIOUS
  <2> QED BY <1>5, <2>1 DEF Stays, Visiting
<1> QED BY <1>1, <1>2, <1>3, <1>4, <1>5 DEF DirJob

-----------------------------------------------------------------------------
(* The steps that matter to an entry                                        *)

Jobs == (\A f \in Files : FileJob(f)) /\ (\A d \in Dirs : DirJob(d))

\* A set of blobbers that is neither empty nor all of them.
LEMMA SomeNotAll ==
  ASSUME NEW S \in SUBSET Blobbers, S # {}, S # Blobbers
  PROVE  Cardinality(S) \in 1 .. N-1
<1>1. IsFiniteSet(Blobbers) /\ Cardinality(Blobbers) = N
  BY RepairConstants, FS_Interval DEF Blobbers
<1>2. IsFiniteSet(S) BY FiniteSubsets
<1>3. /\ Cardinality(S) <= Cardinality(Blobbers)
      /\ Cardinality(S) = Cardinality(Blobbers) => S = Blobbers
  BY <1>1, FS_Subset
<1>4. Cardinality(S) \in Nat /\ Cardinality(S) # 0 BY <1>2, FS_EmptySet, FS_CardinalityType
<1> QED BY <1>1, <1>3, <1>4, RepairConstants

\* The list of a repair has a child for every version that some but not all blobbers have.
LEMMA Listed ==
  ASSUME NEW e \in Entries, NEW v \in 1 .. Versions,
         Holders(e, v, Blobbers) # {}, Holders(e, v, Blobbers) # Blobbers
  PROVE  <<e, v>> \in Children(Blobbers)
<1>1. Cardinality(Holders(e, v, Blobbers)) \in 1 .. N-1 BY SomeNotAll DEF Holders
<1> QED BY <1>1 DEF Children

\* Some blobber has the version, and no request is to delete it there.
LEMMA HeldSomewhere ==
  ASSUME NEW f \in Files, NEW v \in 1 .. Versions, HeldAt(f, v)
  PROVE  \E c \in Blobbers :
           /\ ver[f][c] = v
           /\ \A r \in Requests : cur[r] = f /\ work[r] \in Deleting => c \notin del[r]
<1>1. PICK C \in SUBSET Blobbers, i \in Blobbers : Core(f, v, C, i) BY DEF HeldAt
<1>2. C # {} BY <1>1, FS_EmptySet, RepairConstants DEF Core
<1> QED BY <1>1, <1>2 DEF Core

\* The callers, and the way to the worker.
LEMMA JobRequest ==
  ASSUME BarTypes, Flow, Jobs, \A f \in Files : KeepsFile(f), NEW r \in Requests,
         NewRepairBar(r) \/ ProcessReturns(r) \/ Send(r) \/ Register(r) \/ Dispatch
  PROVE  Jobs'
<1> USE DEF visit
<1>1. UNCHANGED <<ver, todo, cur, found, del>>
  BY DEF NewRepairBar, ProcessReturns, Send, Register, Dispatch
<1>2. \A s \in Requests : Started(s)' <=> Started(s)
  BY DEF NewRepairBar, ProcessReturns, Send, Register, Dispatch, Started, BarTypes
<1>3. \A s \in Requests : work'[s] = work[s] \/ (work[s] = "none" /\ work'[s] = "begin")
  <2>1. CASE Dispatch
    <3>1. PICK h \in Requests : repairChan = <<h>> BY <2>1 DEF Dispatch, BarTypes
    <3>2. work[h] = "none" BY <3>1 DEF Flow, Queued
    <3>3. work' = [work EXCEPT ![h] = "begin"] BY <2>1, <3>1 DEF Dispatch
    <3> QED BY <3>2, <3>3 DEF BarTypes
  <2>2. CASE ~Dispatch BY <2>2 DEF NewRepairBar, ProcessReturns, Send, Register
  <2> QED BY <2>1, <2>2
<1>4. \A e, s : s \in Requests => Stays(s, e) BY <1>1, <1>2, <1>3 DEF Stays, Visiting
<1> QED BY <1>1, <1>4, FileStays, DirStays DEF Jobs

\* The list of a new request has the entries that want repair.
LEMMA JobStart ==
  ASSUME BarTypes, FileTypes, Flow, Calm', Jobs, \A f \in Files : KeepsFile(f),
         NEW r \in Requests, StartRepair(r) \/ ListAgain(r)
  PROVE  Jobs'
<1> USE DEF visit, request, At, Goto
<1>1. UNCHANGED <<ver, cur, found, del>> BY DEF StartRepair, ListAgain
<1>2. todo' = [todo EXCEPT ![r] = Children(Blobbers)]
  <2>1. PICK A \in SUBSET Blobbers : Answers(A) /\ todo' = [todo EXCEPT ![r] = Children(A)]
    BY DEF StartRepair, ListAgain
  <2>2. A = Blobbers BY <2>1, AllAnswer DEF Calm
  <2> QED BY <2>1, <2>2
<1>3. todo'[r] = Children(Blobbers) /\ \A s \in Requests : s # r => todo'[s] = todo[s]
  BY <1>2 DEF FileTypes
<1>4. /\ Started(r)' /\ work[r] \notin Visiting /\ work'[r] \notin Visiting
      /\ \A s \in Requests : s # r => (Started(s)' <=> Started(s)) /\ work'[s] = work[s]
  <2>1. CASE StartRepair(r) BY <2>1 DEF StartRepair, Flow, Started, BarTypes, Visiting
  <2>2. CASE ListAgain(r) BY <2>2 DEF ListAgain, Flow, Started, BarTypes, Visiting
  <2> QED BY <2>1, <2>2
<1>5. \A e, v : <<e, v>> \in Children(Blobbers) => Comes(r, e)'
  BY <1>3 DEF Comes
<1>6. ASSUME NEW f \in Files PROVE FileJob(f)'
  <2>1. f \in Entries /\ (InSync(f)' <=> InSync(f)) /\ \A v : Stale(f, v)' = Stale(f, v)
    BY <1>1, SameEntry DEF Entries
  <2>2. ASSUME NEW v \in 1 .. Versions, HeldAt(f, v), Returning(f, v) PROVE Returning(f, v)'
    <3> SUFFICES ASSUME NEW s \in Requests PROVE Returning(f, v)!(s)' BY DEF Returning
    <3>1. CASE s # r
      <4>1. Returning(f, v)!(s) BY <2>2 DEF Returning
      <4>2. (Comes(s, f)' <=> Comes(s, f)) /\ (ComesTwice(s, f)' <=> ComesTwice(s, f))
        BY <1>3, <3>1, SameComing
      <4> QED BY <1>1, <1>4, <2>1, <3>1, <4>1, <4>2
    <3>2. CASE s = r
      <4>1. ASSUME NEW b \in Stale(f, v) PROVE ComesTwice(r, f)'
        <5>1. b \in Blobbers /\ ver[f][b] \in 1 .. Versions /\ ver[f][b] # v
          BY <2>1 DEF Stale, FileTypes
        <5>2. PICK c \in Blobbers : ver[f][c] = v BY <2>2, HeldSomewhere
        <5>3. /\ b \in Holders(f, ver[f][b], Blobbers) /\ c \notin Holders(f, ver[f][b], Blobbers)
              /\ c \in Holders(f, v, Blobbers) /\ b \notin Holders(f, v, Blobbers)
          BY <5>1, <5>2 DEF Holders
        <5>4. <<f, ver[f][b]>> \in Children(Blobbers) /\ <<f, v>> \in Children(Blobbers)
          BY <2>1, <5>1, <5>2, <5>3, Listed
        <5>5. <<f, ver[f][b]>> # <<f, v>> BY <5>1
        <5> QED BY <1>3, <5>4, <5>5 DEF ComesTwice
      <4> QED BY <1>1, <1>4, <2>1, <3>2, <4>1 DEF Visiting
    <3> QED BY <3>1, <3>2
  <2>3. InSync(f) \/ Comes(r, f)'
    <3> SUFFICES ASSUME ~InSync(f) PROVE Comes(r, f)' OBVIOUS
    <3>1. \A v \in 0 .. Versions : Holders(f, v, Blobbers) # Blobbers BY DEF InSync
    <3>2. PICK b \in Blobbers : ver[f][b] # 0
      <4>1. Holders(f, 0, Blobbers) # Blobbers BY <3>1, RepairConstants
      <4> QED BY <4>1 DEF Holders
    <3>3. ver[f][b] \in 1 .. Versions BY <2>1, <3>2 DEF FileTypes
    <3>4. b \in Holders(f, ver[f][b], Blobbers) /\ Holders(f, ver[f][b], Blobbers) # Blobbers
      BY <3>1, <3>3 DEF Holders
    <3> QED BY <1>5, <2>1, <3>3, <3>4, Listed
  <2> QED BY <2>1, <2>2, <2>3 DEF FileJob, KeepsFile, Jobs, Attends
<1>7. ASSUME NEW d \in Dirs PROVE DirJob(d)'
  <2>1. DirHolders(d)' = DirHolders(d) /\ DirJob(d) BY <1>1, SameEntry DEF Jobs
  <2>2. Cardinality(DirHolders(d)) \in 1 .. DataShards-1 => Comes(r, d)'
    <3>1. 1 .. DataShards-1 \subseteq 1 .. N-1 BY RepairConstants
    <3>2. 1 \in 1 .. Versions /\ d \in Entries BY RepairConstants DEF Entries
    <3> QED BY <1>5, <3>1, <3>2 DEF Children, DirHolders
  <2> QED BY <1>1, <1>4, <2>1, <2>2 DEF DirJob, Visiting
<1> QED BY <1>6, <1>7 DEF Jobs

\* A child is taken off todo: its entry is now at hand.
LEMMA JobNextChild ==
  ASSUME BarTypes, FileTypes, Calm, Jobs, \A f \in Files : KeepsFile(f),
         NEW r \in Requests, NextChild(r)
  PROVE  Jobs'
<1> USE DEF request, At, Goto
<1>1. UNCHANGED <<ver, sender, found, del>> /\ work[r] = "next" BY DEF NextChild
<1>2. PICK c \in todo[r] : /\ todo' = [todo EXCEPT ![r] = @ \ {c}]
                           /\ cur' = [cur EXCEPT ![r] = c[1]]
                           /\ work' = [work EXCEPT ![r] = IF c[1] \in Dirs THEN "dir" ELSE "file"]
  BY DEF NextChild, CheckForCancel, NotCanceled, Calm
<1>3. /\ todo'[r] = todo[r] \ {c} /\ cur'[r] = c[1] /\ work'[r] \in {"dir", "file"}
      /\ c[1] \in Files => work'[r] = "file"
      /\ c[1] \in Dirs => work'[r] = "dir"
      /\ \A s \in Requests : s # r => todo'[s] = todo[s] /\ cur'[s] = cur[s] /\ work'[s] = work[s]
  BY <1>2, RepairConstants DEF FileTypes
<1>4. \A s \in Requests : Started(s)' <=> Started(s) BY <1>1 DEF Started
<1>5. \A e : /\ ComesTwice(r, e) => Comes(r, e)'
             /\ e # c[1] => (Comes(r, e)' <=> Comes(r, e)) /\ (ComesTwice(r, e)' <=> ComesTwice(r, e))
  BY <1>3 DEF Comes, ComesTwice
<1>6. \A e : Comes(r, e) => Comes(r, e)' \/ e = c[1] BY <1>5
<1>7. SomeStarted' <=> SomeStarted BY <1>4 DEF SomeStarted
<1>8. ASSUME NEW f \in Files PROVE FileJob(f)'
  <2>1. /\ Has(f)' = Has(f) /\ (InSync(f)' <=> InSync(f))
        /\ \A v : Stale(f, v)' = Stale(f, v)
    BY <1>1, SameEntry
  <2>2. ASSUME NEW v \in 1 .. Versions, Returning(f, v) PROVE Returning(f, v)'
    <3> SUFFICES ASSUME NEW s \in Requests PROVE Returning(f, v)!(s)' BY DEF Returning
    <3>0. Returning(f, v)!(s) BY <2>2 DEF Returning
    <3>1. CASE s # r
      <4>1. (Comes(s, f)' <=> Comes(s, f)) /\ (ComesTwice(s, f)' <=> ComesTwice(s, f))
        BY <1>3, <3>1, SameComing
      <4> QED BY <1>1, <1>3, <1>4, <2>1, <3>0, <3>1, <4>1
    <3>2. CASE s = r
      <4>1. Started(r) /\ Stale(f, v) # {} => ComesTwice(r, f) BY <1>1, <3>0, <3>2
      <4>2. CASE f = c[1] BY <1>3, <1>4, <1>5, <2>1, <3>2, <4>1, <4>2
      <4>3. CASE f # c[1] BY <1>3, <1>4, <1>5, <2>1, <3>2, <4>1, <4>3
      <4> QED BY <4>2, <4>3
    <3> QED BY <3>1, <3>2
  <2>3. ASSUME NEW s \in Requests, Attends(s, f) PROVE Attends(s, f)'
    <3>1. CASE s # r
      <4>1. Comes(s, f)' <=> Comes(s, f) BY <1>3, <3>1, SameComing
      <4> QED BY <1>1, <1>3, <2>1, <2>3, <3>1, <4>1 DEF Attends
    <3>2. CASE s = r
      <4>1. Comes(r, f) BY <1>1, <2>3, <3>2 DEF Attends
      <4> QED BY <1>3, <1>6, <3>2, <4>1 DEF Attends
    <3> QED BY <3>1, <3>2
  <2> QED BY <1>7, <2>1, <2>2, <2>3 DEF FileJob, KeepsFile, Jobs
<1>9. ASSUME NEW d \in Dirs PROVE DirJob(d)'
  <2>1. DirHolders(d)' = DirHolders(d) /\ DirJob(d) BY <1>1, SameEntry DEF Jobs
  <2>2. ASSUME NEW s \in Requests, Comes(s, d) \/ (cur[s] = d /\ work[s] \in {"dir", "remove"})
        PROVE  Comes(s, d)' \/ (cur'[s] = d /\ work'[s] \in {"dir", "remove"})
    <3>1. CASE s # r
      <4>1. Comes(s, d)' <=> Comes(s, d) BY <1>3, <3>1, SameComing
      <4> QED BY <1>3, <2>2, <3>1, <4>1
    <3>2. CASE s = r BY <1>1, <1>3, <1>6, <2>2, <3>2
    <3> QED BY <3>1, <3>2
  <2>3. \A s \in Requests : cur'[s] = d /\ work'[s] = "remove" => DirHolders(d) \subseteq del'[s]
    BY <1>1, <1>3, <2>1 DEF DirJob
  <2> QED BY <1>1, <1>7, <2>1, <2>2, <2>3 DEF DirJob
<1> QED BY <1>8, <1>9 DEF Jobs

\* processRepair goes on without having touched the entry at hand.
LEMMA JobGoesOn ==
  ASSUME BarTypes, FileTypes, Calm, Calm', Jobs, \A f \in Files : KeepsFile(f), NEW r \in Requests,
         \/ Begin(r) \/ LastChild(r) \/ CheckLocal(r) \/ CopyFails(r) \/ CopyHangs(r) \/ Copied(r)
         \/ Finish(r) \/ Deferred(r)
  PROVE  Jobs'
<1> USE DEF request, visit, At, Goto
<1>1. UNCHANGED <<ver, sender, todo, cur, found, del>>
  BY DEF Begin, FirstSteps, LastChild, CheckLocal, CopyFails, CopyHangs, CopyEnds, Copied, Finish, Deferred
<1>2. \A s \in Requests : Started(s)' <=> Started(s) BY <1>1 DEF Started
<1>3. \A s \in Requests : s # r => work'[s] = work[s]
  BY DEF Begin, FirstSteps, LastChild, CheckLocal, CopyFails, CopyHangs, CopyEnds, Copied, Finish, Deferred, CheckForCancel, BarTypes
<1>4. \/ work'[r] \notin Visiting /\ work[r] \notin Visiting
      \/ work[r] = "local" /\ work'[r] = "copy"
      \/ work[r] = "copy" /\ work'[r] \in {"next", "stuck"} /\ (CopyFails(r) \/ CopyHangs(r))
  BY DEF Begin, FirstSteps, LastChild, CheckLocal, CopyFails, CopyHangs, CopyEnds, Copied, Finish, Deferred, CheckForCancel,
         BarTypes, Visiting, Calm
<1>5. CopyFails(r) \/ CopyHangs(r) => found[r] # Has(cur[r])
  <2> SUFFICES ASSUME CopyFails(r) \/ CopyHangs(r), found[r] = Has(cur[r]) PROVE FALSE OBVIOUS
  <2>1. ~Fault(1) BY DEF Calm, Fault
  <2>2. Duplicates(r) # {} \/ ~Readable(r) BY <2>1 DEF CopyFails, CopyHangs, CopyEnds
  <2> QED BY <2>2 DEF Duplicates, Targets, Readable, Has
<1>6. \A e, s : s \in Requests => Stays(s, e)
  BY <1>1, <1>2, <1>3, <1>4, <1>5 DEF Stays, Visiting
<1> QED BY <1>1, <1>6, FileStays, DirStays DEF Jobs

\* An entry other than the one at hand.
LEMMA OtherStays ==
  ASSUME NEW r \in Requests, NEW e, cur[r] # e, UNCHANGED <<cur, todo, sender>>,
         \A s \in Requests : s # r =>
           work'[s] = work[s] /\ del'[s] = del[s] /\ found'[s] = found[s]
  PROVE  \A s \in Requests : Stays(s, e)
BY DEF Stays, Started

\* A directory on a minority is to be deleted from all of it.
LEMMA JobVisitDir ==
  ASSUME BarTypes, FileTypes, Calm', Jobs, \A f \in Files : KeepsFile(f),
         NEW r \in Requests, VisitDir(r)
  PROVE  Jobs'
<1> USE DEF request, At, Goto
<1>1. UNCHANGED <<ver, sender, todo, cur, found>> /\ work[r] = "dir" BY DEF VisitDir
<1>2. PICK A \in SUBSET Blobbers :
        /\ Answers(A) /\ del' = [del EXCEPT ![r] = Holders(cur[r], 1, A)]
        /\ work' = [work EXCEPT ![r] =
             IF Cardinality(Holders(cur[r], 1, A)) \in 1 .. DataShards-1 THEN "remove" ELSE "next"]
  BY DEF VisitDir
<1>3. A = Blobbers BY <1>2, AllAnswer DEF Calm
<1>4. /\ del'[r] = DirHolders(cur[r])
      /\ work'[r] = IF Cardinality(DirHolders(cur[r])) \in 1 .. DataShards-1 THEN "remove" ELSE "next"
      /\ \A s \in Requests : s # r => work'[s] = work[s] /\ del'[s] = del[s] /\ found'[s] = found[s]
  BY <1>1, <1>2, <1>3 DEF FileTypes, DirHolders
<1>5. cur[r] \in Dirs BY <1>1 DEF FileTypes
<1>6. ASSUME NEW f \in Files PROVE FileJob(f)'
  <2>1. cur[r] # f BY <1>5, RepairConstants
  <2> QED BY <1>1, <1>4, <2>1, OtherStays, FileStays DEF Jobs
<1>7. ASSUME NEW d \in Dirs, cur[r] # d PROVE DirJob(d)'
  BY <1>1, <1>4, <1>7, OtherStays, DirStays DEF Jobs
<1>8. ASSUME NEW d \in Dirs, cur[r] = d PROVE DirJob(d)'
  <2>1. DirHolders(d)' = DirHolders(d) /\ DirJob(d) BY <1>1, SameEntry DEF Jobs
  <2>2. \A s \in Requests : cur'[s] = d /\ work'[s] = "remove" => DirHolders(d) \subseteq del'[s]
    BY <1>1, <1>4, <1>8, <2>1 DEF DirJob
  <2>3. Cardinality(DirHolders(d)) \in 1 .. DataShards-1 => cur'[r] = d /\ work'[r] = "remove"
    BY <1>1, <1>4, <1>8
  <2> QED BY <1>1, <2>1, <2>2, <2>3 DEF DirJob
<1> QED BY <1>6, <1>7, <1>8 DEF Jobs

\* A file that is not recoverable is to be deleted everywhere, another one is to be copied
\* where it is missing, if need be after its stale copies were deleted and it was visited again.
LEMMA JobVisitFile ==
  ASSUME BarTypes, FileTypes, Flow, Calm, Calm', Jobs, \A f \in Files : KeepsFile(f),
         NEW r \in Requests, VisitFile(r)
  PROVE  Jobs'
<1> USE DEF request, At, Goto
<1>1. UNCHANGED <<ver, sender, todo, cur>> /\ work[r] = "file" BY DEF VisitFile
<1>2. PICK A \in SUBSET Blobbers :
        /\ Answers(A) /\ found' = [found EXCEPT ![r] = FoundMask(cur[r], A)]
        /\ del' = [del EXCEPT ![r] = DeleteMask(cur[r], A)]
        /\ work' = [work EXCEPT ![r] = Branch(FoundMask(cur[r], A), DeleteMask(cur[r], A))]
  BY DEF VisitFile, CheckForCancel, Calm
<1>3. A = Blobbers BY <1>2, AllAnswer DEF Calm
<1>4. /\ found'[r] = FoundMask(cur[r], Blobbers) /\ del'[r] = DeleteMask(cur[r], Blobbers)
      /\ work'[r] = Branch(found'[r], del'[r])
      /\ \A s \in Requests : s # r => work'[s] = work[s] /\ del'[s] = del[s] /\ found'[s] = found[s]
  BY <1>2, <1>3 DEF FileTypes
<1>5. cur[r] \in Files BY <1>1 DEF Flow
<1>6. ASSUME NEW d \in Dirs PROVE DirJob(d)'
  <2>1. cur[r] # d BY <1>5, RepairConstants
  <2> QED BY <1>1, <1>4, <2>1, OtherStays, DirStays DEF Jobs
<1>7. ASSUME NEW f \in Files, cur[r] # f PROVE FileJob(f)'
  BY <1>1, <1>4, <1>7, OtherStays, FileStays DEF Jobs
<1>8. ASSUME NEW f \in Files, cur[r] = f PROVE FileJob(f)'
  <2>1. /\ Has(f)' = Has(f) /\ (InSync(f)' <=> InSync(f)) /\ \A v : Stale(f, v)' = Stale(f, v)
    BY <1>1, SameEntry
  <2>2. \A s \in Requests : /\ Comes(s, f)' <=> Comes(s, f)
                            /\ ComesTwice(s, f)' <=> ComesTwice(s, f)
    BY <1>1, SameComing
  <2>3. del'[r] = Has(f) \ found'[r] BY <1>4, <1>8 DEF DeleteMask, Has
  <2>4. CASE Unreadable(f)
    <3>1. found'[r] = {} BY <1>4, <1>8, <2>4, NothingSelected DEF Unreadable
    <3>2. CASE Has(f) = {}
      <4>1. Holders(f, 0, Blobbers) = Blobbers BY <3>2 DEF Has, Holders
      <4>2. InSync(f) BY <4>1, RepairConstants DEF InSync
      <4> QED BY <2>1, <2>4, <4>2, <1>8 DEF FileJob, KeepsFile
    <3>3. CASE Has(f) # {}
      <4>1. work'[r] = "remove" /\ del'[r] = Has(f) BY <1>4, <2>3, <3>1, <3>3 DEF Branch
      <4>2. Attends(r, f)' BY <1>1, <1>8, <2>1, <4>1 DEF Attends
      <4> QED BY <2>4, <4>2, <1>8 DEF FileJob, KeepsFile
    <3> QED BY <3>2, <3>3
  <2>5. ASSUME NEW v \in 1 .. Versions, HeldAt(f, v), Returning(f, v) PROVE FileJob(f)'
    <3>1. found'[r] = Holders(f, v, Blobbers)
      <4>1. PICK C \in SUBSET Blobbers, i \in Blobbers : Core(f, v, C, i) BY <2>5 DEF HeldAt
      <4>2. Selected(f, Blobbers) = {v} BY <4>1, CoreSelected
      <4> QED BY <1>4, <1>8, <4>2 DEF FoundMask
    <3>2. found'[r] # {} BY <2>5, <3>1, HeldSomewhere DEF Holders
    <3>3. /\ del'[r] = Stale(f, v) /\ v # 0
          /\ Stale(f, v) = {} => found'[r] = Has(f)
      BY <2>3, <3>1 DEF Holders, Has, Stale
    <3>4. Stale(f, v) # {} => Comes(r, f)
      <4>1. Started(r) BY <1>1 DEF Flow
      <4> QED BY <1>1, <4>1, <2>5 DEF Returning, Comes, ComesTwice
    <3>5. /\ work'[r] \in {"clean", "local", "next"}
          /\ work'[r] = "clean" <=> found'[r] # Blobbers /\ del'[r] # {}
          /\ work'[r] = "local" <=> found'[r] # Blobbers /\ del'[r] = {}
      BY <1>4, <3>2 DEF Branch
    <3>6. found'[r] = Blobbers => del'[r] = {} /\ InSync(f)
      <4>1. found'[r] = Blobbers => del'[r] = {} BY <2>3 DEF Has
      <4>2. v \in 0 .. Versions OBVIOUS
      <4>3. found'[r] = Blobbers => InSync(f) BY <3>1, <4>2 DEF InSync
      <4> QED BY <4>1, <4>3
    <3>7. Returning(f, v)'
      <4> SUFFICES ASSUME NEW s \in Requests PROVE Returning(f, v)!(s)' BY DEF Returning
      <4>0. Returning(f, v)!(s) BY <2>5 DEF Returning
      <4>1. CASE s # r
        BY <1>1, <1>4, <2>1, <2>2, <4>0, <4>1 DEF Started
      <4>2. CASE s = r
        BY <1>1, <1>8, <2>1, <2>2, <3>3, <3>4, <3>5, <3>6, <4>2
      <4> QED BY <4>1, <4>2
    <3>8. InSync(f) \/ Attends(r, f)'
      BY <1>1, <1>8, <2>1, <2>2, <3>3, <3>4, <3>5, <3>6 DEF Attends
    <3> QED BY <2>1, <2>5, <3>7, <3>8, <1>8 DEF FileJob, KeepsFile
  <2> QED BY <2>4, <2>5 DEF Jobs, FileJob
<1> QED BY <1>6, <1>7, <1>8 DEF Jobs

\* Without a fault every copy is deleted that was to be deleted.  Whoever deleted stale
\* copies visits the file again.
LEMMA JobDelete ==
  ASSUME BarTypes, FileTypes, Flow, Calm, Calm', Jobs, \A f \in Files : KeepsFile(f),
         NEW r \in Requests, Delete(r)
  PROVE  Jobs'
<1> USE DEF request, visit, At, Goto
<1>1. /\ UNCHANGED <<sender, todo, cur, found, del>> /\ work[r] \in Deleting
      /\ \/ work[r] = "clean" /\ work' = [work EXCEPT ![r] = "local"]
         \/ work[r] = "remove" /\ work' = [work EXCEPT ![r] = "next"]
  BY DEF Delete, Deleting
<1>2. /\ \A s \in Requests : s # r => work'[s] = work[s] /\ del'[s] = del[s] /\ found'[s] = found[s]
      /\ work[r] = "clean" => work'[r] = "local"
      /\ work[r] = "remove" => work'[r] = "next"
  BY <1>1 DEF FileTypes
<1>3. cur[r] \in Entries BY <1>1 DEF FileTypes, Visiting, Deleting
<1>4. DeleteFile(r, del[r])
  <2>1. PICK done \in SUBSET del[r] : Fault(Cardinality(del[r] \ done)) /\ DeleteFile(r, done)
    BY DEF Delete
  <2>2. IsFiniteSet(del[r] \ done) /\ Cardinality(del[r] \ done) \in Nat
    BY FiniteSubsets DEF FileTypes
  <2>3. Cardinality(del[r] \ done) = 0 BY <2>1, <2>2 DEF Fault, Calm
  <2>4. done = del[r] BY <2>2, <2>3, FS_EmptySet
  <2> QED BY <2>1, <2>4
<1>5. /\ \A e \in Entries : e # cur[r] => ver'[e] = ver[e]
      /\ \A b \in Blobbers : ver'[cur[r]][b] = IF b \in del[r] THEN 0 ELSE ver[cur[r]][b]
  BY <1>3, <1>4 DEF DeleteFile, FileTypes
<1>6. \A s \in Requests : \A e : Comes(s, e)' <=> Comes(s, e) BY <1>1, SameComing
<1>7. SomeStarted' <=> SomeStarted BY <1>1 DEF SomeStarted, Started
<1>8. ASSUME NEW f \in Files, cur[r] # f PROVE FileJob(f)'
  <2>1. ver'[f] = ver[f] BY <1>5, <1>8 DEF Entries
  <2> QED BY <1>1, <1>2, <1>8, <2>1, OtherStays, FileStays DEF Jobs
<1>9. ASSUME NEW d \in Dirs, cur[r] # d PROVE DirJob(d)'
  <2>1. ver'[d] = ver[d] BY <1>5, <1>9 DEF Entries
  <2> QED BY <1>1, <1>2, <1>9, <2>1, OtherStays, DirStays DEF Jobs
<1>10. ASSUME NEW d \in Dirs, cur[r] = d PROVE DirJob(d)'
  <2>1. work[r] = "remove"
    <3>1. d \notin Files BY RepairConstants
    <3> QED BY <1>1, <1>10, <3>1 DEF Flow
  <2>2. DirHolders(d) \subseteq del[r] BY <1>10, <2>1 DEF Jobs, DirJob
  <2>3. DirHolders(d)' = {}
    BY <1>5, <1>10, <2>2 DEF DirHolders, Holders
  <2>4. Cardinality(DirHolders(d)') \notin 1 .. DataShards-1 BY <2>3, FS_EmptySet
  <2>5. \A b \in Blobbers : ver'[d][b] \in 0 .. 1 BY <1>5, <1>10 DEF Jobs, DirJob
  <2> QED BY <2>3, <2>4, <2>5 DEF DirJob
<1>11. ASSUME NEW f \in Files, cur[r] = f, Unreadable(f) PROVE FileJob(f)'
  <2>1. work[r] = "remove" BY <1>1, <1>11 DEF Unreadable, Copying
  <2>2. Has(f)' = Has(f) \ del[r] BY <1>5, <1>11 DEF Has
  <2>3. Has(f)' = {} => InSync(f)'
    <3>1. Has(f)' = {} => Holders(f, 0, Blobbers)' = Blobbers BY DEF Has, Holders
    <3>2. 0 \in 0 .. Versions BY RepairConstants
    <3> QED BY <3>1, <3>2 DEF InSync
  <2>4. InSync(f) => Has(f) = {}
    <3> SUFFICES ASSUME NEW v \in 0 .. Versions, Holders(f, v, Blobbers) = Blobbers, v # 0
                 PROVE  FALSE
      BY DEF InSync, Has, Holders
    <3>1. Cardinality(Blobbers) >= DataShards BY RepairConstants, FS_Interval DEF Blobbers
    <3>2. v \in 1 .. Versions OBVIOUS
    <3> QED BY <1>11, <3>1, <3>2 DEF Unreadable, Recoverable
  <2>5. ASSUME NEW s \in Requests, Attends(s, f) PROVE InSync(f)' \/ Attends(s, f)'
    <3>1. ~(cur[s] = f /\ work[s] \in {"local", "copy"}) BY <1>11 DEF Unreadable, Copying
    <3>2. CASE s = r
      <4>1. Comes(r, f) \/ Has(f) \subseteq del[r] BY <2>1, <2>5, <3>1, <3>2 DEF Attends
      <4> QED BY <1>6, <2>2, <2>3, <3>2, <4>1 DEF Attends
    <3>3. CASE s # r
      <4>1. Comes(s, f)' <=> Comes(s, f) BY <1>6
      <4>2. Has(f)' \subseteq Has(f) BY <2>2
      <4> QED BY <1>1, <1>2, <2>5, <3>1, <3>3, <4>1, <4>2 DEF Attends
    <3> QED BY <3>2, <3>3
  <2>6. SomeStarted' => InSync(f)' \/ \E s \in Requests : Attends(s, f)'
    <3>1. SomeStarted => InSync(f) \/ \E s \in Requests : Attends(s, f) BY DEF Jobs, FileJob
    <3>2. InSync(f) => InSync(f)' BY <2>2, <2>3, <2>4
    <3> QED BY <1>7, <2>5, <3>1, <3>2
  <2> QED BY <1>11, <2>6 DEF FileJob, KeepsFile
<1>12. ASSUME NEW f \in Files, cur[r] = f, NEW v \in 1 .. Versions, HeldAt(f, v), Returning(f, v)
       PROVE  FileJob(f)'
  <2>1. work[r] = "clean" BY <1>1, <1>12 DEF Returning
  <2>2. Comes(r, f) /\ Stale(f, v) \subseteq del[r] BY <1>12, <2>1 DEF Returning
  <2>3. Stale(f, v)' = {} BY <1>5, <1>12, <2>2 DEF Stale
  <2>4. Returning(f, v)'
    <3> SUFFICES ASSUME NEW s \in Requests PROVE Returning(f, v)!(s)' BY DEF Returning
    <3>1. Returning(f, v)!(s) BY <1>12 DEF Returning
    <3>2. Comes(s, f)' <=> Comes(s, f) BY <1>6
    <3> QED BY <1>1, <1>2, <2>1, <2>3, <3>1, <3>2
  <2>5. Attends(r, f)' BY <1>6, <2>2 DEF Attends
  <2> QED BY <1>12, <2>4, <2>5 DEF FileJob, KeepsFile
<1>13. ASSUME NEW f \in Files, cur[r] = f PROVE FileJob(f)'
  BY <1>11, <1>12, <1>13 DEF Jobs, FileJob
<1> QED BY <1>8, <1>9, <1>10, <1>13 DEF Jobs

\* Without a fault every blobber that lacks the file gets it; stale copies stay only if the
\* request visits the file again.
LEMMA JobCopy ==
  ASSUME BarTypes, FileTypes, Flow, Calm, Calm', Jobs, \A f \in Files : KeepsFile(f),
         NEW r \in Requests, Copy(r)
  PROVE  Jobs'
<1> USE DEF request, visit, At, Goto
<1>1. /\ UNCHANGED <<sender, todo, cur, found, del>> /\ work[r] = "copy" /\ Readable(r)
      /\ work' = [work EXCEPT ![r] = "copied"]
  BY DEF Copy
<1>2. /\ \A s \in Requests : s # r => work'[s] = work[s] /\ del'[s] = del[s] /\ found'[s] = found[s]
      /\ work'[r] = "copied"
  BY <1>1 DEF FileTypes
<1>3. /\ cur[r] \in Files /\ cur[r] \in Entries /\ Started(r)
      /\ found[r] # {} /\ found[r] \subseteq Blobbers
  BY <1>1 DEF Flow, Entries, FileTypes, Copying
<1>4. ver' = [ver EXCEPT ![cur[r]] =
        [b \in Blobbers |-> IF b \in Targets(r) \ Duplicates(r) THEN Version(r) ELSE @[b]]]
  <2>1. PICK up \in SUBSET (Targets(r) \ Duplicates(r)) :
          /\ Fault(Cardinality((Targets(r) \ Duplicates(r)) \ up))
          /\ ver' = [ver EXCEPT ![cur[r]] =
               [b \in Blobbers |-> IF b \in up THEN Version(r) ELSE @[b]]]
    BY DEF Copy
  <2>2. /\ IsFiniteSet((Targets(r) \ Duplicates(r)) \ up)
        /\ Cardinality((Targets(r) \ Duplicates(r)) \ up) \in Nat
    BY FiniteSubsets DEF Targets
  <2>3. Cardinality((Targets(r) \ Duplicates(r)) \ up) = 0 BY <2>1, <2>2 DEF Fault, Calm
  <2>4. up = Targets(r) \ Duplicates(r) BY <2>2, <2>3, FS_EmptySet
  <2> QED BY <2>1, <2>4
<1>5. /\ \A e \in Entries : e # cur[r] => ver'[e] = ver[e]
      /\ \A b \in Blobbers : ver'[cur[r]][b] =
           IF b \in Targets(r) \ Duplicates(r) THEN Version(r) ELSE ver[cur[r]][b]
  BY <1>3, <1>4 DEF FileTypes
<1>6. ASSUME NEW f \in Files, cur[r] # f PROVE FileJob(f)'
  <2>1. ver'[f] = ver[f] BY <1>5, <1>6 DEF Entries
  <2> QED BY <1>1, <1>2, <1>6, <2>1, OtherStays, FileStays DEF Jobs
<1>7. ASSUME NEW d \in Dirs PROVE DirJob(d)'
  <2>1. cur[r] # d BY <1>3, RepairConstants
  <2>2. ver'[d] = ver[d] BY <1>5, <2>1 DEF Entries
  <2> QED BY <1>1, <1>2, <2>1, <2>2, OtherStays, DirStays DEF Jobs
<1>8. ASSUME NEW f \in Files, cur[r] = f, NEW v \in 1 .. Versions, HeldAt(f, v), Returning(f, v)
      PROVE  FileJob(f)'
  <2>1. \A b \in found[r] : ver[f][b] = v
    <3>1. PICK C \in SUBSET Blobbers, i \in Blobbers : Core(f, v, C, i) BY <1>8 DEF HeldAt
    <3> QED BY <1>1, <1>8, <3>1 DEF Core, Readable, Copying
  <2>2. Version(r) = v
    <3>1. (CHOOSE b \in found[r] : TRUE) \in found[r] BY <1>3
    <3> QED BY <1>8, <2>1, <3>1 DEF Version
  <2>3. \A b \in Blobbers : /\ ver[f][b] = 0 => ver'[f][b] = v
                            /\ ver[f][b] # 0 => ver'[f][b] = ver[f][b]
    BY <1>5, <1>8, <2>1, <2>2 DEF Targets, Duplicates
  <2>4. Stale(f, v)' = Stale(f, v) BY <2>3 DEF Stale
  <2>5. Returning(f, v)'
    <3> SUFFICES ASSUME NEW s \in Requests PROVE Returning(f, v)!(s)' BY DEF Returning
    <3>1. Returning(f, v)!(s) BY <1>8 DEF Returning
    <3>2. (Comes(s, f)' <=> Comes(s, f)) /\ (ComesTwice(s, f)' <=> ComesTwice(s, f))
      BY <1>1, SameComing
    <3> QED BY <1>1, <1>2, <2>4, <3>1, <3>2 DEF Started
  <2>6. CASE Stale(f, v) = {}
    <3>1. \A b \in Blobbers : ver'[f][b] = v BY <2>3, <2>6 DEF Stale
    <3>2. Holders(f, v, Blobbers)' = Blobbers BY <3>1 DEF Holders
    <3>3. v \in 0 .. Versions OBVIOUS
    <3> QED BY <1>8, <2>5, <3>2, <3>3 DEF FileJob, KeepsFile, InSync
  <2>7. CASE Stale(f, v) # {}
    <3>1. ComesTwice(r, f) BY <1>1, <1>3, <1>8, <2>7 DEF Returning
    <3>2. Comes(r, f)' BY <1>1, <3>1 DEF Comes, ComesTwice
    <3> QED BY <1>8, <2>5, <3>2 DEF FileJob, KeepsFile, Attends
  <2> QED BY <2>6, <2>7
<1>9. ASSUME NEW f \in Files, cur[r] = f PROVE FileJob(f)'
  <2>1. ~Unreadable(f) BY <1>1, <1>9 DEF Unreadable, Copying
  <2> QED BY <1>8, <1>9, <2>1 DEF Jobs, FileJob
<1> QED BY <1>6, <1>7, <1>9 DEF Jobs

-----------------------------------------------------------------------------
(* The invariant, and what it says at the end                               *)

LEMMA JobInit == Init => JobInv
<1> SUFFICES ASSUME Init PROVE JobInv OBVIOUS
<1>1. /\ bars \in SUBSET Requests
      /\ locked = FALSE /\ repairChan = <<>> /\ lost = 0 /\ fails = 0
      /\ call = [r \in Requests |-> IF r \in bars THEN "new" ELSE "start"]
      /\ sender = [r \in Requests |-> "none"] /\ work = [r \in Requests |-> "none"]
      /\ todo = [r \in Requests |-> {}] /\ cur = [r \in Requests |-> None]
      /\ completed = [r \in Requests |-> 0]
  BY DEF Init
<1>2. /\ ver \in [Entries -> [Blobbers -> 0 .. Versions]]
      /\ \A d \in Dirs, b \in Blobbers : ver[d][b] <= 1
  BY DEF Init
<1>3. BarTypes /\ FileInv BY BarInit, FileInit DEF BarInv
<1>4. Flow
  <2>1. PICK r : r \in Requests BY RepairConstants
  <2>2. \A s \in Requests : Flow!1!(s) BY <1>1 DEF Started, Queued
  <2>3. call[r] = "start" \/ (call[r] = "new" /\ ~locked) BY <1>1, <2>1
  <2> QED BY <2>1, <2>2, <2>3 DEF Flow
<1>5. ~SomeStarted /\ \A r \in Requests : ~Started(r) BY <1>1 DEF SomeStarted, Started
<1>6. ASSUME NEW f \in Files PROVE FileJob(f)
  <2>1. Held(f) \/ Unreadable(f) BY <1>1, <1>3 DEF FileInv
  <2>2. \A v : Returning(f, v) BY <1>1, <1>5 DEF Returning
  <2> QED BY <1>5, <2>1, <2>2 DEF FileJob, Held
<1>7. ASSUME NEW d \in Dirs PROVE DirJob(d)
  <2>1. d \in Entries BY DEF Entries
  <2>2. \A b \in Blobbers : ver[d][b] \in 0 .. 1
    <3> SUFFICES ASSUME NEW b \in Blobbers PROVE ver[d][b] \in 0 .. 1 OBVIOUS
    <3>1. ver[d][b] \in 0 .. Versions /\ ver[d][b] <= 1 BY <1>2, <2>1
    <3> QED BY <3>1, RepairConstants
  <2>3. \A r \in Requests : work[r] # "remove" BY <1>1
  <2> QED BY <1>5, <2>2, <2>3 DEF DirJob
<1> QED BY <1>1, <1>3, <1>4, <1>6, <1>7 DEF JobInv

\* One step of a request, with every blobber answering.
LEMMA JobsStep ==
  ASSUME BarTypes, FileTypes, Flow, Calm, Calm', Jobs, \A f \in Files : KeepsFile(f), Next
  PROVE  Flow' /\ Jobs'
<1>0. ~Fault(1) BY DEF Calm, Fault
<1>1. ASSUME NEW r \in Requests, Caller(r) \/ Sender(r) PROVE Flow' /\ Jobs'
  <2>1. NewRepairBar(r) \/ ProcessReturns(r) \/ Send(r) \/ Register(r) \/ StartRepair(r)
    BY <1>0, <1>1 DEF Caller, Sender, RepairAllocFails
  <2>2. Flow' BY <2>1, FlowRequest
  <2>3. Jobs' BY <2>1, JobRequest, JobStart
  <2> QED BY <2>2, <2>3
<1>2. ASSUME NEW r \in Requests, ProcessRepair(r) PROVE Flow' /\ Jobs'
  <2>1. Flow' BY <1>2, FlowWork
  <2>2. \/ Begin(r) \/ ListAgain(r) \/ NextChild(r) \/ LastChild(r) \/ VisitDir(r) \/ VisitFile(r)
        \/ Delete(r) \/ CheckLocal(r) \/ Copy(r) \/ CopyFails(r) \/ CopyHangs(r) \/ Copied(r)
        \/ Finish(r) \/ Deferred(r)
    BY <1>0, <1>2 DEF ProcessRepair, DeleteFails
  <2>3. Jobs'
    BY <2>2, JobStart, JobGoesOn, JobNextChild, JobVisitDir, JobVisitFile, JobDelete, JobCopy
  <2> QED BY <2>1, <2>3
<1>3. CASE Dispatcher
  <2>1. PICK r \in Requests : repairChan = <<r>> BY <1>3 DEF Dispatcher, Dispatch, BarTypes
  <2>2. Dispatch BY <1>3 DEF Dispatcher
  <2> QED BY <2>2, FlowRequest, JobRequest
<1>4. ~Canceler BY DEF Canceler, CancelRepair, Calm
<1> QED BY <1>1, <1>2, <1>3, <1>4 DEF Next

LEMMA JobStep == BarInv /\ JobInv /\ [Next]_vars => JobInv'
<1> SUFFICES ASSUME BarInv, JobInv, [Next]_vars PROVE JobInv' OBVIOUS
<1>1. BarTypes' /\ FileInv' BY BarStep, FileStep DEF BarInv, JobInv
<1>2. CASE Next
  <2>1. fails' \in Nat /\ (Calm' => Calm) BY <1>2, CalmBefore
  <2>2. ASSUME Calm' PROVE Flow' /\ Jobs'
    <3>1. BarTypes /\ FileTypes /\ FileInv /\ Flow /\ Calm /\ Jobs
      BY <2>1, <2>2 DEF JobInv, FileInv, Jobs
    <3>2. \A f \in Files : KeepsFile(f) BY <2>2, <3>1, NextKeeps DEF Keeps, Calm
    <3> QED BY <1>2, <2>2, <3>1, <3>2, JobsStep
  <2> QED BY <1>1, <2>1, <2>2 DEF JobInv, Jobs
<1>3. CASE UNCHANGED vars
  <2>1. UNCHANGED <<ver, locked, call, sender, repairChan, canceled, work, todo, cur, found, del,
                    completed, lost, fails>>
    BY <1>3 DEF vars, request, visit
  <2>2. fails' \in Nat /\ (Calm' => Calm) BY <2>1 DEF JobInv, Calm
  <2>3. ASSUME Calm' PROVE Flow' /\ Jobs'
    <3>1. FileInv /\ Flow /\ Calm /\ Jobs BY <2>2, <2>3 DEF JobInv, Jobs
    <3>2. Flow' BY <2>1, <3>1 DEF Flow, Started, Queued
    <3>3. \A f \in Files : KeepsFile(f) BY <2>3, <3>1, NextKeeps DEF Keeps, Calm
    <3>4. \A e, r : r \in Requests => Stays(r, e) BY <2>1 DEF Stays, Started
    <3> QED BY <2>1, <3>1, <3>2, <3>3, <3>4, FileStays, DirStays DEF Jobs
  <2> QED BY <1>1, <2>2, <2>3 DEF JobInv, Jobs
<1> QED BY <1>2, <1>3

LEMMA JobAlways == Spec => []JobInv
BY JobInit, JobStep, BarAlways, PTL DEF Spec

\* When the repairs are over and nothing failed, was lost or canceled, every file is the
\* same on all blobbers and no directory is left on a minority, however many repairs ran and
\* however they interleaved: whatever is not yet so is still on the list, or in the hands,
\* of a request that is under way.  A request that deleted stale copies of a file visits it
\* again, because the list has one child for each of the file's versions.
THEOREM RepairsAll == Spec => []AllRepaired
<1>1. ASSUME JobInv, \A r \in Requests : Over(r), fails = 0, lost = 0, canceled = {}
      PROVE  /\ \A f \in Files : InSync(f)
             /\ \A d \in Dirs : Cardinality(Holders(d, 1, Blobbers)) \notin 1 .. DataShards-1
  <2>1. Flow /\ Jobs BY <1>1 DEF JobInv, Calm, Jobs
  <2>2. ASSUME NEW r \in Requests
        PROVE  todo[r] = {} /\ work[r] \notin Visiting /\ call[r] \notin {"new", "start"}
    BY <1>1, <2>1, <2>2 DEF Flow, Over, Visiting
  <2>3. SomeStarted BY <2>1, <2>2 DEF Flow, SomeStarted
  <2>4. \A r \in Requests : \A e : ~Comes(r, e) BY <2>2 DEF Comes
  <2>5. ASSUME NEW f \in Files PROVE InSync(f)
    BY <2>1, <2>2, <2>3, <2>4 DEF Jobs, FileJob, Attends, Visiting
  <2>6. ASSUME NEW d \in Dirs PROVE Cardinality(Holders(d, 1, Blobbers)) \notin 1 .. DataShards-1
    BY <2>1, <2>2, <2>3, <2>4 DEF Jobs, DirJob, DirHolders, Visiting
  <2> QED BY <2>5, <2>6
<1>2. JobInv => AllRepaired BY <1>1 DEF AllRepaired
<1> QED BY <1>2, JobAlways, PTL

=============================================================================
