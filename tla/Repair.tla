-------------------------------- MODULE Repair --------------------------------
(***************************************************************************)
(* Repair of an allocation: MultiOperation.Process takes the repair lock    *)
(* of the allocation (NewRepairBar) and starts a repair, an application     *)
(* starts one without it (StartRepair) and may cancel it (CancelRepair).    *)
(* A request goes through repairChan to dispatchWork, which runs            *)
(* processRepair in a goroutine of its own: the entries of the root that    *)
(* some blobber misses are deleted where they are a minority and copied to  *)
(* the other blobbers where DataShards of them agree.                       *)
(*                                                                         *)
(* ver[e][b]: the version of entry e on blobber b, 0 for none.  The copy    *)
(* of a file (its download and upload through a pipe) is one step, but the  *)
(* wait for its callbacks may not end.                                      *)
(***************************************************************************)
EXTENDS Integers, Sequences, FiniteSets

CONSTANTS
  Requests,    \* repairs started in the run
  MinBars,     \* those of them that MultiOperation.Process starts in any case
  Files, Dirs, \* entries of the root; the directories are empty
  N, DataShards,
  Versions,    \* how many versions of a file the blobbers may hold
  MaxDiffer,   \* bound: entries the blobbers disagree on at the start
  MaxFaults    \* bound: lost answers, failing deletes, copies and starts, and
               \* cancellations, together

Blobbers == 0 .. N-1
Entries == Files \cup Dirs
None == "none"

ASSUME RepairConstants ==
  /\ Requests # {} /\ MinBars \subseteq Requests /\ None \notin Requests \cup Entries
  /\ Files \cap Dirs = {}
  /\ N \in Nat /\ DataShards \in 1 .. N /\ Versions \in Nat \ {0}
  /\ MaxDiffer \in Nat /\ MaxFaults \in Nat

VARIABLES
  ver,
  bars,        \* the requests MultiOperation.Process starts; an application the others
  locked,      \* the mutex of mutMap
  call,        \* the caller: "new", "start", "wait", "retry", "failed", "returned"
  sender,      \* the goroutine of StartRepair: "none", "send", "register", "end"
  repairChan,
  inProgress,  \* repairRequestInProgress
  canceled,    \* the requests with isRepairCanceled
  work,        \* where processRepair is
  todo,        \* the children still to visit, one per version of an entry
  cur,         \* the child at hand
  found, del,  \* foundMask and deleteMask of it
  completed,   \* history: calls of RepairCompleted
  panicked,    \* unlock of an unlocked mutex, negative WaitGroup counter
  lost, fails, cancels

request == <<call, sender, repairChan>>
visit == <<cur, found, del>>
vars == <<ver, bars, locked, request, inProgress, canceled, work, todo, visit, completed,
          panicked, lost, fails, cancels>>

\* An entry is on some blobber.  Nothing depends on what a version is called, so they
\* are numbered in the order of the blobbers.
Entry(v) ==
  /\ \E b \in Blobbers : v[b] # 0
  /\ \A b \in Blobbers : v[b] <= 1 \/ \E c \in 0 .. b-1 : v[c] = v[b] - 1

Init ==
  /\ ver \in {v \in [Entries -> {f \in [Blobbers -> 0 .. Versions] : Entry(f)}] :
                /\ \A d \in Dirs, b \in Blobbers : v[d][b] <= 1
                /\ Cardinality({e \in Entries : \E b, c \in Blobbers : v[e][b] # v[e][c]})
                     <= MaxDiffer}
  /\ bars \in {B \in SUBSET Requests : MinBars \subseteq B}
  /\ locked = FALSE
  /\ call = [r \in Requests |-> IF r \in bars THEN "new" ELSE "start"]
  /\ sender = [r \in Requests |-> "none"] /\ repairChan = <<>>
  /\ inProgress = None /\ canceled = {}
  /\ work = [r \in Requests |-> "none"] /\ todo = [r \in Requests |-> {}]
  /\ cur = [r \in Requests |-> None]
  /\ found = [r \in Requests |-> {}] /\ del = [r \in Requests |-> {}]
  /\ completed = [r \in Requests |-> 0]
  /\ panicked = FALSE /\ lost = 0 /\ fails = 0 /\ cancels = 0

\* The blobbers that answer a list or file-meta request.
Answers(A) ==
  lost' = lost + Cardinality(Blobbers \ A) /\ lost' + fails + cancels <= MaxFaults
Fault(n) == fails' = fails + n /\ lost + fails' + cancels <= MaxFaults
Holders(e, v, A) == {b \in A : ver[e][b] = v}

-----------------------------------------------------------------------------
(* The callers.                                                            *)

\* Mutant: the lock is not tried.
NewRepairBarAlways(r) ==
  /\ call[r] = "new"
  /\ locked' = TRUE /\ call' = [call EXCEPT ![r] = "start"]
  /\ UNCHANGED <<ver, sender, repairChan, inProgress, canceled, work, todo, visit,
                 completed, panicked, lost, fails, cancels>>

\* NewRepairBar: TryLock; Process asks its caller to retry when a repair holds the lock.
NewRepairBar(r) ==
  /\ call[r] = "new"
  /\ locked' = TRUE
  /\ call' = [call EXCEPT ![r] = IF locked THEN "retry" ELSE "start"]
  /\ UNCHANGED <<ver, sender, repairChan, inProgress, canceled, work, todo, visit,
                 completed, panicked, lost, fails, cancels>>

\* RepairAlloc fails (os.Getwd): Process returns and keeps the lock.
RepairAllocFails(r) ==
  /\ call[r] = "start" /\ r \in bars /\ Fault(1)
  /\ call' = [call EXCEPT ![r] = "failed"]
  /\ UNCHANGED <<ver, locked, sender, repairChan, inProgress, canceled, work, todo, visit,
                 completed, panicked, lost, cancels>>

\* GetListFromBlobbers for repair: a child per version that not all blobbers answered with.
Children(A) ==
  {c \in Entries \X (1 .. Versions) : Cardinality(Holders(c[1], c[2], A)) \in 1 .. N-1}

\* StartRepair up to the goroutine that queues the request.
StartRepair(r) ==
  /\ call[r] = "start"
  /\ \E A \in SUBSET Blobbers :
       Answers(A) /\ todo' = [todo EXCEPT ![r] = Children(A)]
  /\ call' = [call EXCEPT ![r] = IF r \in bars THEN "wait" ELSE "returned"]
  /\ sender' = [sender EXCEPT ![r] = "send"]
  /\ UNCHANGED <<ver, locked, repairChan, inProgress, canceled, work, visit, completed,
                 panicked, fails, cancels>>

\* repairChan has room for one request.
Send(r) ==
  /\ sender[r] = "send" /\ repairChan = <<>>
  /\ repairChan' = <<r>> /\ sender' = [sender EXCEPT ![r] = "register"]
  /\ UNCHANGED <<ver, locked, call, inProgress, canceled, work, todo, visit, completed,
                 panicked, lost, fails, cancels>>

\* Only after the request was queued it is made known to CancelRepair.
Register(r) ==
  /\ sender[r] = "register"
  /\ inProgress' = r /\ sender' = [sender EXCEPT ![r] = "end"]
  /\ UNCHANGED <<ver, locked, call, repairChan, canceled, work, todo, visit, completed,
                 panicked, lost, fails, cancels>>

\* dispatchWork.
Dispatch ==
  /\ repairChan # <<>>
  /\ work' = [work EXCEPT ![Head(repairChan)] = "begin"] /\ repairChan' = Tail(repairChan)
  /\ UNCHANGED <<ver, locked, call, sender, inProgress, canceled, todo, visit, completed,
                 panicked, lost, fails, cancels>>

CancelRepair ==
  /\ inProgress # None /\ lost + fails + cancels < MaxFaults
  /\ canceled' = canceled \cup {inProgress} /\ cancels' = cancels + 1
  /\ UNCHANGED <<ver, locked, request, inProgress, work, todo, visit, completed, panicked,
                 lost, fails>>

\* statusBar.wg.Wait returns, and Process asks for a retry.
ProcessReturns(r) ==
  /\ call[r] = "wait" /\ completed[r] > 0
  /\ call' = [call EXCEPT ![r] = "retry"]
  /\ UNCHANGED <<ver, locked, sender, repairChan, inProgress, canceled, work, todo, visit,
                 completed, panicked, lost, fails, cancels>>

-----------------------------------------------------------------------------
(* processRepair.                                                          *)

At(r, where) == work[r] = where
Goto(r, where) == work' = [work EXCEPT ![r] = where]

\* Mutant: the lock is released by the caller only.
RepairCompletedKeepsLock(r) ==
  /\ completed' = [completed EXCEPT ![r] = @ + 1]
  /\ UNCHANGED <<locked, panicked>>

\* StatusBar.RepairCompleted: mutUnlock and wg.Done.
RepairCompleted(r) ==
  /\ completed' = [completed EXCEPT ![r] = @ + 1]
  /\ IF r \in bars
       THEN locked' = FALSE /\ panicked' = (~locked \/ completed[r] > 0)
       ELSE UNCHANGED <<locked, panicked>>

\* checkForCancel, with where processRepair goes on when canceled.
CheckForCancel(r, where) == r \in canceled /\ RepairCompleted(r) /\ Goto(r, where)
NotCanceled(r) == r \notin canceled /\ UNCHANGED <<locked, completed, panicked>>

\* An empty list of the root is asked for again; a list nobody answered has no type.
FirstSteps(r) ==
  IF todo[r] # {} THEN {"next"} ELSE {"again"} \cup (IF lost >= N THEN {"finish"} ELSE {})

Begin(r) ==
  /\ At(r, "begin")
  /\ CheckForCancel(r, "deferred") \/ (NotCanceled(r) /\ \E w \in FirstSteps(r) : Goto(r, w))
  /\ UNCHANGED <<ver, request, inProgress, canceled, todo, visit, lost, fails, cancels>>

\* iterateDir lists a directory without children, the root too.  (A root that less than
\* DataShards blobbers answer for, all without children, is deleted there: left out.)
ListAgain(r) ==
  /\ At(r, "again")
  /\ \E A \in SUBSET Blobbers :
       Answers(A) /\ todo' = [todo EXCEPT ![r] = Children(A)]
  /\ Goto(r, "next")
  /\ UNCHANGED <<ver, locked, request, inProgress, canceled, visit, completed, panicked,
                 fails, cancels>>

\* iterateDir of the root: the next child, in no particular order.
NextChild(r) ==
  /\ At(r, "next") /\ todo[r] # {}
  /\ \/ CheckForCancel(r, "finish") /\ UNCHANGED <<todo, cur>>
     \/ /\ NotCanceled(r)
        /\ \E c \in todo[r] :
             /\ todo' = [todo EXCEPT ![r] = @ \ {c}]
             /\ cur' = [cur EXCEPT ![r] = c[1]]
             /\ Goto(r, IF c[1] \in Dirs THEN "dir" ELSE "file")
  /\ UNCHANGED <<ver, request, inProgress, canceled, found, del, lost, fails, cancels>>

LastChild(r) ==
  /\ At(r, "next") /\ todo[r] = {} /\ Goto(r, "finish")
  /\ UNCHANGED <<ver, locked, request, inProgress, canceled, todo, visit, completed,
                 panicked, lost, fails, cancels>>

\* iterateDir of an empty directory: deleted where it is, if that is a minority.
VisitDir(r) ==
  /\ At(r, "dir")
  /\ \E A \in SUBSET Blobbers :
       LET has == Holders(cur[r], 1, A) IN
       /\ Answers(A)
       /\ del' = [del EXCEPT ![r] = has]
       /\ Goto(r, IF Cardinality(has) \in 1 .. DataShards-1 THEN "remove" ELSE "next")
  /\ UNCHANGED <<ver, locked, request, inProgress, canceled, todo, cur, found, completed,
                 panicked, fails, cancels>>

\* getFileConsensusFromBlobbers: the version that first, in the order of the blobbers,
\* has DataShards answers; empty if none has.
Selected(e, A) ==
  LET Reached(v, i) == Cardinality(Holders(e, v, A \cap (0 .. i))) >= DataShards IN
  {v \in 1 .. Versions :
     \E i \in Blobbers : Reached(v, i) /\ \A u \in (1 .. Versions) \ {v} : ~Reached(u, i)}

FoundMask(e, A) == UNION {Holders(e, v, A) : v \in Selected(e, A)}

\* Mutant: every copy the blobbers answer with is deleted before the upload.
DeleteMaskAll(e, A) == {b \in A : ver[e][b] # 0}

DeleteMask(e, A) == {b \in A : ver[e][b] # 0} \ FoundMask(e, A)

\* Where repairFile goes on after RepairRequired.
Branch(fm, dm) ==
  CASE fm = {} /\ dm # {}                    -> "remove"
    [] fm # {} /\ fm # Blobbers /\ dm # {}   -> "clean"
    [] fm # {} /\ fm # Blobbers /\ dm = {}   -> "local"
    [] OTHER                                 -> "next"

VisitFile(r) ==
  /\ At(r, "file")
  /\ \/ CheckForCancel(r, "next") /\ UNCHANGED <<found, del, lost>>
     \/ /\ NotCanceled(r)
        /\ \E A \in SUBSET Blobbers :
             LET fm == FoundMask(cur[r], A)
                 dm == DeleteMask(cur[r], A)
             IN /\ Answers(A)
                /\ found' = [found EXCEPT ![r] = fm]
                /\ del' = [del EXCEPT ![r] = dm]
                /\ Goto(r, Branch(fm, dm))
  /\ UNCHANGED <<ver, request, inProgress, canceled, todo, cur, fails, cancels>>

\* deleteFile with threshold 0: what was reached is deleted.
DeleteFile(r, done) ==
  ver' = [ver EXCEPT ![cur[r]] = [b \in Blobbers |-> IF b \in done THEN 0 ELSE @[b]]]

\* Minority shards are deleted: the repair of the entry, or what comes before its copy.
Delete(r) ==
  /\ work[r] \in {"remove", "clean"}
  /\ \E done \in SUBSET del[r] :
       Fault(Cardinality(del[r] \ done)) /\ DeleteFile(r, done)
  /\ \/ At(r, "clean") /\ Goto(r, "local")
     \/ At(r, "remove") /\ Goto(r, "next")
  /\ UNCHANGED <<locked, request, inProgress, canceled, todo, visit, completed, panicked, lost,
                 cancels>>

\* The write-marker lock for the delete is not had.
DeleteFails(r) ==
  /\ work[r] \in {"remove", "clean"} /\ Fault(1)
  /\ Goto(r, "next")
  /\ UNCHANGED <<ver, locked, request, inProgress, canceled, todo, visit, completed,
                 panicked, lost, cancels>>

\* A file that is not found under localRootPath is downloaded, after a checkForCancel.
CheckLocal(r) ==
  /\ At(r, "local")
  /\ \/ CheckForCancel(r, "next")
     \/ UNCHANGED <<locked, completed, panicked>> /\ Goto(r, "copy")
  /\ UNCHANGED <<ver, request, inProgress, canceled, todo, visit, lost, fails, cancels>>

\* Mutant: the mask is the blobbers that were found.
TargetsFound(r) == found[r]

\* RepairFile: the mask is what was not found; a blobber that has the file by now, or did
\* not answer before, says "duplicate".
Targets(r) == Blobbers \ found[r]
Duplicates(r) == {b \in Targets(r) : ver[cur[r]][b] # 0}
Version(r) == ver[cur[r]][CHOOSE b \in found[r] : TRUE]
Readable(r) == \A b \in found[r] : ver[cur[r]][b] # 0

\* The download and the upload through a pipe, or the upload of a local file.
Copy(r) ==
  /\ At(r, "copy") /\ Readable(r)
  /\ \E up \in SUBSET (Targets(r) \ Duplicates(r)) :
       LET missed == (Targets(r) \ Duplicates(r)) \ up IN
       /\ up \cup Duplicates(r) # {}
       /\ Cardinality(missed) < N - DataShards /\ Fault(Cardinality(missed))
       /\ ver' = [ver EXCEPT ![cur[r]] =
                    [b \in Blobbers |-> IF b \in up THEN Version(r) ELSE @[b]]]
  /\ Goto(r, "copied")
  /\ UNCHANGED <<locked, request, inProgress, canceled, todo, visit, completed, panicked,
                 lost, cancels>>

CopyEnds(r, where) ==
  /\ At(r, "copy")
  /\ Fault(1) \/ ((Duplicates(r) # {} \/ ~Readable(r)) /\ UNCHANGED fails)
  /\ Goto(r, where)
  /\ UNCHANGED <<ver, locked, request, inProgress, canceled, todo, visit, completed,
                 panicked, lost, cancels>>
CopyFails(r) == CopyEnds(r, "next")

\* wg.Wait does not return: no callback follows an error of CreateChunkedUpload, and none
\* that of a download which was cancelled while its writer waits for room in the channel.
CopyHangs(r) == CopyEnds(r, "stuck")

Copied(r) ==
  /\ At(r, "copied")
  /\ \/ CheckForCancel(r, "next")
     \/ NotCanceled(r) /\ Goto(r, "next")
  /\ UNCHANGED <<ver, request, inProgress, canceled, todo, visit, lost, fails, cancels>>

Finish(r) ==
  /\ At(r, "finish") /\ RepairCompleted(r) /\ Goto(r, "deferred")
  /\ UNCHANGED <<ver, request, inProgress, canceled, todo, visit, lost, fails, cancels>>

\* completedCallback.
Deferred(r) ==
  /\ At(r, "deferred") /\ Goto(r, "end")
  /\ inProgress' = None
  /\ UNCHANGED <<ver, locked, request, canceled, todo, visit, completed, panicked, lost,
                 fails, cancels>>

-----------------------------------------------------------------------------

Caller(r) ==
  /\ NewRepairBar(r) \/ RepairAllocFails(r) \/ StartRepair(r) \/ ProcessReturns(r)
  /\ UNCHANGED bars
Sender(r) == (Send(r) \/ Register(r)) /\ UNCHANGED bars
Dispatcher == Dispatch /\ UNCHANGED bars
Canceler == CancelRepair /\ UNCHANGED bars
ProcessRepair(r) ==
  /\ \/ Begin(r) \/ ListAgain(r) \/ NextChild(r) \/ LastChild(r) \/ VisitDir(r) \/ VisitFile(r)
     \/ Delete(r) \/ DeleteFails(r) \/ CheckLocal(r) \/ Copy(r) \/ CopyFails(r) \/ CopyHangs(r)
     \/ Copied(r) \/ Finish(r) \/ Deferred(r)
  /\ UNCHANGED bars

Next ==
  /\ ~panicked
  /\ \/ \E r \in Requests : Caller(r) \/ Sender(r) \/ ProcessRepair(r)
     \/ Dispatcher \/ Canceler

\* Every goroutine runs when it can.
Spec ==
  /\ Init /\ [][Next]_vars
  /\ WF_vars(~panicked /\ Dispatcher)
  /\ \A r \in Requests : /\ WF_vars(~panicked /\ Caller(r)) /\ WF_vars(~panicked /\ Sender(r))
                         /\ WF_vars(~panicked /\ ProcessRepair(r))

-----------------------------------------------------------------------------

TypeOK ==
  /\ ver \in [Entries -> [Blobbers -> 0 .. Versions]]
  /\ locked \in BOOLEAN /\ panicked \in BOOLEAN
  /\ call \in [Requests -> {"new", "start", "wait", "retry", "failed", "returned"}]
  /\ sender \in [Requests -> {"none", "send", "register", "end"}]
  /\ repairChan \in Seq(Requests) /\ Len(repairChan) <= 1
  /\ inProgress \in Requests \cup {None} /\ canceled \subseteq Requests
  /\ \A r \in Requests :
       /\ work[r] \in {"none", "begin", "again", "next", "dir", "file", "remove", "clean",
                       "local", "copy", "copied", "stuck", "finish", "deferred", "end"}
       /\ todo[r] \subseteq Entries \X (1 .. Versions) /\ cur[r] \in Entries \cup {None}
       /\ found[r] \subseteq Blobbers /\ del[r] \subseteq Blobbers
       /\ work[r] \in {"local", "copy", "copied"} => Cardinality(found[r]) >= DataShards
       /\ completed[r] \in Nat
  /\ {lost, fails, cancels} \subseteq 0 .. MaxFaults

Running(r) == work[r] \notin {"none", "deferred", "end"}
Recoverable(f) == \E v \in 1 .. Versions : Cardinality(Holders(f, v, Blobbers)) >= DataShards

\* A repair never makes a file unreadable: one of which some version is on DataShards
\* blobbers stays so, whatever fails and however two repairs interleave, as long as every
\* blobber answers the list and file-meta requests.  (A copy is taken for a minority, and
\* deleted, when the blobbers with the others do not answer.)
KeepsRecoverable ==
  [][lost' = 0 => \A f \in Files : Recoverable(f) => Recoverable(f)']_vars

\* The repair lock keeps the repairs that Process starts apart, unless one is canceled:
\* it then reports its end, which releases the lock, and goes on to the next file.
BarRepairsExclusive ==
  canceled = {} => \A r, s \in bars : Running(r) /\ Running(s) => r = s

\* A file every blobber has in the same version, or none has.
InSync(f) == \E v \in 0 .. Versions : Holders(f, v, Blobbers) = Blobbers
Over(r) == work[r] \in {"deferred", "end"} \/ call[r] \in {"retry", "failed"}

\* When the repairs are over and nothing failed, was lost or canceled, no file is left
\* that a blobber misses, and a directory is left only on a majority.
AllRepaired ==
  (\A r \in Requests : Over(r)) /\ fails = 0 /\ lost = 0 /\ canceled = {} =>
    /\ \A f \in Files : InSync(f)
    /\ \A d \in Dirs : Cardinality(Holders(d, 1, Blobbers)) \notin 1 .. DataShards-1

\* Process returns from every repair it waits for, and in the end the lock is free,
\* unless RepairAlloc failed, after which nobody releases it, or a repair was canceled,
\* which may report its end twice and so unlock an unlocked mutex, or the copy of a file
\* failed and the repair waits for a callback that does not come (repairworker.go:165-173).
BarReleased ==
  <>[](\/ ~locked /\ \A r \in Requests : call[r] # "wait"
       \/ canceled # {} \/ \E r \in bars : call[r] = "failed" \/ work[r] = "stuck")
=============================================================================
