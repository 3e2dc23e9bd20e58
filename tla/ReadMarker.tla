------------------------------ MODULE ReadMarker ------------------------------
(***************************************************************************)
(* What comes before a paid download.  Requests are collected until one is *)
(* final; processReadMarker then looks up every file, adds up the blocks    *)
(* each blobber will be asked for, and a goroutine per blobber submits one  *)
(* read marker for the sum.  Requests that still have enough paid blobbers  *)
(* go on to downloadChan.                                                   *)
(*                                                                         *)
(* A marker carries the number of blocks ever read from the blobber: the    *)
(* process-wide counter of read_counter_ctr.go plus the new blocks.  A      *)
(* blobber refuses any other number and answers with the latest marker it   *)
(* has, from which the counter is set.                                      *)
(***************************************************************************)
EXTENDS Integers, FiniteSets

CONSTANTS
  Blobbers,     \* a.Blobbers
  NRequests,    \* how many calls of Download... are made
  Finals,       \* those with isFinal
  Blocks,       \* per request: blocksPerShard
  Homes,        \* where the files of the requests may be: [request -> blobbers]
  DataShards,   \* consensusThresh of a request
  Retries,      \* retryCount
  MaxBusy,      \* assumption: how often a blobber answers 429 or LockExists
  MaxOther,     \* bound: markers of other processes of the same client
  MaxTrouble,   \* bound: both together with refusals, requests lost, answers lost or late
  MayRefuse,    \* calls may fail before a request is added
  Cancels       \* the requests CancelDownload may be called for

ASSUME ReadMarkerConstants ==
  /\ NRequests \in Nat
  /\ Finals \subseteq 1 .. NRequests /\ Finals # {}
  /\ \A r \in 1 .. NRequests : Blocks[r] \in Nat \ {0}
  /\ Homes \subseteq [1 .. NRequests -> SUBSET Blobbers]
  /\ IsFiniteSet(Blobbers) /\ DataShards \in 1 .. Cardinality(Blobbers)
  /\ Retries \in Nat \ {0} /\ {MaxBusy, MaxOther, MaxTrouble} \subseteq Nat
  /\ MayRefuse \in BOOLEAN /\ Cancels \subseteq 1 .. NRequests

\* Requests are numbered in the order of their calls.  A batch is named by the final
\* request that starts it.
Requests == 1 .. NRequests
Batches == Finals
None == 0

VARIABLES
  next,         \* the request whose call comes next
  queue,        \* a.downloadRequests
  st,           \* per request: where it is
  mask,         \* per request: downloadMask
  canceled,     \* requests whose context is cancelled
  drs,          \* per batch: its requests
  free,         \* ReadPriceRange is 0, chosen at the start
  home,         \* per request: the blobbers that have its file, chosen at the start;
                \* no request is made for a file that is nowhere
  phase,        \* per batch: where processReadMarker is
  blobberMap,   \* per batch and blobber: blocks to read
  work,         \* per batch and blobber: the goroutine that submits
  tries,        \* per batch and blobber: retryCount
  counter,      \* per batch and blobber: ReadCounter of the marker submitted
  answer,       \* per batch and blobber: what came back for it
  seen,         \* per batch and blobber: successMask as read before Or
  successMask,  \* per batch
  raced,        \* history, per batch: blobbers whose update of it overlapped with another's
  ctr,          \* brc.m: the counter per blobber
  holder,       \* brc.blobberLockMap: the batch that holds a blobber's mutex
  skip,         \* blobbers with SetSkip(true)
  latest,       \* per blobber: counter of the latest marker it accepted
  paid,         \* history: blocks accepted per batch and blobber
  faults, busy, other  \* how often each has happened

reqVars == <<next, queue, st, mask, canceled, drs, free, home>>
subVars == <<blobberMap, work, tries, counter, answer, seen, successMask, raced>>
ctrVars == <<ctr, holder, skip>>
extVars == <<latest, paid, faults, busy, other>>
vars == <<reqVars, phase, subVars, ctrVars, extVars>>

\* The bound on what may go wrong is not reached.
MoreTrouble == faults + busy + other < MaxTrouble
Per(x) == [k \in Batches |-> [b \in Blobbers |-> x]]
NoAnswer == [kind |-> "none", rm |-> 0]

Init ==
  /\ next = 1 /\ queue = {} /\ canceled = {}
  /\ st = [r \in Requests |-> "new"]
  /\ mask = [r \in Requests |-> {}]
  /\ drs = [k \in Batches |-> {}]
  /\ free \in BOOLEAN /\ home \in Homes
  /\ phase = [k \in Batches |-> "none"]
  /\ blobberMap = Per(0) /\ work = Per("none") /\ tries = Per(0) /\ counter = Per(0)
  /\ answer = Per(NoAnswer) /\ seen = Per({})
  /\ successMask = [k \in Batches |-> {}] /\ raced = [k \in Batches |-> {}]
  /\ ctr = [b \in Blobbers |-> 0]
  /\ holder = [b \in Blobbers |-> None]
  /\ skip = {}
  /\ latest = [b \in Blobbers |-> 0]
  /\ paid = Per(0)
  /\ faults = 0 /\ busy = 0 /\ other = 0

-----------------------------------------------------------------------------
(* Collecting and preparing the requests                                   *)

\* addAndGenerateDownloadRequest, downloadFromAuthTicket: under a.mutex; a final
\* request takes the queue away and starts processReadMarker in a goroutine.
AddRequest(r) ==
  /\ r = next /\ next' = next + 1 /\ home[r] # {}
  /\ st' = [st EXCEPT ![r] = "queued"]
  /\ mask' = [mask EXCEPT ![r] = Blobbers]
  /\ IF r \in Finals
     THEN /\ drs' = [drs EXCEPT ![r] = queue \union {r}]
          /\ phase' = [phase EXCEPT ![r] = "prepare"]
          /\ queue' = {}
     ELSE /\ queue' = queue \union {r}
          /\ UNCHANGED <<drs, phase>>
  /\ UNCHANGED <<canceled, free, home, subVars, ctrVars, extVars>>

\* The call returns an error first: the local file cannot be opened
\* (prepareAndOpenLocalFile), the auth ticket cannot be decoded.
RefuseRequest(r) ==
  /\ MayRefuse
  /\ r = next /\ next' = next + 1 /\ home[r] # {}
  /\ st' = [st EXCEPT ![r] = "refused"]
  /\ UNCHANGED <<queue, mask, canceled, drs, free, home, phase, subVars, ctrVars, extVars>>

\* CancelDownload of a request that has not been reported yet.
Cancel(r) ==
  /\ r \in Cancels
  /\ st[r] \in {"queued", "ready"} /\ r \notin canceled
  /\ canceled' = canceled \union {r}
  /\ UNCHANGED <<next, queue, st, mask, drs, free, home, phase, subVars, ctrVars, extVars>>

\* processDownloadRequest finds the file: downloadMask holds the first
\* consensusThresh + 1 blobbers that agree on it (consensusThresh if there are
\* no more), or as few as consensusThresh of them; its blocks are added up per blobber.
PrepareFound(k, r) ==
  /\ phase[k] = "prepare" /\ r \in drs[k] /\ st[r] = "queued" /\ r \notin canceled
  /\ \E m \in SUBSET Blobbers :
       /\ m \subseteq home[r] /\ Cardinality(m) \in DataShards .. DataShards + 1
       /\ mask' = [mask EXCEPT ![r] = m]
       /\ blobberMap' = [blobberMap EXCEPT ![k] = [b \in Blobbers |->
            blobberMap[k][b] + (IF b \in m THEN Blocks[r] ELSE 0)]]
  /\ st' = [st EXCEPT ![r] = "ready"]
  /\ UNCHANGED <<next, queue, canceled, drs, free, home, phase, work, tries, counter, answer, seen,
                 successMask, raced, ctrVars, extVars>>

\* It does not: errorCB, which sets skip.
PrepareError(k, r) ==
  /\ phase[k] = "prepare" /\ r \in drs[k] /\ st[r] = "queued"
  /\ st' = [st EXCEPT ![r] = "skipped"]
  /\ UNCHANGED <<next, queue, mask, canceled, drs, free, home, phase, subVars, ctrVars, extVars>>

-----------------------------------------------------------------------------
(* processReadMarker                                                        *)

Ready(k) == {r \in drs[k] : st[r] = "ready"}
Prepared(k) == phase[k] = "prepare" /\ \A r \in drs[k] : st[r] \in {"ready", "skipped"}

\* Reads cost nothing: everything goes to downloadChan.
SendFree(k) ==
  /\ free /\ Prepared(k)
  /\ st' = [r \in Requests |-> IF r \in Ready(k) THEN "sent" ELSE st[r]]
  /\ phase' = [phase EXCEPT ![k] = "done"]
  /\ UNCHANGED <<next, queue, mask, canceled, drs, free, home, subVars, ctrVars, extVars>>

\* One goroutine for each blobber with blocks to read.
StartSubmitting(k) ==
  /\ ~free /\ Prepared(k)
  /\ phase' = [phase EXCEPT ![k] = "submit"]
  /\ work' = [work EXCEPT ![k] =
       [b \in Blobbers |-> IF blobberMap[k][b] > 0 THEN "try" ELSE "none"]]
  /\ tries' = [tries EXCEPT ![k] = [b \in Blobbers |-> Retries]]
  /\ UNCHANGED <<reqVars, blobberMap, counter, answer, seen, successMask, raced, ctrVars, extVars>>

\* All markers are sent with the context of the first request.
ContextDone(k) == \E r \in drs[k] \intersect canceled : \A q \in drs[k] : r <= q

Set(f, k, b, x) == [f EXCEPT ![k][b] = x]
Answer(k, b, kind, n) == answer' = Set(answer, k, b, [kind |-> kind, rm |-> n])

\* lockBlobberReadCtr, unlockBlobberReadCtr: a mutex per blobber.
Lock(k, b) == holder[b] = None /\ holder' = [holder EXCEPT ![b] = k]
Unlock(b) == holder' = [holder EXCEPT ![b] = None]

\* setBlobberReadCtr, incBlobberReadCtr
SetCtr(b, n) == ctr' = [ctr EXCEPT ![b] = n]
IncCtr(b, n) == ctr' = [ctr EXCEPT ![b] = ctr[b] + n]

\* Mutant: without the blobber's mutex.
AttemptUnlocked(k, b) ==
  /\ work[k][b] = "try"
  /\ counter' = Set(counter, k, b, ctr[b] + blobberMap[k][b])
  /\ work' = Set(work, k, b, "sent")
  /\ UNCHANGED <<reqVars, phase, blobberMap, tries, answer, seen, successMask, raced, ctrVars,
                 extVars>>

\* attemptSubmitReadMarker: take the blobber's mutex, build the marker and send it; a
\* request is not sent when its context is done.
Attempt(k, b) ==
  /\ work[k][b] = "try"
  /\ Lock(k, b)
  /\ counter' = Set(counter, k, b, ctr[b] + blobberMap[k][b])
  /\ work' = Set(work, k, b, "sent")
  /\ IF ContextDone(k) THEN Answer(k, b, "error", 0) ELSE answer' = answer
  /\ UNCHANGED <<reqVars, phase, blobberMap, tries, seen, successMask, raced, ctr, skip,
                 extVars>>

Waiting(k, b) == work[k][b] = "sent" /\ answer[k][b] = NoAnswer

\* The blobber (external): a marker must add its blocks to the latest one.
InSync(k, b) == counter[k][b] = latest[b] + blobberMap[k][b]
Redeem(k, b) ==
  /\ latest' = [latest EXCEPT ![b] = counter[k][b]]
  /\ paid' = Set(paid, k, b, paid[k][b] + blobberMap[k][b])

BlobberAccepts(k, b) ==
  /\ Waiting(k, b) /\ ~ContextDone(k) /\ InSync(k, b)
  /\ Redeem(k, b)
  /\ Answer(k, b, "ok", 0)
  /\ UNCHANGED <<reqVars, phase, blobberMap, work, tries, counter, seen, successMask, raced,
                 ctrVars, faults, busy, other>>

BlobberStale(k, b) ==
  /\ Waiting(k, b) /\ ~ContextDone(k) /\ ~InSync(k, b)
  /\ Answer(k, b, "stale", latest[b])
  /\ UNCHANGED <<reqVars, phase, blobberMap, work, tries, counter, seen, successMask, raced,
                 ctrVars, extVars>>

\* NotEnoughTokens, InvalidAuthTicket, InvalidShare; or 429 and LockExists.
BlobberRefuses(k, b) ==
  /\ Waiting(k, b) /\ ~ContextDone(k)
  /\ \/ MoreTrouble /\ faults' = faults + 1 /\ busy' = busy /\ Answer(k, b, "denied", 0)
     \/ /\ busy < MaxBusy /\ MoreTrouble /\ busy' = busy + 1 /\ faults' = faults
        /\ Answer(k, b, "busy", 0)
  /\ UNCHANGED <<reqVars, phase, blobberMap, work, tries, counter, seen, successMask, raced,
                 ctrVars, latest, paid, other>>

\* The connection is closed after the marker was accepted: HttpDo sends the same
\* request again on io.EOF.
ConnectionClosed(k, b) ==
  /\ Waiting(k, b) /\ ~ContextDone(k) /\ InSync(k, b)
  /\ MoreTrouble /\ faults' = faults + 1
  /\ Redeem(k, b)
  /\ UNCHANGED <<reqVars, phase, subVars, ctrVars, busy, other>>

\* The request or its answer is lost, or the context is done.
NoResponse(k, b) ==
  /\ Waiting(k, b)
  /\ \/ ContextDone(k) /\ faults' = faults
     \/ MoreTrouble /\ faults' = faults + 1
  /\ \/ InSync(k, b) /\ Redeem(k, b)
     \/ UNCHANGED <<latest, paid>>
  /\ Answer(k, b, "error", 0)
  /\ UNCHANGED <<reqVars, phase, blobberMap, work, tries, counter, seen, successMask, raced,
                 ctrVars, busy, other>>

\* Another process of the same client reads a block.
OtherProcess(b) ==
  /\ other < MaxOther /\ MoreTrouble /\ other' = other + 1
  /\ latest' = [latest EXCEPT ![b] = latest[b] + 1]
  /\ UNCHANGED <<reqVars, phase, subVars, ctrVars, paid, faults, busy>>

-----------------------------------------------------------------------------
(* submitReadMarker: what an attempt's outcome does                        *)

Return(k, b, w) ==
  /\ work' = Set(work, k, b, w)
  /\ answer' = Set(answer, k, b, NoAnswer)

\* Mutant: retryCount is not decremented.
FailedTryUncounted(k, b) ==
  /\ tries' = tries /\ skip' = skip
  /\ Return(k, b, "try")

\* Any error but those of BlobberRefuses costs a try; after the last one the blobber
\* is skipped from now on.
FailedTry(k, b) ==
  /\ tries' = Set(tries, k, b, tries[k][b] - 1)
  /\ IF tries[k][b] = 1
     THEN Return(k, b, "failed") /\ skip' = skip \union {b}
     ELSE Return(k, b, "try") /\ skip' = skip

\* 200: incBlobberReadCtr.
HandleOK(k, b) ==
  /\ answer[k][b].kind = "ok"
  /\ IncCtr(b, blobberMap[k][b])
  /\ Return(k, b, "accepted")
  /\ Unlock(b)
  /\ UNCHANGED <<reqVars, phase, blobberMap, tries, counter, seen, successMask, raced, skip,
                 extVars>>

\* The same, but the context is done when HttpDo looks: f has run, its error is replaced.
HandleLateOK(k, b) ==
  /\ answer[k][b].kind = "ok"
  /\ \/ ContextDone(k) /\ faults' = faults
     \/ MoreTrouble /\ faults' = faults + 1
  /\ IncCtr(b, blobberMap[k][b])
  /\ FailedTry(k, b)
  /\ Unlock(b)
  /\ UNCHANGED <<reqVars, phase, blobberMap, counter, seen, successMask, raced, latest, paid, busy,
                 other>>

\* handleReadMarkerError with a LatestRM.
HandleStale(k, b) ==
  /\ answer[k][b].kind = "stale"
  /\ SetCtr(b, answer[k][b].rm)
  /\ FailedTry(k, b)
  /\ Unlock(b)
  /\ UNCHANGED <<reqVars, phase, blobberMap, counter, seen, successMask, raced, extVars>>

\* Mutant: the error path leaves the mutex locked.
HandleErrorLocked(k, b) ==
  /\ answer[k][b].kind = "error"
  /\ FailedTry(k, b)
  /\ UNCHANGED <<reqVars, phase, blobberMap, counter, seen, successMask, raced, ctr, holder,
                 extVars>>

\* A transport error, or ctx.Err().
HandleError(k, b) ==
  /\ answer[k][b].kind = "error"
  /\ FailedTry(k, b)
  /\ Unlock(b)
  /\ UNCHANGED <<reqVars, phase, blobberMap, counter, seen, successMask, raced, ctr, extVars>>

HandleDenied(k, b) ==
  /\ answer[k][b].kind = "denied"
  /\ Return(k, b, "failed")
  /\ skip' = skip \union {b}
  /\ Unlock(b)
  /\ UNCHANGED <<reqVars, phase, blobberMap, tries, counter, seen, successMask, raced, ctr,
                 extVars>>

HandleBusy(k, b) ==
  /\ answer[k][b].kind = "busy"
  /\ Return(k, b, "try")
  /\ Unlock(b)
  /\ UNCHANGED <<reqVars, phase, blobberMap, tries, counter, seen, successMask, raced, ctr, skip,
                 extVars>>

\* successMask = successMask.Or(...) without a lock: read, then write.
InOr(k) == {c \in Blobbers : work[k][c] = "or"}

ReadSuccess(k, b) ==
  /\ work[k][b] = "accepted"
  /\ seen' = Set(seen, k, b, successMask[k])
  /\ work' = Set(work, k, b, "or")
  /\ raced' = [raced EXCEPT ![k] = @ \union IF InOr(k) = {} THEN {} ELSE InOr(k) \union {b}]
  /\ UNCHANGED <<reqVars, phase, blobberMap, tries, counter, answer, successMask, ctrVars,
                 extVars>>

\* Mutant: the bit is assigned, not or-ed.
WriteSuccessAlone(k, b) ==
  /\ work[k][b] = "or"
  /\ successMask' = [successMask EXCEPT ![k] = {b}]
  /\ work' = Set(work, k, b, "done")
  /\ UNCHANGED <<reqVars, phase, blobberMap, tries, counter, answer, seen, raced, ctrVars,
                 extVars>>

WriteSuccess(k, b) ==
  /\ work[k][b] = "or"
  /\ successMask' = [successMask EXCEPT ![k] = seen[k][b] \union {b}]
  /\ work' = Set(work, k, b, "done")
  /\ UNCHANGED <<reqVars, phase, blobberMap, tries, counter, answer, seen, raced, ctrVars,
                 extVars>>

\* After wg.Wait(): what each request may still use, and whether that is enough.
Finish(k) ==
  /\ phase[k] = "submit"
  /\ \A b \in Blobbers : work[k][b] \in {"none", "done", "failed"}
  /\ LET left(r) == mask[r] \intersect successMask[k]
     IN /\ mask' = [r \in Requests |-> IF r \in Ready(k) THEN left(r) ELSE mask[r]]
        /\ st' = [r \in Requests |-> IF r \notin Ready(k) THEN st[r]
                                     ELSE IF DataShards > Cardinality(left(r)) THEN "failed"
                                     ELSE "sent"]
  /\ phase' = [phase EXCEPT ![k] = "done"]
  /\ UNCHANGED <<next, queue, canceled, drs, free, home, subVars, ctrVars, extVars>>

-----------------------------------------------------------------------------
Submit(k, b) ==
  \/ Attempt(k, b) \/ BlobberAccepts(k, b) \/ BlobberStale(k, b) \/ BlobberRefuses(k, b)
  \/ ConnectionClosed(k, b) \/ NoResponse(k, b) \/ HandleOK(k, b) \/ HandleLateOK(k, b)
  \/ HandleStale(k, b) \/ HandleError(k, b) \/ HandleDenied(k, b) \/ HandleBusy(k, b)
  \/ ReadSuccess(k, b) \/ WriteSuccess(k, b)

Prepare(k) == \E r \in Requests : PrepareFound(k, r) \/ PrepareError(k, r)
Process(k) == Prepare(k) \/ SendFree(k) \/ StartSubmitting(k) \/ Finish(k)

Call(r) == AddRequest(r) \/ RefuseRequest(r)

Next ==
  \/ \E r \in Requests : Call(r) \/ Cancel(r)
  \/ \E k \in Batches : Process(k)
  \/ \E k \in Batches, b \in Blobbers : Submit(k, b)
  \/ \E b \in Blobbers : OtherProcess(b)

Spec == Init /\ [][Next]_vars

\* The caller makes all its calls; goroutines run and every request to a blobber ends
\* within its timeout.
FairSpec ==
  /\ Spec
  /\ WF_vars(\E r \in Requests : Call(r))
  /\ \A k \in Batches :
       /\ WF_vars(Process(k))
       /\ \A b \in Blobbers : WF_vars(Submit(k, b))

-----------------------------------------------------------------------------
TypeOK ==
  /\ next \in 1 .. NRequests + 1
  /\ queue \subseteq Requests /\ canceled \subseteq Requests
  /\ st \in [Requests -> {"new", "refused", "queued", "ready", "skipped", "sent", "failed"}]
  /\ mask \in [Requests -> SUBSET Blobbers]
  /\ drs \in [Batches -> SUBSET Requests] /\ free \in BOOLEAN
  /\ phase \in [Batches -> {"none", "prepare", "submit", "done"}]
  /\ work \in [Batches -> [Blobbers -> {"none", "try", "sent", "accepted", "or", "done", "failed"}]]
  /\ tries \in [Batches -> [Blobbers -> 0 .. Retries]]
  /\ {successMask, raced} \subseteq [Batches -> SUBSET Blobbers]
  /\ {ctr, latest} \subseteq [Blobbers -> Nat]
  /\ holder \in [Blobbers -> Batches \union {None}]
  /\ skip \subseteq Blobbers
  /\ {blobberMap, counter, paid} \subseteq [Batches -> [Blobbers -> Nat]]

\* The client's counter never runs ahead of the blobber's: attempts are serialised by
\* the blobber's mutex (read_counter_ctr.go:21), so the counter is not set from an
\* answer and then incremented for a marker that answer already contains.
CounterNotAhead == \A b \in Blobbers : ctr[b] <= latest[b]

\* A request goes to downloadChan only with enough blobbers, each of which was paid
\* for all blocks of the batch (allocation.go:1194).
SentIsPaid ==
  ~free => \A k \in Batches : \A r \in drs[k] : st[r] = "sent" =>
    /\ Cardinality(mask[r]) >= DataShards
    /\ \A b \in mask[r] : paid[k][b] >= blobberMap[k][b]

\* The other way round: a blobber whose marker was accepted, and whose update of
\* successMask did not overlap with another goroutine's, stays with every request that
\* counted on it, and a request is given up only if it has too few of those
\* (allocation.go:1182, 1194).  Where updates did overlap a paid blobber is lost.
Kept(k) == {b \in Blobbers : work[k][b] = "done"} \ raced[k]
PaidIsKept ==
  [][\A k \in Batches : \A r \in drs[k] :
       st[r] = "ready" /\ st'[r] \in {"sent", "failed"} =>
         /\ mask[r] \intersect Kept(k) \subseteq mask'[r]
         /\ st'[r] = "failed" => Cardinality(mask[r] \intersect Kept(k)) < DataShards]_vars

\* A lost answer makes a batch pay again, but an attempt pays at most once, and only
\* attempts that were told to come back later do not count as one of its retries
\* (downloadworker.go:546).
PaidAtMostRetries ==
  \A k \in Batches, b \in Blobbers : paid[k][b] <= (Retries + busy) * blobberMap[k][b]

\* Every batch that was started reports each of its requests, as sent, failed or
\* skipped (allocation.go:1131): counted retries end and nobody waits for a mutex for
\* ever.  It is assumed that the blobbers say 429 or LockExists finitely often (MaxBusy,
\* whatever number): submitReadMarker retries those without counting, for as long as
\* they come (downloadworker.go:554).
BatchReports ==
  \A k \in Batches : phase[k] = "prepare" ~>
    (phase[k] = "done" /\ \A r \in drs[k] : st[r] \in {"sent", "failed", "skipped"})
=============================================================================
