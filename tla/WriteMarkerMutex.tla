--------------------------- MODULE WriteMarkerMutex ---------------------------
(***************************************************************************)
(* The write-marker lock of an allocation, zboxcore/sdk/writemarker_mutex. *)
(*                                                                         *)
(* Every writer (a MultiOperation, a ChunkedUpload) creates one            *)
(* WriteMarkerMutex, calls Lock, commits, and calls Unlock.  Lock first    *)
(* takes the lock of one lead blobber, then of the other blobbers of the   *)
(* writer's mask in parallel, and succeeds when consensusThresh of them    *)
(* said OK.  A goroutine then refreshes the locks until the writer's       *)
(* context ends.  Unlock releases the lead last.                           *)
(*                                                                         *)
(* A client c below is one writer with its own connection id.  Per client  *)
(* and blobber at most one lockBlobber goroutine is alive (Lock waits for  *)
(* its goroutines before the refresher starts, the refresher waits for     *)
(* each round), so lk[c][b] is the state of that goroutine and unl[c][b]   *)
(* of the UnlockBlobber goroutine.  slot[c][b] is the channel of capacity  *)
(* one, lockedBlobbers[b], both must fill first.  Requests travel in net:  *)
(* one whose sender gave up may still be served late, or get lost.         *)
(* holder[b] is the blobber's own lock record (external service).          *)
(***************************************************************************)
EXTENDS Integers, FiniteSets

CONSTANTS
  Clients,       \* writers of one allocation, each with its connection id
  NoClient,      \* the holder of a free lock
  N,             \* len(blobbers)
  Thresh,        \* consensus.consensusThresh
  AddConsensus,  \* the addConsensus argument of Lock
  MaxRetry,      \* attempts of a request answered 429 (3 in the code)
  LongCritical,  \* the writers that stay locked for the refresher's 30 seconds
  MaxLost,       \* bound: client/blobber pairs whose exchange may fail
  ExpireEarly    \* may the blobber drop a lock before its holder is finished

ASSUME MutexConstants ==
  /\ NoClient \notin Clients
  /\ N \in Nat \ {0}
  /\ AddConsensus \in Nat
  /\ Thresh \in Nat
  /\ MaxRetry \in Nat \ {0}
  /\ LongCritical \subseteq Clients
  /\ MaxLost \in Nat
  /\ ExpireEarly \in BOOLEAN

VARIABLES
  pc,         \* where the client is in Lock / critical section / Unlock
  mask,       \* *mask: the blobbers the client still works with
  lead,       \* leadBlobberIndex
  consensus,  \* consensus.consensus
  got,        \* history: the blobbers whose OK was counted by Lock
  slot,       \* lockedBlobbers[b]: "free", or who filled the channel
  lk,         \* the lockBlobber goroutine of each blobber
  unl,        \* the UnlockBlobber goroutine of each blobber
  tries,      \* the retry counter of the goroutine that holds the slot
  umask,      \* the mask argument of the deferred Unlock
  net,        \* requests on their way to a blobber
  holder,     \* per blobber, the connection that holds its lock
  lost        \* history: pairs one of whose exchanges failed

clientVars == <<pc, mask, lead, consensus, got, slot, lk, unl, tries, umask>>
vars == <<pc, mask, lead, consensus, got, slot, lk, unl, tries, umask,
          net, holder, lost>>

Blobbers == 0 .. N-1
LockReq(c, b) == <<"lock", c, b>>
UnlockReq(c, b) == <<"unlock", c, b>>
Requests == {"lock", "unlock"} \X Clients \X Blobbers

InLock     == {"lead", "others"}
InCritical == {"locked", "commit"}
Refreshing == {"locked", "commit", "unlock", "unlocked"}
Finished   == {"failed", "done"}

Init ==
  /\ pc = [c \in Clients |-> "idle"]
  /\ mask \in [Clients -> {m \in SUBSET Blobbers : Cardinality(m) + AddConsensus >= Thresh}]
  /\ lead = [c \in Clients |-> 0]
  /\ consensus = [c \in Clients |-> 0]
  /\ got = [c \in Clients |-> {}]
  /\ slot = [c \in Clients |-> [b \in Blobbers |-> "free"]]
  /\ lk = [c \in Clients |-> [b \in Blobbers |-> "none"]]
  /\ unl = [c \in Clients |-> [b \in Blobbers |-> "none"]]
  /\ tries = [c \in Clients |-> [b \in Blobbers |-> 0]]
  /\ umask = [c \in Clients |-> {}]
  /\ net = {}
  /\ holder = [b \in Blobbers |-> NoClient]
  /\ lost = {}

-----------------------------------------------------------------------------
(* lockBlobber                                                             *)

\* wg.Wait(): no lockBlobber goroutine of the client is running.
NoLocker(c) == \A b \in Blobbers : lk[c][b] = "none"

\* go lockBlobber(...) for every blobber of S.
SpawnLockers(c, S) ==
  lk' = [lk EXCEPT ![c] = [b \in Blobbers |-> IF b \in S THEN "start" ELSE lk[c][b]]]

\* The bounded adversary: the exchange of c with b may fail (again).
MayFail(c, b) == <<c, b>> \in lost \/ Cardinality(lost) < MaxLost
Fail(c, b) == MayFail(c, b) /\ lost' = lost \cup {<<c, b>>}

\* The deferred channel receive, and the deferred mask update on an error.
LockerExits(c, b) ==
  /\ lk' = [lk EXCEPT ![c][b] = "none"]
  /\ tries' = [tries EXCEPT ![c][b] = 0]
  /\ slot' = [slot EXCEPT ![c][b] = "free"]
LockerFails(c, b) ==
  /\ LockerExits(c, b)
  /\ mask' = [mask EXCEPT ![c] = @ \ {b}]

\* The context is done before the goroutine looks at it.
LockerSeesCancel(c, b) ==
  /\ lk[c][b] = "start"
  /\ pc[c] \in Finished
  /\ lk' = [lk EXCEPT ![c][b] = "none"]
  /\ UNCHANGED <<pc, mask, lead, consensus, got, slot, unl, tries, umask, net, holder, lost>>

\* The channel send succeeds and the first request goes out.
LockerSends(c, b) ==
  /\ lk[c][b] = "start"
  /\ slot[c][b] = "free"
  /\ slot' = [slot EXCEPT ![c][b] = "lock"]
  /\ lk' = [lk EXCEPT ![c][b] = "wait"]
  /\ net' = net \cup {LockReq(c, b)}
  /\ UNCHANGED <<pc, mask, lead, consensus, got, unl, tries, umask, holder, lost>>

\* Status OK: the goroutine of Lock calls consensus.Done(); the refresher counts
\* into a Consensus of its own.
LockerOK(c, b) ==
  /\ LockerExits(c, b)
  /\ IF pc[c] \in InLock
       THEN /\ consensus' = [consensus EXCEPT ![c] = @ + 1]
            /\ got' = [got EXCEPT ![c] = @ \cup {b}]
       ELSE UNCHANGED <<consensus, got>>
  /\ UNCHANGED mask

\* 429: sleep and send again; after MaxRetry of them the goroutine returns without
\* an error, so neither the consensus nor the mask changes.
LockerTooMany(c, b) ==
  /\ lk[c][b] = "wait"
  /\ LockReq(c, b) \in net
  /\ Fail(c, b)
  /\ IF tries[c][b] + 1 < MaxRetry
       THEN tries' = [tries EXCEPT ![c][b] = @ + 1] /\ UNCHANGED <<lk, slot, net>>
       ELSE LockerExits(c, b) /\ net' = net \ {LockReq(c, b)}
  /\ UNCHANGED <<pc, mask, lead, consensus, got, unl, umask, holder>>

\* Status Failed or any other answer; or none within the timeout, in which case
\* the request may still be in net.
LockerError(c, b) ==
  /\ lk[c][b] = "wait"
  /\ Fail(c, b)
  /\ LockerFails(c, b)
  /\ net' \in {net, net \ {LockReq(c, b)}}
  /\ UNCHANGED <<pc, lead, consensus, got, unl, umask, holder>>

-----------------------------------------------------------------------------
(* Lock                                                                    *)

\* Mutant: no lead blobber, all of the mask at once.
LockAllAtOnce(c) ==
  /\ pc[c] = "idle"
  /\ pc' = [pc EXCEPT ![c] = "others"]
  /\ consensus' = [consensus EXCEPT ![c] = AddConsensus]
  /\ SpawnLockers(c, mask[c])
  /\ UNCHANGED <<mask, lead, got, slot, unl, tries, umask, net, holder, lost>>

\* Mutant: the lead's OK is discounted in advance.
LockLeadDiscounted(c) ==
  /\ pc[c] = "idle"
  /\ pc' = [pc EXCEPT ![c] = "lead"]
  /\ consensus' = [consensus EXCEPT ![c] = AddConsensus - 1]
  /\ SpawnLockers(c, {lead[c]})
  /\ UNCHANGED <<mask, lead, got, slot, unl, tries, umask, net, holder, lost>>

\* Lock: reset the consensus, lock the first lead blobber.
LockLead(c) ==
  /\ pc[c] = "idle"
  /\ pc' = [pc EXCEPT ![c] = "lead"]
  /\ consensus' = [consensus EXCEPT ![c] = AddConsensus]
  /\ SpawnLockers(c, {lead[c]})
  /\ UNCHANGED <<mask, lead, got, slot, unl, tries, umask, net, holder, lost>>

LeadLocked(c) == consensus[c] - AddConsensus = 1

\* The lead did not lock: try the next blobber, whether or not it is in the mask.
NextLead(c) ==
  /\ pc[c] = "lead" /\ NoLocker(c) /\ ~LeadLocked(c)
  /\ lead[c] + 1 < N
  /\ lead' = [lead EXCEPT ![c] = @ + 1]
  /\ SpawnLockers(c, {lead[c] + 1})
  /\ UNCHANGED <<pc, mask, consensus, got, slot, unl, tries, umask, net, holder, lost>>

\* No blobber is left, or methodCtx is over: return the error, unlock nothing.
LeadFails(c) ==
  /\ pc[c] = "lead" /\ NoLocker(c) /\ ~LeadLocked(c)
  /\ pc' = [pc EXCEPT ![c] = "failed"]
  /\ UNCHANGED <<mask, lead, consensus, got, slot, lk, unl, tries, umask, net, holder, lost>>

\* methodCtx (2 minutes) ends while the lead's lock is still pending.
LeadDeadline(c) ==
  /\ pc[c] = "lead"
  /\ lk[c][lead[c]] = "wait"
  /\ Fail(c, lead[c])
  /\ LockerFails(c, lead[c])
  /\ pc' = [pc EXCEPT ![c] = "failed"]
  /\ UNCHANGED <<lead, consensus, got, unl, umask, net, holder>>

\* Mutant: the lead is locked, and counted, a second time.
LockOthersAndLead(c) ==
  /\ pc[c] = "lead" /\ NoLocker(c) /\ LeadLocked(c)
  /\ pc' = [pc EXCEPT ![c] = "others"]
  /\ SpawnLockers(c, mask[c])
  /\ UNCHANGED <<mask, lead, consensus, got, slot, unl, tries, umask, net, holder, lost>>

\* The lead is locked: lock the other blobbers of the mask in parallel.
LockOthers(c) ==
  /\ pc[c] = "lead" /\ NoLocker(c) /\ LeadLocked(c)
  /\ pc' = [pc EXCEPT ![c] = "others"]
  /\ SpawnLockers(c, mask[c] \ {lead[c]})
  /\ UNCHANGED <<mask, lead, consensus, got, slot, unl, tries, umask, net, holder, lost>>

\* Mutant: one lock short of the threshold is enough.
IsConsensusOkOneShort(c) == consensus[c] >= Thresh - 1

IsConsensusOk(c) == consensus[c] >= Thresh

\* Lock returns nil and starts the refresher.
LockReturns(c) ==
  /\ pc[c] = "others" /\ NoLocker(c) /\ IsConsensusOk(c)
  /\ pc' = [pc EXCEPT ![c] = "locked"]
  /\ UNCHANGED <<mask, lead, consensus, got, slot, lk, unl, tries, umask, net, holder, lost>>

\* The refresher's 30 seconds are over: lockBlobber for every blobber of *mask.
Refresh(c) ==
  /\ c \in LongCritical
  /\ pc[c] \in Refreshing
  /\ NoLocker(c)
  /\ SpawnLockers(c, mask[c])
  /\ UNCHANGED <<pc, mask, lead, consensus, got, slot, unl, tries, umask, net, holder, lost>>

-----------------------------------------------------------------------------
(* Unlock                                                                  *)

Released == {"released", "gaveup"}

\* Unlock(m): UnlockBlobber for every blobber of m but the lead.
UnlockOthers(c, m) ==
  unl' = [unl EXCEPT ![c] =
    [b \in Blobbers |-> IF b \in m \ {lead[c]} THEN "start" ELSE "none"]]

\* Too few locks: Lock unlocks what it has and returns an error.
LockAborts(c) ==
  /\ pc[c] = "others" /\ NoLocker(c) /\ ~IsConsensusOk(c)
  /\ pc' = [pc EXCEPT ![c] = "abort"]
  /\ UnlockOthers(c, mask[c])
  /\ UNCHANGED <<mask, lead, consensus, got, slot, lk, tries, umask, net, holder, lost>>

\* defer Unlock(mo.operationMask): the argument is read before the commit starts.
DeferUnlock(c) ==
  /\ pc[c] = "locked"
  /\ pc' = [pc EXCEPT ![c] = "commit"]
  /\ umask' = [umask EXCEPT ![c] = mask[c]]
  /\ UNCHANGED <<mask, lead, consensus, got, slot, lk, unl, tries, net, holder, lost>>

\* The deferred call, or the direct one on the error and repair paths of Process.
CallUnlock(c) ==
  /\ pc[c] \in InCritical
  /\ UnlockOthers(c, IF pc[c] = "commit" THEN umask[c] ELSE mask[c])
  /\ umask' = [umask EXCEPT ![c] = {}]
  /\ pc' = [pc EXCEPT ![c] = "unlock"]
  /\ UNCHANGED <<mask, lead, consensus, got, slot, lk, tries, net, holder, lost>>

\* Mutant: the channel is emptied as soon as the request is sent.
UnlockerFreesChannel(c, b) ==
  /\ unl[c][b] = "start"
  /\ slot[c][b] = "free"
  /\ unl' = [unl EXCEPT ![c][b] = "wait"]
  /\ net' = net \cup {UnlockReq(c, b)}
  /\ UNCHANGED <<pc, mask, lead, consensus, got, slot, lk, tries, umask, holder, lost>>

\* UnlockBlobber fills the channel, and nobody empties it again.
UnlockerSends(c, b) ==
  /\ unl[c][b] = "start"
  /\ slot[c][b] = "free"
  /\ slot' = [slot EXCEPT ![c][b] = "unlock"]
  /\ unl' = [unl EXCEPT ![c][b] = "wait"]
  /\ net' = net \cup {UnlockReq(c, b)}
  /\ UNCHANGED <<pc, mask, lead, consensus, got, lk, tries, umask, holder, lost>>

\* 429 or a closed connection: send again, MaxRetry times in all.
UnlockerRetries(c, b) ==
  /\ unl[c][b] = "wait"
  /\ Fail(c, b)
  /\ tries' = [tries EXCEPT ![c][b] = @ + 1]
  /\ IF tries[c][b] + 1 < MaxRetry
       THEN UNCHANGED <<unl, net>>
       ELSE unl' = [unl EXCEPT ![c][b] = "gaveup"] /\ net' = net \ {UnlockReq(c, b)}
  /\ UNCHANGED <<pc, mask, lead, consensus, got, slot, lk, umask, holder>>

\* An error or a timeout: UnlockBlobber returns, the request may still arrive.
UnlockerError(c, b) ==
  /\ unl[c][b] = "wait"
  /\ Fail(c, b)
  /\ unl' = [unl EXCEPT ![c][b] = "gaveup"]
  /\ UNCHANGED <<pc, mask, lead, consensus, got, slot, lk, tries, umask, net, holder>>

\* Mutant: the lead is unlocked without waiting for the others.
UnlockLeadAtOnce(c) ==
  /\ pc[c] \in {"unlock", "abort"}
  /\ unl[c][lead[c]] = "none"
  /\ unl' = [unl EXCEPT ![c][lead[c]] = "start"]
  /\ UNCHANGED <<pc, mask, lead, consensus, got, slot, lk, tries, umask, net, holder, lost>>

\* wg.Wait(), then the lead blobber, in the mask or not.
UnlockLead(c) ==
  /\ pc[c] \in {"unlock", "abort"}
  /\ unl[c][lead[c]] = "none"
  /\ \A b \in Blobbers \ {lead[c]} : unl[c][b] \in Released \cup {"none"}
  /\ unl' = [unl EXCEPT ![c][lead[c]] = "start"]
  /\ UNCHANGED <<pc, mask, lead, consensus, got, slot, lk, tries, umask, net, holder, lost>>

\* The unlock of the lead returned, confirmed or not.
UnlockReturns(c) ==
  /\ pc[c] \in {"unlock", "abort"}
  /\ unl[c][lead[c]] \in Released
  /\ pc' = [pc EXCEPT ![c] = IF pc[c] = "abort" THEN "failed" ELSE "unlocked"]
  /\ UNCHANGED <<mask, lead, consensus, got, slot, lk, unl, tries, umask, net, holder, lost>>

\* Process returns; its deferred ctxCncl ends the context of the refresher.
Cancel(c) ==
  /\ pc[c] = "unlocked"
  /\ pc' = [pc EXCEPT ![c] = "done"]
  /\ UNCHANGED <<mask, lead, consensus, got, slot, lk, unl, tries, umask, net, holder, lost>>

-----------------------------------------------------------------------------
(* The blobbers and the network (external)                                 *)

\* The lock record is free or already this connection's.
Grants(c, b) == LockReq(c, b) \in net /\ holder[b] \in {NoClient, c}

\* It becomes (or stays) this connection's, and the answer is OK.
ServeLock(c, b) ==
  /\ Grants(c, b)
  /\ net' = net \ {LockReq(c, b)}
  /\ holder' = [holder EXCEPT ![b] = c]
  /\ lk[c][b] = "wait"
  /\ LockerOK(c, b)
  /\ UNCHANGED <<pc, lead, unl, umask, lost>>

\* The same, but the answer finds nobody waiting for it or is lost.
ServeLockUnheard(c, b) ==
  /\ Grants(c, b)
  /\ net' = net \ {LockReq(c, b)}
  /\ holder' = [holder EXCEPT ![b] = c]
  /\ Fail(c, b)
  /\ UNCHANGED clientVars

\* Another connection holds it: Pending.  lockBlobber sleeps and asks again, without
\* a bound (retry-- undoes the loop's retry++), so the request is back in net.
ServePending(c, b) ==
  /\ LockReq(c, b) \in net
  /\ ~Grants(c, b)
  /\ lk[c][b] = "wait"
  /\ UNCHANGED vars

\* An unlock only releases the lock of its own connection.
ServeUnlock(c, b) ==
  /\ UnlockReq(c, b) \in net
  /\ net' = net \ {UnlockReq(c, b)}
  /\ holder' = IF holder[b] = c THEN [holder EXCEPT ![b] = NoClient] ELSE holder
  /\ unl' = IF unl[c][b] = "wait" THEN [unl EXCEPT ![c][b] = "released"] ELSE unl
  /\ UNCHANGED <<pc, mask, lead, consensus, got, slot, lk, tries, umask, lost>>

\* A request nobody waits for any more never arrives.
Drop(c, b) ==
  /\ \/ LockReq(c, b) \in net /\ lk[c][b] # "wait" /\ net' = net \ {LockReq(c, b)}
     \/ UnlockReq(c, b) \in net /\ unl[c][b] # "wait" /\ net' = net \ {UnlockReq(c, b)}
  /\ UNCHANGED <<clientVars, holder, lost>>

\* The blobber forgets a lock that is not refreshed: one its client left behind,
\* and with ExpireEarly also one whose client is still busy (Lock does not refresh,
\* and a refresh round that waits for one blobber does not refresh the others).
Expire(b) ==
  /\ holder[b] # NoClient
  /\ \/ pc[holder[b]] \in Finished \cup {"unlocked"}
     \/ ExpireEarly
  /\ holder' = [holder EXCEPT ![b] = NoClient]
  /\ UNCHANGED <<clientVars, net, lost>>

-----------------------------------------------------------------------------
Locker(c, b) ==
  \/ LockerSeesCancel(c, b) \/ LockerSends(c, b)
  \/ LockerTooMany(c, b) \/ LockerError(c, b)
Unlocker(c, b) == UnlockerSends(c, b) \/ UnlockerRetries(c, b) \/ UnlockerError(c, b)
Writer(c) ==
  \/ LockLead(c) \/ NextLead(c) \/ LeadFails(c) \/ LeadDeadline(c) \/ LockOthers(c)
  \/ LockReturns(c) \/ LockAborts(c) \/ DeferUnlock(c) \/ CallUnlock(c)
  \/ UnlockLead(c) \/ UnlockReturns(c) \/ Cancel(c)
Service(c, b) ==
  \/ ServeLock(c, b) \/ ServeLockUnheard(c, b) \/ ServePending(c, b)
  \/ ServeUnlock(c, b) \/ Drop(c, b)

\* Every writer returned and nothing is left to expire.
Terminated ==
  /\ \A c \in Clients : pc[c] \in Finished
  /\ UNCHANGED vars

Next ==
  \/ \E c \in Clients : Writer(c) \/ Refresh(c)
  \/ \E c \in Clients, b \in Blobbers : Locker(c, b) \/ Unlocker(c, b) \/ Service(c, b)
  \/ \E b \in Blobbers : Expire(b)
  \/ Terminated

Spec == Init /\ [][Next]_vars

\* Goroutines that can run do run, a blobber answers a request that reached it,
\* and an expired lock is dropped.  Failures, refreshes and deadlines have none.
Fairness ==
  /\ \A c \in Clients :
       /\ WF_vars(LockLead(c) \/ NextLead(c) \/ LeadFails(c) \/ LockOthers(c)
                    \/ LockReturns(c) \/ LockAborts(c) \/ CallUnlock(c)
                    \/ UnlockLead(c) \/ UnlockReturns(c) \/ Cancel(c))
       /\ \A b \in Blobbers :
            /\ WF_vars(LockerSends(c, b))
            /\ WF_vars(LockReq(c, b) \notin net /\ LockerError(c, b))
            /\ SF_vars(UnlockerSends(c, b))
            /\ WF_vars(ServeLock(c, b))
            /\ WF_vars(ServeUnlock(c, b))
  /\ \A b \in Blobbers : WF_vars(Expire(b))

FairSpec == Spec /\ Fairness

-----------------------------------------------------------------------------
LockerStates   == {"none", "start", "wait"}
UnlockerStates == {"none", "start", "wait", "released", "gaveup"}
PCs == {"idle", "lead", "others", "locked", "commit", "unlock", "abort",
        "unlocked", "failed", "done"}

\* The type invariant.
TypeOK ==
  /\ pc \in [Clients -> PCs]
  /\ mask \in [Clients -> SUBSET Blobbers]
  /\ lead \in [Clients -> Blobbers]
  /\ consensus \in [Clients -> Nat]
  /\ got \in [Clients -> SUBSET Blobbers]
  /\ slot \in [Clients -> [Blobbers -> {"free", "lock", "unlock"}]]
  /\ lk \in [Clients -> [Blobbers -> LockerStates]]
  /\ unl \in [Clients -> [Blobbers -> UnlockerStates]]
  /\ tries \in [Clients -> [Blobbers -> Nat]]
  /\ umask \in [Clients -> SUBSET Blobbers]
  /\ net \in SUBSET Requests
  /\ holder \in [Blobbers -> Clients \cup {NoClient}]
  /\ lost \in SUBSET (Clients \X Blobbers)

\* Any two lock quorums share a blobber.
QuorumsIntersect == 2 * (Thresh - AddConsensus) > N

\* Two writers are never between a successful Lock and their Unlock at the same
\* time, although each may have used another lead blobber and requests may be
\* answered late (Lock, multi_operation_worker.go Process).
MutualExclusion ==
  \A c, d \in Clients : pc[c] \in InCritical /\ pc[d] \in InCritical => c = d

\* Lock counts a blobber once: the lead is not counted a second time when the
\* others are locked, nor by a refresh.
CountsDistinctBlobbers ==
  \A c \in Clients : pc[c] # "idle" => consensus[c] = AddConsensus + Cardinality(got[c])

\* As long as the writer has not started to unlock, each lock it counted is its own.
CountedLocksAreHeld ==
  \A c \in Clients : pc[c] \in InLock \cup InCritical =>
    \A b \in got[c] : holder[b] = c

\* From the moment UnlockBlobber sends its request, no refresh of the same writer
\* sends or awaits a lock request for that blobber: the filled channel stops it.
NoRelockAfterUnlock ==
  \A c \in Clients, b \in Blobbers :
    unl[c][b] \in {"wait", "released", "gaveup"} => lk[c][b] \in {"none", "start"}

\* The lead is released last: once its unlock begins the writer holds no other
\* lock, and after Unlock not even the lead's, unless an exchange with that
\* blobber failed.
LeadUnlockedLast ==
  \A c \in Clients, b \in Blobbers :
    /\ holder[b] = c
    /\ \/ unl[c][lead[c]] # "none" /\ b # lead[c]
       \/ pc[c] \in Finished \cup {"unlocked"}
    => <<c, b>> \in lost

\* Two writers lead with different blobbers, which takes a failed exchange.
LeadsDiffer == \E c, d \in Clients : lead[c] # lead[d]

\* Every writer gets out of Lock and Unlock: nobody waits for ever for a lock
\* another writer holds.  The one exception is the cycle the common lead is there to
\* prevent: a failed exchange made writers lead with different blobbers, and each
\* may then wait for the lock the other holds until the blobber drops it.
LockTerminates == \A c \in Clients : <>(pc[c] \in Finished \/ LeadsDiffer)
=============================================================================
