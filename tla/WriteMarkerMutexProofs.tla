----------------------- MODULE WriteMarkerMutexProofs -----------------------
(***************************************************************************)
(* Proofs about WriteMarkerMutex for every number of writers and blobbers. *)
(***************************************************************************)
EXTENDS MutexRefinement, FiniteSetTheorems, TLAPS

\* Updating one entry of a client/blobber table keeps its type.
LEMMA UpdateEntry ==
  ASSUME NEW S, NEW f \in [Clients -> [Blobbers -> S]],
         NEW c \in Clients, NEW b \in Blobbers, NEW v \in S
  PROVE  [f EXCEPT ![c][b] = v] \in [Clients -> [Blobbers -> S]]
  OBVIOUS

\* A writer that has not called Lock yet is well formed.
LEMMA TypeInit == Init => TypeOK
  BY MutexConstants DEF Init, TypeOK, Blobbers, PCs, LockerStates, UnlockerStates

\* Every operation of the mutex, its refresher and the lock service keeps the types.
LEMMA TypeNext == TypeOK /\ [Next]_vars => TypeOK'
  <1> SUFFICES ASSUME TypeOK, [Next]_vars PROVE TypeOK'
    OBVIOUS
  <1> USE MutexConstants DEF TypeOK, PCs, LockerStates, UnlockerStates
  <1>1. ASSUME NEW c \in Clients, Writer(c) PROVE TypeOK'
    <2>1. CASE LockLead(c)
      BY <2>1 DEF LockLead, SpawnLockers
    <2>2. CASE NextLead(c)
      <3>1. lead[c] + 1 \in Blobbers
        BY <2>2 DEF NextLead, Blobbers
      <3>. QED  BY <2>2, <3>1 DEF NextLead, SpawnLockers
    <2>3. CASE LeadFails(c)
      BY <2>3 DEF LeadFails
    <2>4. CASE LeadDeadline(c)
      BY <2>4, UpdateEntry DEF LeadDeadline, LockerFails, LockerExits, Fail
    <2>5. CASE LockOthers(c)
      BY <2>5 DEF LockOthers, SpawnLockers
    <2>6. CASE LockReturns(c)
      BY <2>6 DEF LockReturns
    <2>7. CASE LockAborts(c)
      BY <2>7 DEF LockAborts, UnlockOthers
    <2>8. CASE DeferUnlock(c)
      BY <2>8 DEF DeferUnlock
    <2>9. CASE CallUnlock(c)
      BY <2>9 DEF CallUnlock, UnlockOthers
    <2>10. CASE UnlockLead(c)
      BY <2>10 DEF UnlockLead
    <2>11. CASE UnlockReturns(c)
      BY <2>11 DEF UnlockReturns
    <2>12. CASE Cancel(c)
      BY <2>12 DEF Cancel
    <2>. QED  BY <1>1, <2>1, <2>2, <2>3, <2>4, <2>5, <2>6, <2>7, <2>8, <2>9, <2>10,
                 <2>11, <2>12 DEF Writer
  <1>2. ASSUME NEW c \in Clients, Refresh(c) PROVE TypeOK'
    BY <1>2 DEF Refresh, SpawnLockers
  <1>3. ASSUME NEW c \in Clients, NEW b \in Blobbers, Locker(c, b) PROVE TypeOK'
    <2>1. CASE LockerSeesCancel(c, b)
      BY <2>1 DEF LockerSeesCancel
    <2>2. CASE LockerSends(c, b)
      <3>1. slot' \in [Clients -> [Blobbers -> {"free", "lock", "unlock"}]]
        BY <2>2, UpdateEntry DEF LockerSends
      <3>2. lk' \in [Clients -> [Blobbers -> LockerStates]]
        BY <2>2, UpdateEntry DEF LockerSends
      <3>3. net' \in SUBSET Requests
        BY <2>2 DEF LockerSends, LockReq, Requests
      <3>. QED  BY <2>2, <3>1, <3>2, <3>3 DEF LockerSends
    <2>3. CASE LockerTooMany(c, b)
      <3>1. tries[c][b] + 1 \in Nat
        OBVIOUS
      <3>2. /\ lk' \in [Clients -> [Blobbers -> LockerStates]]
            /\ tries' \in [Clients -> [Blobbers -> Nat]]
            /\ slot' \in [Clients -> [Blobbers -> {"free", "lock", "unlock"}]]
        <4>1. CASE tries[c][b] + 1 < MaxRetry
          <5>1. /\ tries' = [tries EXCEPT ![c][b] = tries[c][b] + 1]
                /\ lk' = lk /\ slot' = slot
            BY <2>3, <4>1 DEF LockerTooMany
          <5>2. tries' \in [Clients -> [Blobbers -> Nat]]
            BY <3>1, <5>1, UpdateEntry
          <5>. QED  BY <5>1, <5>2
        <4>2. CASE ~(tries[c][b] + 1 < MaxRetry)
          <5>1. /\ tries' = [tries EXCEPT ![c][b] = 0]
                /\ lk' = [lk EXCEPT ![c][b] = "none"]
                /\ slot' = [slot EXCEPT ![c][b] = "free"]
            BY <2>3, <4>2 DEF LockerTooMany, LockerExits
          <5>2. tries' \in [Clients -> [Blobbers -> Nat]]
            BY <5>1, UpdateEntry
          <5>. QED  BY <5>1, <5>2, UpdateEntry
        <4>. QED  BY <4>1, <4>2
      <3>. QED  BY <2>3, <3>2 DEF LockerTooMany, Fail
    <2>4. CASE LockerError(c, b)
      BY <2>4, UpdateEntry DEF LockerError, LockerFails, LockerExits, Fail
    <2>. QED  BY <1>3, <2>1, <2>2, <2>3, <2>4 DEF Locker
  <1>4. ASSUME NEW c \in Clients, NEW b \in Blobbers, Unlocker(c, b) PROVE TypeOK'
    <2>1. CASE UnlockerSends(c, b)
      <3>1. /\ unl' \in [Clients -> [Blobbers -> UnlockerStates]]
            /\ slot' \in [Clients -> [Blobbers -> {"free", "lock", "unlock"}]]
        BY <2>1, UpdateEntry DEF UnlockerSends
      <3>. QED  BY <2>1, <3>1 DEF UnlockerSends, UnlockReq, Requests
    <2>2. CASE UnlockerRetries(c, b)
      <3>1. tries[c][b] + 1 \in Nat
        OBVIOUS
      <3>2. /\ unl' \in [Clients -> [Blobbers -> UnlockerStates]]
            /\ tries' \in [Clients -> [Blobbers -> Nat]]
        <4>1. tries' \in [Clients -> [Blobbers -> Nat]]
          <5>1. tries' = [tries EXCEPT ![c][b] = tries[c][b] + 1]
            BY <2>2 DEF UnlockerRetries
          <5>. QED  BY <3>1, <5>1, UpdateEntry
        <4>2. unl' \in [Clients -> [Blobbers -> UnlockerStates]]
          <5>1. unl' = unl \/ unl' = [unl EXCEPT ![c][b] = "gaveup"]
            BY <2>2 DEF UnlockerRetries
          <5>2. [unl EXCEPT ![c][b] = "gaveup"] \in [Clients -> [Blobbers -> UnlockerStates]]
            BY UpdateEntry
          <5>. QED  BY <5>1, <5>2
        <4>. QED  BY <4>1, <4>2
      <3>. QED  BY <2>2, <3>2 DEF UnlockerRetries, Fail
    <2>3. CASE UnlockerError(c, b)
      <3>1. unl' \in [Clients -> [Blobbers -> UnlockerStates]]
        BY <2>3, UpdateEntry DEF UnlockerError
      <3>. QED  BY <2>3, <3>1 DEF UnlockerError, Fail
    <2>. QED  BY <1>4, <2>1, <2>2, <2>3 DEF Unlocker
  <1>5. ASSUME NEW c \in Clients, NEW b \in Blobbers, Service(c, b) PROVE TypeOK'
    <2>1. CASE ServeLock(c, b)
      <3>1. /\ lk' \in [Clients -> [Blobbers -> LockerStates]]
            /\ tries' \in [Clients -> [Blobbers -> Nat]]
            /\ slot' \in [Clients -> [Blobbers -> {"free", "lock", "unlock"}]]
        <4>1. /\ tries' = [tries EXCEPT ![c][b] = 0]
              /\ lk' = [lk EXCEPT ![c][b] = "none"]
              /\ slot' = [slot EXCEPT ![c][b] = "free"]
          BY <2>1 DEF ServeLock, LockerOK, LockerExits
        <4>2. tries' \in [Clients -> [Blobbers -> Nat]]
          BY <4>1, UpdateEntry
        <4>. QED  BY <4>1, <4>2, UpdateEntry
      <3>2. /\ consensus' \in [Clients -> Nat]
            /\ got' \in [Clients -> SUBSET Blobbers]
        <4>1. CASE pc[c] \in InLock
          <5>1. /\ consensus' = [consensus EXCEPT ![c] = consensus[c] + 1]
                /\ got' = [got EXCEPT ![c] = got[c] \cup {b}]
            BY <2>1, <4>1 DEF ServeLock, LockerOK
          <5>2. consensus' \in [Clients -> Nat]
            BY <5>1
          <5>3. got' \in [Clients -> SUBSET Blobbers]
            BY <5>1
          <5>. QED  BY <5>2, <5>3
        <4>2. CASE pc[c] \notin InLock
          BY <2>1, <4>2 DEF ServeLock, LockerOK
        <4>. QED  BY <4>1, <4>2
      <3>. QED  BY <2>1, <3>1, <3>2 DEF ServeLock, LockerOK
    <2>2. CASE ServeLockUnheard(c, b)
      BY <2>2 DEF ServeLockUnheard, Fail, clientVars
    <2>3. CASE ServePending(c, b)
      BY <2>3 DEF ServePending, vars
    <2>4. CASE ServeUnlock(c, b)
      BY <2>4, UpdateEntry DEF ServeUnlock
    <2>5. CASE Drop(c, b)
      BY <2>5 DEF Drop, clientVars
    <2>. QED  BY <1>5, <2>1, <2>2, <2>3, <2>4, <2>5 DEF Service
  <1>6. ASSUME NEW b \in Blobbers, Expire(b) PROVE TypeOK'
    BY <1>6 DEF Expire, clientVars
  <1>7. CASE Terminated
    BY <1>7 DEF Terminated, vars
  <1>8. CASE UNCHANGED vars
    BY <1>8 DEF vars
  <1>. QED  BY <1>1, <1>2, <1>3, <1>4, <1>5, <1>6, <1>7, <1>8 DEF Next

\* The type invariant holds for every number of writers and blobbers: the lead index
\* of Lock stays in range and the consensus counter is never negative.
THEOREM TypeCorrect == Spec => []TypeOK
  BY TypeInit, TypeNext, PTL DEF Spec

-----------------------------------------------------------------------------
(***************************************************************************)
(* Mutual exclusion.  A writer enters its critical section with Thresh     *)
(* counted locks; the inductive invariant says that what it counted are    *)
(* distinct blobbers whose locks it still holds, so two writers inside     *)
(* would share a blobber.                                                  *)
(***************************************************************************)

Early == {"idle", "lead", "others", "locked", "commit"}

\* No UnlockBlobber goroutine and no unlock request before Unlock is called.
UnlockNotBegun ==
  \A c \in Clients, b \in Blobbers : pc[c] \in Early =>
    unl[c][b] = "none" /\ UnlockReq(c, b) \notin net

\* A lockBlobber goroutine of Lock works on a blobber that is not counted yet, and
\* before the others are locked only the lead can have one or be counted.
LockersUncounted ==
  \A c \in Clients :
    /\ pc[c] = "idle" => got[c] = {} /\ \A b \in Blobbers : lk[c][b] = "none"
    /\ pc[c] = "lead" => /\ got[c] \subseteq {lead[c]}
                         /\ \A b \in Blobbers : b # lead[c] => lk[c][b] = "none"
    /\ pc[c] \in InLock => \A b \in Blobbers : lk[c][b] # "none" => b \notin got[c]

EnoughCounted == \A c \in Clients : pc[c] \in InCritical => consensus[c] >= Thresh

IndInv ==
  /\ TypeOK
  /\ UnlockNotBegun
  /\ LockersUncounted
  /\ CountsDistinctBlobbers
  /\ CountedLocksAreHeld
  /\ EnoughCounted

\* The counted blobbers are a finite set.
LEMMA CountedFinite ==
  ASSUME TypeOK, NEW c \in Clients
  PROVE  IsFiniteSet(got[c])
  <1>1. IsFiniteSet(Blobbers)
    BY MutexConstants, FS_Interval DEF Blobbers
  <1>. QED  BY <1>1, FS_Subset DEF TypeOK

\* Nothing is counted before Lock.
LEMMA IndInit == Init => IndInv
  <1> SUFFICES ASSUME Init PROVE IndInv
    OBVIOUS
  <1>1. TypeOK
    BY TypeInit
  <1>2. UnlockNotBegun /\ LockersUncounted
    BY DEF Init, UnlockNotBegun, LockersUncounted, InLock
  <1>3. CountsDistinctBlobbers /\ CountedLocksAreHeld /\ EnoughCounted
    BY DEF Init, CountsDistinctBlobbers, CountedLocksAreHeld, EnoughCounted, InLock, InCritical
  <1>. QED  BY <1>1, <1>2, <1>3 DEF IndInv

\* The steps of a writer through Lock and Unlock.
LEMMA IndWriter ==
  ASSUME IndInv, TypeOK', NEW c \in Clients, Writer(c)
  PROVE  IndInv'
  <1> USE DEF IndInv, InLock, InCritical, Early
  <1>1. CASE LockLead(c)
    <2>1. UnlockNotBegun'
      BY <1>1 DEF LockLead, UnlockNotBegun, TypeOK, PCs
    <2>2. LockersUncounted'
      BY <1>1 DEF LockLead, SpawnLockers, LockersUncounted, TypeOK, PCs
    <2>3. CountsDistinctBlobbers'
      <3>1. got'[c] = {} /\ consensus'[c] = AddConsensus
        BY <1>1 DEF LockLead, LockersUncounted, TypeOK
      <3>2. Cardinality(got'[c]) = 0
        BY <3>1, FS_EmptySet
      <3>3. consensus'[c] = AddConsensus + Cardinality(got'[c])
        BY <3>1, <3>2, MutexConstants
      <3>. QED  BY <1>1, <3>3 DEF LockLead, CountsDistinctBlobbers, TypeOK
    <2>4. CountedLocksAreHeld' /\ EnoughCounted'
      BY <1>1 DEF LockLead, LockersUncounted, CountedLocksAreHeld, EnoughCounted, TypeOK, PCs
    <2>. QED  BY <2>1, <2>2, <2>3, <2>4
  <1>2. CASE NextLead(c)
    <2>1. got[c] = {}
      <3>1. CASE got[c] = {lead[c]}
        <4>1. Cardinality(got[c]) = 1
          BY <3>1, FS_Singleton
        <4>2. consensus[c] - AddConsensus = 1
          BY <1>2, <4>1, MutexConstants DEF NextLead, CountsDistinctBlobbers
        <4>. QED  BY <1>2, <4>2 DEF NextLead, LeadLocked
      <3>. QED  BY <1>2, <3>1 DEF NextLead, LockersUncounted
    <2>2. LockersUncounted'
      BY <1>2, <2>1 DEF NextLead, NoLocker, SpawnLockers, LockersUncounted, TypeOK, PCs
    <2>. QED  BY <1>2, <2>2 DEF NextLead, UnlockNotBegun, CountsDistinctBlobbers,
                CountedLocksAreHeld, EnoughCounted
  <1>3. CASE LeadFails(c)
    BY <1>3 DEF LeadFails, UnlockNotBegun, LockersUncounted, CountsDistinctBlobbers,
       CountedLocksAreHeld, EnoughCounted, TypeOK, PCs
  <1>4. CASE LeadDeadline(c)
    <2>1. LockersUncounted'
      BY <1>4 DEF LeadDeadline, LockerFails, LockerExits, LockersUncounted, TypeOK, PCs
    <2>. QED  BY <1>4, <2>1 DEF LeadDeadline, UnlockNotBegun, CountsDistinctBlobbers,
                CountedLocksAreHeld, EnoughCounted, TypeOK, PCs
  <1>5. CASE LockOthers(c)
    <2>1. LockersUncounted'
      BY <1>5 DEF LockOthers, NoLocker, SpawnLockers, LockersUncounted, TypeOK, PCs
    <2>. QED  BY <1>5, <2>1 DEF LockOthers, UnlockNotBegun, CountsDistinctBlobbers,
                CountedLocksAreHeld, EnoughCounted, TypeOK, PCs
  <1>6. CASE LockReturns(c)
    BY <1>6 DEF LockReturns, IsConsensusOk, UnlockNotBegun, LockersUncounted,
       CountsDistinctBlobbers, CountedLocksAreHeld, EnoughCounted, TypeOK, PCs
  <1>7. CASE LockAborts(c)
    BY <1>7 DEF LockAborts, UnlockOthers, UnlockNotBegun, LockersUncounted,
       CountsDistinctBlobbers, CountedLocksAreHeld, EnoughCounted, TypeOK, PCs
  <1>8. CASE DeferUnlock(c)
    BY <1>8 DEF DeferUnlock, UnlockNotBegun, LockersUncounted,
       CountsDistinctBlobbers, CountedLocksAreHeld, EnoughCounted, TypeOK, PCs
  <1>9. CASE CallUnlock(c)
    BY <1>9 DEF CallUnlock, UnlockOthers, UnlockNotBegun, LockersUncounted,
       CountsDistinctBlobbers, CountedLocksAreHeld, EnoughCounted, TypeOK, PCs
  <1>10. CASE UnlockLead(c)
    BY <1>10 DEF UnlockLead, UnlockNotBegun, LockersUncounted,
       CountsDistinctBlobbers, CountedLocksAreHeld, EnoughCounted, TypeOK, PCs
  <1>11. CASE UnlockReturns(c)
    BY <1>11 DEF UnlockReturns, UnlockNotBegun, LockersUncounted,
       CountsDistinctBlobbers, CountedLocksAreHeld, EnoughCounted, TypeOK, PCs
  <1>12. CASE Cancel(c)
    BY <1>12 DEF Cancel, UnlockNotBegun, LockersUncounted,
       CountsDistinctBlobbers, CountedLocksAreHeld, EnoughCounted, TypeOK, PCs
  <1>. QED  BY <1>1, <1>2, <1>3, <1>4, <1>5, <1>6, <1>7, <1>8, <1>9, <1>10, <1>11, <1>12
            DEF Writer

\* The steps of the goroutines: none of them counts a blobber.
LEMMA IndGoroutine ==
  ASSUME IndInv, TypeOK', NEW c \in Clients, NEW b \in Blobbers,
         Locker(c, b) \/ Unlocker(c, b)
  PROVE  IndInv'
  <1> USE DEF IndInv, InLock, InCritical, Early
  <1>1. CASE LockerSeesCancel(c, b)
    BY <1>1 DEF LockerSeesCancel, UnlockNotBegun, LockersUncounted,
       CountsDistinctBlobbers, CountedLocksAreHeld, EnoughCounted, TypeOK
  <1>2. CASE LockerSends(c, b)
    BY <1>2 DEF LockerSends, LockReq, UnlockReq, UnlockNotBegun, LockersUncounted,
       CountsDistinctBlobbers, CountedLocksAreHeld, EnoughCounted, TypeOK
  <1>3. CASE LockerTooMany(c, b)
    <2>1. /\ lk' = lk \/ lk' = [lk EXCEPT ![c][b] = "none"]
          /\ net' \subseteq net
          /\ UNCHANGED <<pc, lead, consensus, got, unl, holder>>
      BY <1>3 DEF LockerTooMany, LockerExits
    <2>2. LockersUncounted'
      <3>1. CASE lk' = lk
        BY <2>1, <3>1 DEF LockersUncounted
      <3>2. CASE lk' = [lk EXCEPT ![c][b] = "none"]
        BY <2>1, <3>2 DEF LockersUncounted, TypeOK
      <3>. QED  BY <2>1, <3>1, <3>2
    <2>. QED  BY <2>1, <2>2 DEF UnlockNotBegun, CountsDistinctBlobbers,
                CountedLocksAreHeld, EnoughCounted
  <1>4. CASE LockerError(c, b)
    BY <1>4 DEF LockerError, LockerFails, LockerExits, UnlockNotBegun, LockersUncounted,
       CountsDistinctBlobbers, CountedLocksAreHeld, EnoughCounted, TypeOK
  <1>5. CASE UnlockerSends(c, b)
    <2>1. UnlockNotBegun'
      BY <1>5 DEF UnlockerSends, UnlockReq, UnlockNotBegun, TypeOK
    <2>. QED  BY <1>5, <2>1 DEF UnlockerSends, LockersUncounted, CountsDistinctBlobbers,
                CountedLocksAreHeld, EnoughCounted
  <1>6. CASE UnlockerRetries(c, b)
    <2>1. UnlockNotBegun'
      <3>1. /\ unl' = unl \/ unl' = [unl EXCEPT ![c][b] = "gaveup"]
            /\ net' \subseteq net
            /\ unl[c][b] # "none" /\ pc' = pc
        BY <1>6 DEF UnlockerRetries
      <3>. QED  BY <3>1 DEF UnlockNotBegun, TypeOK
    <2>. QED  BY <1>6, <2>1 DEF UnlockerRetries, LockersUncounted, CountsDistinctBlobbers,
                CountedLocksAreHeld, EnoughCounted
  <1>7. CASE UnlockerError(c, b)
    <2>1. UnlockNotBegun'
      BY <1>7 DEF UnlockerError, UnlockNotBegun, TypeOK
    <2>. QED  BY <1>7, <2>1 DEF UnlockerError, LockersUncounted, CountsDistinctBlobbers,
                CountedLocksAreHeld, EnoughCounted
  <1>. QED  BY <1>1, <1>2, <1>3, <1>4, <1>5, <1>6, <1>7 DEF Locker, Unlocker

\* The steps of the lock service: a lock is only taken when it is free or the
\* writer's own, and only released by its holder's unlock request.
LEMMA IndService ==
  ASSUME IndInv, TypeOK', NEW c \in Clients, NEW b \in Blobbers, Service(c, b)
  PROVE  IndInv'
  <1> USE DEF IndInv, InLock, InCritical, Early
  <1>1. CASE ServeLock(c, b)
    <2>0. /\ lk' = [lk EXCEPT ![c][b] = "none"]
          /\ holder' = [holder EXCEPT ![b] = c]
          /\ holder[b] \in {NoClient, c}
          /\ lk[c][b] = "wait"
          /\ UNCHANGED <<pc, lead, unl>>
          /\ net' \subseteq net
      BY <1>1 DEF ServeLock, LockerOK, LockerExits, Grants
    <2>1. UnlockNotBegun'
      BY <2>0 DEF UnlockNotBegun, TypeOK
    <2>2. CASE pc[c] \in InLock
      <3>1. /\ consensus' = [consensus EXCEPT ![c] = consensus[c] + 1]
            /\ got' = [got EXCEPT ![c] = got[c] \cup {b}]
        BY <1>1, <2>2 DEF ServeLock, LockerOK
      <3>2. b \notin got[c]
        BY <2>0, <2>2 DEF LockersUncounted
      <3>3. Cardinality(got[c] \cup {b}) = Cardinality(got[c]) + 1
        BY <3>2, CountedFinite, FS_AddElement
      <3>4. LockersUncounted'
        BY <2>0, <2>2, <3>1 DEF LockersUncounted, TypeOK
      <3>5. CountsDistinctBlobbers'
        <4>1. Cardinality(got[c]) \in Nat
          BY CountedFinite, FS_CardinalityType
        <4>2. consensus'[c] = AddConsensus + Cardinality(got'[c])
          <5>1. consensus[c] = AddConsensus + Cardinality(got[c])
            BY <2>2 DEF CountsDistinctBlobbers
          <5>2. consensus'[c] = consensus[c] + 1 /\ got'[c] = got[c] \cup {b}
            BY <3>1 DEF TypeOK
          <5>. QED  BY <3>3, <4>1, <5>1, <5>2, MutexConstants
        <4>3. \A d \in Clients \ {c} : consensus'[d] = consensus[d] /\ got'[d] = got[d]
          BY <3>1 DEF TypeOK
        <4>. QED  BY <2>0, <4>2, <4>3 DEF CountsDistinctBlobbers
      <3>6. CountedLocksAreHeld'
        BY <2>0, <3>1, MutexConstants DEF CountedLocksAreHeld, TypeOK
      <3>7. EnoughCounted'
        BY <2>0, <2>2, <3>1 DEF EnoughCounted, TypeOK
      <3>. QED  BY <2>1, <3>4, <3>5, <3>6, <3>7
    <2>3. CASE pc[c] \notin InLock
      <3>1. consensus' = consensus /\ got' = got
        BY <1>1, <2>3 DEF ServeLock, LockerOK
      <3>2. LockersUncounted'
        BY <2>0, <3>1 DEF LockersUncounted, TypeOK
      <3>3. CountedLocksAreHeld'
        BY <2>0, <3>1, MutexConstants DEF CountedLocksAreHeld, TypeOK
      <3>. QED  BY <2>0, <2>1, <3>1, <3>2, <3>3 DEF CountsDistinctBlobbers, EnoughCounted
    <2>. QED  BY <2>2, <2>3
  <1>2. CASE ServeLockUnheard(c, b)
    <2>1. CountedLocksAreHeld'
      BY <1>2, MutexConstants DEF ServeLockUnheard, Grants, clientVars, CountedLocksAreHeld, TypeOK
    <2>. QED  BY <1>2, <2>1 DEF ServeLockUnheard, clientVars, UnlockNotBegun, LockersUncounted,
                CountsDistinctBlobbers, EnoughCounted
  <1>3. CASE ServePending(c, b)
    BY <1>3 DEF ServePending, vars, UnlockNotBegun, LockersUncounted,
       CountsDistinctBlobbers, CountedLocksAreHeld, EnoughCounted
  <1>4. CASE ServeUnlock(c, b)
    <2>1. pc[c] \notin Early
      BY <1>4 DEF ServeUnlock, UnlockNotBegun
    <2>2. CountedLocksAreHeld'
      BY <1>4, <2>1, MutexConstants DEF ServeUnlock, CountedLocksAreHeld, TypeOK
    <2>3. UnlockNotBegun'
      BY <1>4, <2>1 DEF ServeUnlock, UnlockNotBegun, TypeOK
    <2>. QED  BY <1>4, <2>2, <2>3 DEF ServeUnlock, LockersUncounted, CountsDistinctBlobbers,
                EnoughCounted
  <1>5. CASE Drop(c, b)
    BY <1>5 DEF Drop, clientVars, UnlockNotBegun, LockersUncounted,
       CountsDistinctBlobbers, CountedLocksAreHeld, EnoughCounted
  <1>. QED  BY <1>1, <1>2, <1>3, <1>4, <1>5 DEF Service

\* Every step keeps the counted locks held.
LEMMA IndNext ==
  ASSUME ~ExpireEarly, IndInv, [Next]_vars
  PROVE  IndInv'
  <1>0. TypeOK'
    BY TypeNext DEF IndInv
  <1>1. ASSUME NEW c \in Clients, Refresh(c) PROVE IndInv'
    BY <1>0, <1>1 DEF Refresh, SpawnLockers, Refreshing, InLock, InCritical, Early, IndInv,
       UnlockNotBegun, LockersUncounted, CountsDistinctBlobbers, CountedLocksAreHeld,
       EnoughCounted, TypeOK
  <1>2. ASSUME NEW b \in Blobbers, Expire(b) PROVE IndInv'
    <2>1. CountedLocksAreHeld'
      BY <1>2 DEF Expire, clientVars, Finished, InLock, InCritical, IndInv,
         CountedLocksAreHeld, TypeOK
    <2>. QED  BY <1>0, <1>2, <2>1 DEF Expire, clientVars, IndInv, UnlockNotBegun,
                LockersUncounted, CountsDistinctBlobbers, EnoughCounted
  <1>3. CASE Terminated \/ UNCHANGED vars
    BY <1>0, <1>3 DEF Terminated, vars, IndInv, UnlockNotBegun, LockersUncounted,
       CountsDistinctBlobbers, CountedLocksAreHeld, EnoughCounted
  <1>. QED  BY <1>0, <1>1, <1>2, <1>3, IndWriter, IndGoroutine, IndService DEF Next

\* Two lock quorums share a blobber, and its lock has one holder.
LEMMA IndExclusion ==
  ASSUME QuorumsIntersect, IndInv
  PROVE  MutualExclusion
  <1> SUFFICES ASSUME NEW c \in Clients, NEW d \in Clients,
                      pc[c] \in InCritical, pc[d] \in InCritical
               PROVE  c = d
    BY DEF MutualExclusion
  <1>1. /\ IsFiniteSet(got[c]) /\ IsFiniteSet(got[d]) /\ IsFiniteSet(Blobbers)
        /\ Cardinality(Blobbers) = N
    BY CountedFinite, MutexConstants, FS_Interval DEF IndInv, Blobbers
  <1>2. got[c] \cup got[d] \subseteq Blobbers
    BY DEF IndInv, TypeOK
  <1>3. Cardinality(got[c] \cup got[d]) <= N
    BY <1>1, <1>2, FS_Subset
  <1>4. Cardinality(got[c] \cup got[d])
          = Cardinality(got[c]) + Cardinality(got[d]) - Cardinality(got[c] \cap got[d])
    BY <1>1, FS_Union
  <1>5. /\ Cardinality(got[c]) >= Thresh - AddConsensus
        /\ Cardinality(got[d]) >= Thresh - AddConsensus
    <2>1. Cardinality(got[c]) \in Nat /\ Cardinality(got[d]) \in Nat
      BY <1>1, FS_CardinalityType
    <2>2. /\ consensus[c] >= Thresh /\ consensus[d] >= Thresh
          /\ consensus[c] = AddConsensus + Cardinality(got[c])
          /\ consensus[d] = AddConsensus + Cardinality(got[d])
      BY DEF IndInv, EnoughCounted, CountsDistinctBlobbers, InCritical
    <2>. QED  BY <2>1, <2>2, MutexConstants
  <1>6. got[c] \cap got[d] # {}
    <2>1. SUFFICES ASSUME got[c] \cap got[d] = {} PROVE FALSE
      OBVIOUS
    <2>2. Cardinality(got[c] \cap got[d]) = 0
      BY <2>1, FS_EmptySet
    <2>3. Cardinality(got[c]) \in Nat /\ Cardinality(got[d]) \in Nat
      BY <1>1, FS_CardinalityType
    <2>. QED  BY <1>3, <1>4, <1>5, <2>2, <2>3, MutexConstants DEF QuorumsIntersect
  <1>. QED  BY <1>6 DEF IndInv, CountedLocksAreHeld, TypeOK

\* Mutual exclusion of writers, for any number of writers, blobbers and failed
\* exchanges: if two lock quorums always share a blobber and blobbers do not expire
\* the lock of a writer that is still busy, no two writers are between a successful
\* Lock and their Unlock.
THEOREM WritersExclude ==
  ASSUME QuorumsIntersect, ~ExpireEarly
  PROVE  Spec => []MutualExclusion
  <1>1. Init => IndInv
    BY IndInit
  <1>2. IndInv /\ [Next]_vars => IndInv'
    BY IndNext
  <1>3. IndInv => MutualExclusion
    BY IndExclusion
  <1>. QED  BY <1>1, <1>2, <1>3, PTL DEF Spec

\* Each lock Lock counted is another blobber's and is held until Unlock is called.
THEOREM CountedLocks ==
  ASSUME ~ExpireEarly
  PROVE  Spec => [](CountsDistinctBlobbers /\ CountedLocksAreHeld)
  <1>1. Init => IndInv
    BY IndInit
  <1>2. IndInv /\ [Next]_vars => IndInv'
    BY IndNext
  <1>3. IndInv => CountsDistinctBlobbers /\ CountedLocksAreHeld
    BY DEF IndInv
  <1>. QED  BY <1>1, <1>2, <1>3, PTL DEF Spec

-----------------------------------------------------------------------------
(***************************************************************************)
(* The channel of a blobber serialises the writer's goroutines for it, and *)
(* the one that unlocks keeps it.  This does not depend on lock expiry.    *)
(***************************************************************************)

Unlocking == {"wait", "released", "gaveup"}

SlotOwner ==
  \A c \in Clients, b \in Blobbers :
    /\ lk[c][b] = "wait" <=> slot[c][b] = "lock"
    /\ unl[c][b] \in Unlocking <=> slot[c][b] = "unlock"

IdleQuiet == \A c \in Clients : pc[c] = "idle" => NoLocker(c)

ChannelInv == TypeOK /\ UnlockNotBegun /\ SlotOwner /\ IdleQuiet

\* All channels start empty.
LEMMA ChannelInit == Init => ChannelInv
  BY TypeInit DEF Init, ChannelInv, UnlockNotBegun, SlotOwner, Unlocking, IdleQuiet, NoLocker

\* Every step keeps the owner of each channel slot known.
LEMMA ChannelNext == ChannelInv /\ [Next]_vars => ChannelInv'
  <1> SUFFICES ASSUME ChannelInv, [Next]_vars PROVE ChannelInv'
    OBVIOUS
  <1>0. TypeOK'
    BY TypeNext DEF ChannelInv
  <1> USE <1>0 DEF ChannelInv, UnlockNotBegun, SlotOwner, Unlocking, Early, TypeOK, IdleQuiet, NoLocker
  <1>1. ASSUME NEW c \in Clients, Writer(c) PROVE ChannelInv'
    <2>1. CASE LockLead(c)
      BY <2>1 DEF LockLead, SpawnLockers
    <2>2. CASE NextLead(c)
      BY <2>2 DEF NextLead, SpawnLockers
    <2>3. CASE LeadFails(c)
      BY <2>3 DEF LeadFails
    <2>4. CASE LeadDeadline(c)
      BY <2>4 DEF LeadDeadline, LockerFails, LockerExits
    <2>5. CASE LockOthers(c)
      BY <2>5 DEF LockOthers, SpawnLockers
    <2>6. CASE LockReturns(c)
      BY <2>6 DEF LockReturns
    <2>7. CASE LockAborts(c)
      BY <2>7 DEF LockAborts, UnlockOthers
    <2>8. CASE DeferUnlock(c)
      BY <2>8 DEF DeferUnlock
    <2>9. CASE CallUnlock(c)
      BY <2>9 DEF CallUnlock, UnlockOthers, InCritical
    <2>10. CASE UnlockLead(c)
      BY <2>10 DEF UnlockLead
    <2>11. CASE UnlockReturns(c)
      BY <2>11 DEF UnlockReturns
    <2>12. CASE Cancel(c)
      BY <2>12 DEF Cancel
    <2>. QED  BY <1>1, <2>1, <2>2, <2>3, <2>4, <2>5, <2>6, <2>7, <2>8, <2>9, <2>10,
                 <2>11, <2>12 DEF Writer
  <1>2. ASSUME NEW c \in Clients, Refresh(c) PROVE ChannelInv'
    BY <1>2 DEF Refresh, Refreshing, SpawnLockers
  <1>3. ASSUME NEW c \in Clients, NEW b \in Blobbers, Locker(c, b) PROVE ChannelInv'
    <2>1. CASE LockerSeesCancel(c, b)
      BY <2>1 DEF LockerSeesCancel
    <2>2. CASE LockerSends(c, b)
      BY <2>2 DEF LockerSends, LockReq, UnlockReq
    <2>3. CASE LockerTooMany(c, b)
      <3>1. UNCHANGED <<pc, unl>> /\ net' \subseteq net
        BY <2>3 DEF LockerTooMany
      <3>2. \/ UNCHANGED <<lk, slot>>
            \/ /\ lk' = [lk EXCEPT ![c][b] = "none"]
               /\ slot' = [slot EXCEPT ![c][b] = "free"]
               /\ lk[c][b] = "wait"
        BY <2>3 DEF LockerTooMany, LockerExits
      <3>3. CASE UNCHANGED <<lk, slot>>
        BY <3>1, <3>3
      <3>4. CASE /\ lk' = [lk EXCEPT ![c][b] = "none"]
                 /\ slot' = [slot EXCEPT ![c][b] = "free"]
                 /\ lk[c][b] = "wait"
        BY <3>1, <3>4
      <3>. QED  BY <3>2, <3>3, <3>4
    <2>4. CASE LockerError(c, b)
      BY <2>4 DEF LockerError, LockerFails, LockerExits
    <2>. QED  BY <1>3, <2>1, <2>2, <2>3, <2>4 DEF Locker
  <1>4. ASSUME NEW c \in Clients, NEW b \in Blobbers, Unlocker(c, b) PROVE ChannelInv'
    <2>1. CASE UnlockerSends(c, b)
      BY <2>1 DEF UnlockerSends, UnlockReq
    <2>2. CASE UnlockerRetries(c, b)
      <3>1. /\ UNCHANGED <<pc, lk, slot>>
            /\ net' \subseteq net
            /\ unl[c][b] = "wait"
        BY <2>2 DEF UnlockerRetries
      <3>2. unl' = unl \/ unl' = [unl EXCEPT ![c][b] = "gaveup"]
        BY <2>2 DEF UnlockerRetries
      <3>3. CASE unl' = unl
        BY <3>1, <3>3
      <3>4. CASE unl' = [unl EXCEPT ![c][b] = "gaveup"]
        BY <3>1, <3>4
      <3>. QED  BY <3>2, <3>3, <3>4
    <2>3. CASE UnlockerError(c, b)
      BY <2>3 DEF UnlockerError
    <2>. QED  BY <1>4, <2>1, <2>2, <2>3 DEF Unlocker
  <1>5. ASSUME NEW c \in Clients, NEW b \in Blobbers, Service(c, b) PROVE ChannelInv'
    <2>1. CASE ServeLock(c, b)
      BY <2>1 DEF ServeLock, LockerOK, LockerExits
    <2>2. CASE ServeLockUnheard(c, b)
      BY <2>2 DEF ServeLockUnheard, clientVars
    <2>3. CASE ServePending(c, b)
      BY <2>3 DEF ServePending, vars
    <2>4. CASE ServeUnlock(c, b)
      BY <2>4 DEF ServeUnlock
    <2>5. CASE Drop(c, b)
      BY <2>5 DEF Drop, clientVars
    <2>. QED  BY <1>5, <2>1, <2>2, <2>3, <2>4, <2>5 DEF Service
  <1>6. ASSUME NEW b \in Blobbers, Expire(b) PROVE ChannelInv'
    BY <1>6 DEF Expire, clientVars
  <1>7. CASE Terminated \/ UNCHANGED vars
    BY <1>7 DEF Terminated, vars
  <1>. QED  BY <1>1, <1>2, <1>3, <1>4, <1>5, <1>6, <1>7 DEF Next

\* Once UnlockBlobber has sent its request, no refresh of the same writer exchanges
\* lock requests with that blobber, whatever the timing of the refresher.
THEOREM UnlockIsFinal == Spec => []NoRelockAfterUnlock
  <1>1. ChannelInv => NoRelockAfterUnlock
    BY DEF ChannelInv, SlotOwner, Unlocking, NoRelockAfterUnlock, TypeOK, LockerStates
  <1>. QED  BY <1>1, ChannelInit, ChannelNext, PTL DEF Spec

-----------------------------------------------------------------------------
(***************************************************************************)
(* The order of unlocking.  A pair of a writer and a blobber is clean as   *)
(* long as no exchange between them failed; the invariant follows the lock *)
(* of a clean pair from the request to its release.  Nothing is assumed    *)
(* about expiry or quorums.                                                *)
(***************************************************************************)

\* Every exchange of the writer with the blobber succeeded so far.
Clean(c, b) == <<c, b>> \notin lost

\* In a clean pair a lock request is on its way only while its sender waits for the answer.
RequestsAwaited ==
  \A c \in Clients, b \in Blobbers : Clean(c, b) /\ LockReq(c, b) \in net => lk[c][b] = "wait"

\* A lock that is held or asked for is the lead's or one of the mask's.
LocksInMask ==
  \A c \in Clients, b \in Blobbers : Clean(c, b) /\ (holder[b] = c \/ lk[c][b] # "none") =>
    b \in mask[c] \cup {lead[c]}

\* While the lead is being chosen only its lock is asked for, and it is counted
\* exactly when it is held.
LeadCounted ==
  \A c \in Clients :
    /\ pc[c] = "idle" => \A b \in Blobbers : lk[c][b] = "none" /\ (Clean(c, b) => holder[b] # c)
    /\ pc[c] = "lead" =>
         /\ \A b \in Blobbers : b # lead[c] => lk[c][b] = "none" /\ (Clean(c, b) => holder[b] # c)
         /\ \/ consensus[c] = AddConsensus /\ (Clean(c, lead[c]) => holder[lead[c]] # c)
            \/ consensus[c] = AddConsensus + 1 /\ lk[c][lead[c]] = "none"

\* The mask with which Unlock is deferred covers what the refresher still locks.
DeferredCovers == \A c \in Clients : pc[c] = "commit" => mask[c] \subseteq umask[c]

\* Unlock visits the mask, and the lead when it has heard of all others.
UnlockOrder ==
  \A c \in Clients :
    /\ pc[c] \in {"unlock", "abort", "unlocked", "done"} \/ unl[c][lead[c]] # "none" =>
         \A b \in mask[c] \ {lead[c]} : unl[c][b] # "none"
    /\ unl[c][lead[c]] # "none" =>
         \A b \in Blobbers \ {lead[c]} : unl[c][b] \in Released \cup {"none"}
    /\ pc[c] \in {"unlocked", "done"} => unl[c][lead[c]] \in Released

\* An unlock that was confirmed has released the lock.
ConfirmedReleases ==
  \A c \in Clients, b \in Blobbers :
    Clean(c, b) /\ unl[c][b] \in Released => unl[c][b] = "released" /\ holder[b] # c

\* Lock fails after its Unlock, or before it has any lock.
FailedHoldsNone ==
  \A c \in Clients :
    /\ pc[c] \in {"abort", "failed"} => NoLocker(c)
    /\ pc[c] = "failed" => \/ unl[c][lead[c]] \in Released
                           \/ \A b \in Blobbers : Clean(c, b) => holder[b] # c

OrderInv ==
  /\ RequestsAwaited
  /\ LocksInMask
  /\ LeadCounted
  /\ DeferredCovers
  /\ UnlockOrder
  /\ ConfirmedReleases
  /\ FailedHoldsNone

\* If the lead is not locked, the writer holds and asks for no lock of a clean pair.
LEMMA NothingLed ==
  ASSUME TypeOK, LeadCounted, NEW c \in Clients, pc[c] = "lead", NoLocker(c), ~LeadLocked(c)
  PROVE  /\ consensus[c] = AddConsensus
         /\ \A a \in Blobbers : lk[c][a] = "none" /\ (Clean(c, a) => holder[a] # c)
  <1>1. consensus[c] # AddConsensus + 1
    BY MutexConstants DEF LeadLocked, TypeOK
  <1>2. consensus[c] = AddConsensus /\ (Clean(c, lead[c]) => holder[lead[c]] # c)
    BY <1>1 DEF LeadCounted
  <1>3. ASSUME NEW a \in Blobbers PROVE lk[c][a] = "none" /\ (Clean(c, a) => holder[a] # c)
    BY <1>2 DEF LeadCounted, NoLocker
  <1>. QED  BY <1>2, <1>3

\* The writer's own steps keep the order of unlocking.
LEMMA OrderWriter ==
  ASSUME ChannelInv, OrderInv, TypeOK', NEW c \in Clients,
         Writer(c) \/ Refresh(c)
  PROVE  OrderInv'
  <1> USE MutexConstants DEF OrderInv, ChannelInv, Clean, TypeOK, LockReq, UnlockReq
  <1>1. CASE LockLead(c)
    <2>1. RequestsAwaited'
      BY <1>1 DEF LockLead, SpawnLockers, RequestsAwaited, LeadCounted
    <2>2. LocksInMask'
      BY <1>1 DEF LockLead, SpawnLockers, LocksInMask
    <2>3. LeadCounted'
      <3>1. /\ pc[c] = "idle" /\ pc' = [pc EXCEPT ![c] = "lead"]
            /\ consensus' = [consensus EXCEPT ![c] = AddConsensus]
            /\ \A a \in Blobbers : a # lead[c] => lk'[c][a] = lk[c][a]
            /\ \A d \in Clients \ {c} : lk'[d] = lk[d]
            /\ UNCHANGED <<lead, holder, lost>>
        BY <1>1 DEF LockLead, SpawnLockers
      <3>2. ASSUME NEW d \in Clients PROVE LeadCounted!(d)'
        <4>1. LeadCounted!(d)
          BY DEF LeadCounted
        <4>2. CASE d = c
          BY <3>1, <4>1, <4>2
        <4>3. CASE d # c
          BY <3>1, <4>1, <4>3
        <4>. QED  BY <4>2, <4>3
      <3>. QED  BY <3>2 DEF LeadCounted
    <2>4. DeferredCovers'
      BY <1>1 DEF LockLead, SpawnLockers, DeferredCovers
    <2>5. UnlockOrder'
      BY <1>1 DEF LockLead, SpawnLockers, UnlockOrder, Released
    <2>6. ConfirmedReleases'
      BY <1>1 DEF LockLead, SpawnLockers, ConfirmedReleases, Released
    <2>7. FailedHoldsNone'
      BY <1>1 DEF LockLead, SpawnLockers, FailedHoldsNone, NoLocker, Released
    <2>. QED  BY <2>1, <2>2, <2>3, <2>4, <2>5, <2>6, <2>7
  <1>2. CASE NextLead(c)
    <2>0. /\ consensus[c] = AddConsensus
          /\ \A a \in Blobbers : lk[c][a] = "none" /\ (Clean(c, a) => holder[a] # c)
          /\ lead[c] + 1 \in Blobbers
          /\ \A a \in Blobbers : unl[c][a] = "none"
      BY <1>2, NothingLed DEF NextLead, UnlockNotBegun, Early, Blobbers
    <2>1. RequestsAwaited'
      BY <1>2, <2>0 DEF NextLead, SpawnLockers, RequestsAwaited
    <2>2. LocksInMask'
      BY <1>2, <2>0 DEF NextLead, SpawnLockers, LocksInMask
    <2>3. LeadCounted'
      BY <1>2, <2>0 DEF NextLead, SpawnLockers, LeadCounted
    <2>4. DeferredCovers'
      BY <1>2 DEF NextLead, SpawnLockers, DeferredCovers
    <2>5. UnlockOrder'
      BY <1>2, <2>0 DEF NextLead, SpawnLockers, UnlockOrder
    <2>6. ConfirmedReleases'
      BY <1>2 DEF NextLead, SpawnLockers, ConfirmedReleases, Released
    <2>7. FailedHoldsNone'
      BY <1>2 DEF NextLead, SpawnLockers, FailedHoldsNone, NoLocker, Released
    <2>. QED  BY <2>1, <2>2, <2>3, <2>4, <2>5, <2>6, <2>7
  <1>3. CASE LeadFails(c)
    <2>0. /\ consensus[c] = AddConsensus
          /\ \A a \in Blobbers : lk[c][a] = "none" /\ (Clean(c, a) => holder[a] # c)
      BY <1>3, NothingLed DEF LeadFails
    <2>1. RequestsAwaited'
      BY <1>3 DEF LeadFails, RequestsAwaited
    <2>2. LocksInMask'
      BY <1>3 DEF LeadFails, LocksInMask
    <2>3. LeadCounted'
      BY <1>3 DEF LeadFails, LeadCounted
    <2>4. DeferredCovers'
      BY <1>3 DEF LeadFails, DeferredCovers
    <2>5. UnlockOrder'
      BY <1>3 DEF LeadFails, UnlockOrder, Released
    <2>6. ConfirmedReleases'
      BY <1>3 DEF LeadFails, ConfirmedReleases, Released
    <2>7. FailedHoldsNone'
      BY <1>3, <2>0 DEF LeadFails, FailedHoldsNone, NoLocker
    <2>. QED  BY <2>1, <2>2, <2>3, <2>4, <2>5, <2>6, <2>7
  <1>4. CASE LeadDeadline(c)
    <2>0. /\ pc[c] = "lead" /\ pc' = [pc EXCEPT ![c] = "failed"]
          /\ lk' = [lk EXCEPT ![c][lead[c]] = "none"]
          /\ lost' = lost \cup {<<c, lead[c]>>}
          /\ UNCHANGED <<lead, unl, holder>>
      BY <1>4 DEF LeadDeadline, LockerFails, LockerExits, Fail
    <2>1. RequestsAwaited'
      BY <1>4 DEF LeadDeadline, LockerFails, LockerExits, Fail, RequestsAwaited
    <2>2. LocksInMask'
      BY <1>4 DEF LeadDeadline, LockerFails, LockerExits, Fail, LocksInMask
    <2>3. LeadCounted'
      BY <1>4 DEF LeadDeadline, LockerFails, LockerExits, Fail, LeadCounted
    <2>4. DeferredCovers'
      BY <1>4 DEF LeadDeadline, LockerFails, LockerExits, Fail, DeferredCovers
    <2>5. UnlockOrder'
      BY <1>4 DEF LeadDeadline, LockerFails, LockerExits, Fail, UnlockOrder, Released
    <2>6. ConfirmedReleases'
      BY <1>4 DEF LeadDeadline, LockerFails, LockerExits, Fail, ConfirmedReleases, Released
    <2>7. FailedHoldsNone'
      <3>1. ASSUME NEW a \in Blobbers PROVE lk'[c][a] = "none" /\ (Clean(c, a)' => holder'[a] # c)
        <4>1. CASE a = lead[c]
          BY <2>0, <4>1
        <4>2. CASE a # lead[c]
          <5>1. lk'[c][a] = lk[c][a] /\ holder' = holder /\ (Clean(c, a)' => Clean(c, a))
            BY <2>0, <4>2
          <5>2. lk[c][a] = "none" /\ (Clean(c, a) => holder[a] # c)
            BY <2>0, <4>2 DEF LeadCounted
          <5>. QED  BY <5>1, <5>2
        <4>. QED  BY <4>1, <4>2
      <3>2. ASSUME NEW d \in Clients, d # c
            PROVE  /\ pc'[d] = pc[d] /\ lk'[d] = lk[d]
                   /\ \A a \in Blobbers : Clean(d, a)' <=> Clean(d, a)
        BY <2>0, <3>2
      <3>3. ASSUME NEW d \in Clients PROVE FailedHoldsNone!(d)'
        <4>1. CASE d = c
          BY <2>0, <3>1, <4>1 DEF NoLocker
        <4>2. CASE d # c
          <5>1. FailedHoldsNone!(d)
            BY DEF FailedHoldsNone
          <5>. QED  BY <2>0, <3>2, <4>2, <5>1 DEF NoLocker
        <4>. QED  BY <4>1, <4>2
      <3>. QED  BY <3>3 DEF FailedHoldsNone
    <2>. QED  BY <2>1, <2>2, <2>3, <2>4, <2>5, <2>6, <2>7
  <1>5. CASE LockOthers(c)
    <2>1. RequestsAwaited'
      BY <1>5 DEF LockOthers, SpawnLockers, RequestsAwaited, NoLocker
    <2>2. LocksInMask'
      BY <1>5 DEF LockOthers, SpawnLockers, LocksInMask
    <2>3. LeadCounted'
      BY <1>5 DEF LockOthers, SpawnLockers, LeadCounted
    <2>4. DeferredCovers'
      BY <1>5 DEF LockOthers, SpawnLockers, DeferredCovers
    <2>5. UnlockOrder'
      BY <1>5 DEF LockOthers, SpawnLockers, UnlockOrder, Released
    <2>6. ConfirmedReleases'
      BY <1>5 DEF LockOthers, SpawnLockers, ConfirmedReleases, Released
    <2>7. FailedHoldsNone'
      BY <1>5 DEF LockOthers, SpawnLockers, FailedHoldsNone, NoLocker, Released
    <2>. QED  BY <2>1, <2>2, <2>3, <2>4, <2>5, <2>6, <2>7
  <1>6. CASE LockReturns(c)
    <2>1. RequestsAwaited'
      BY <1>6 DEF LockReturns, RequestsAwaited
    <2>2. LocksInMask'
      BY <1>6 DEF LockReturns, LocksInMask
    <2>3. LeadCounted'
      BY <1>6 DEF LockReturns, LeadCounted
    <2>4. DeferredCovers'
      BY <1>6 DEF LockReturns, DeferredCovers
    <2>5. UnlockOrder'
      BY <1>6 DEF LockReturns, UnlockOrder, Released
    <2>6. ConfirmedReleases'
      BY <1>6 DEF LockReturns, ConfirmedReleases, Released
    <2>7. FailedHoldsNone'
      BY <1>6 DEF LockReturns, FailedHoldsNone, NoLocker, Released
    <2>. QED  BY <2>1, <2>2, <2>3, <2>4, <2>5, <2>6, <2>7
  <1>7. CASE LockAborts(c)
    <2>1. RequestsAwaited'
      BY <1>7 DEF LockAborts, UnlockOthers, RequestsAwaited
    <2>2. LocksInMask'
      BY <1>7 DEF LockAborts, UnlockOthers, LocksInMask
    <2>3. LeadCounted'
      BY <1>7 DEF LockAborts, UnlockOthers, LeadCounted
    <2>4. DeferredCovers'
      BY <1>7 DEF LockAborts, UnlockOthers, DeferredCovers
    <2>5. UnlockOrder'
      BY <1>7 DEF LockAborts, UnlockOthers, UnlockOrder, Released
    <2>6. ConfirmedReleases'
      BY <1>7 DEF LockAborts, UnlockOthers, ConfirmedReleases, Released
    <2>7. FailedHoldsNone'
      BY <1>7 DEF LockAborts, UnlockOthers, FailedHoldsNone, NoLocker, Released
    <2>. QED  BY <2>1, <2>2, <2>3, <2>4, <2>5, <2>6, <2>7
  <1>8. CASE DeferUnlock(c)
    <2>1. RequestsAwaited'
      BY <1>8 DEF DeferUnlock, RequestsAwaited
    <2>2. LocksInMask'
      BY <1>8 DEF DeferUnlock, LocksInMask
    <2>3. LeadCounted'
      BY <1>8 DEF DeferUnlock, LeadCounted
    <2>4. DeferredCovers'
      BY <1>8 DEF DeferUnlock, DeferredCovers
    <2>5. UnlockOrder'
      BY <1>8 DEF DeferUnlock, UnlockOrder, Released
    <2>6. ConfirmedReleases'
      BY <1>8 DEF DeferUnlock, ConfirmedReleases, Released
    <2>7. FailedHoldsNone'
      BY <1>8 DEF DeferUnlock, FailedHoldsNone, NoLocker, Released
    <2>. QED  BY <2>1, <2>2, <2>3, <2>4, <2>5, <2>6, <2>7
  <1>9. CASE CallUnlock(c)
    <2>0. /\ unl'[c][lead[c]] = "none"
          /\ \A a \in mask[c] \ {lead[c]} : unl'[c][a] = "start"
          /\ \A d \in Clients \ {c} : pc'[d] = pc[d] /\ unl'[d] = unl[d]
          /\ pc'[c] = "unlock" /\ lead' = lead /\ mask' = mask
      BY <1>9 DEF CallUnlock, UnlockOthers, InCritical, DeferredCovers
    <2>1. RequestsAwaited'
      BY <1>9 DEF CallUnlock, UnlockOthers, InCritical, RequestsAwaited
    <2>2. LocksInMask'
      BY <1>9 DEF CallUnlock, UnlockOthers, InCritical, LocksInMask
    <2>3. LeadCounted'
      BY <1>9 DEF CallUnlock, UnlockOthers, InCritical, LeadCounted
    <2>4. DeferredCovers'
      BY <1>9 DEF CallUnlock, UnlockOthers, InCritical, DeferredCovers
    <2>5. UnlockOrder'
      <3> SUFFICES ASSUME NEW d \in Clients PROVE UnlockOrder!(d)'
        BY DEF UnlockOrder
      <3>1. CASE d = c
        BY <2>0, <3>1
      <3>2. CASE d # c
        BY <2>0, <3>2 DEF UnlockOrder
      <3>. QED  BY <3>1, <3>2
    <2>6. ConfirmedReleases'
      BY <1>9 DEF CallUnlock, UnlockOthers, InCritical, ConfirmedReleases, Released
    <2>7. FailedHoldsNone'
      BY <1>9 DEF CallUnlock, UnlockOthers, InCritical, FailedHoldsNone, NoLocker, Released
    <2>. QED  BY <2>1, <2>2, <2>3, <2>4, <2>5, <2>6, <2>7
  <1>10. CASE UnlockLead(c)
    <2>1. RequestsAwaited'
      BY <1>10 DEF UnlockLead, RequestsAwaited
    <2>2. LocksInMask'
      BY <1>10 DEF UnlockLead, LocksInMask
    <2>3. LeadCounted'
      BY <1>10 DEF UnlockLead, LeadCounted
    <2>4. DeferredCovers'
      BY <1>10 DEF UnlockLead, DeferredCovers
    <2>5. UnlockOrder'
      BY <1>10 DEF UnlockLead, UnlockOrder, Released
    <2>6. ConfirmedReleases'
      BY <1>10 DEF UnlockLead, ConfirmedReleases, Released
    <2>7. FailedHoldsNone'
      BY <1>10 DEF UnlockLead, FailedHoldsNone, NoLocker, Released
    <2>. QED  BY <2>1, <2>2, <2>3, <2>4, <2>5, <2>6, <2>7
  <1>11. CASE UnlockReturns(c)
    <2>1. RequestsAwaited'
      BY <1>11 DEF UnlockReturns, RequestsAwaited
    <2>2. LocksInMask'
      BY <1>11 DEF UnlockReturns, LocksInMask
    <2>3. LeadCounted'
      BY <1>11 DEF UnlockReturns, LeadCounted
    <2>4. DeferredCovers'
      BY <1>11 DEF UnlockReturns, DeferredCovers
    <2>5. UnlockOrder'
      BY <1>11 DEF UnlockReturns, UnlockOrder, Released
    <2>6. ConfirmedReleases'
      BY <1>11 DEF UnlockReturns, ConfirmedReleases, Released
    <2>7. FailedHoldsNone'
      BY <1>11 DEF UnlockReturns, FailedHoldsNone, NoLocker, Released
    <2>. QED  BY <2>1, <2>2, <2>3, <2>4, <2>5, <2>6, <2>7
  <1>12. CASE Cancel(c)
    <2>1. RequestsAwaited'
      BY <1>12 DEF Cancel, RequestsAwaited
    <2>2. LocksInMask'
      BY <1>12 DEF Cancel, LocksInMask
    <2>3. LeadCounted'
      BY <1>12 DEF Cancel, LeadCounted
    <2>4. DeferredCovers'
      BY <1>12 DEF Cancel, DeferredCovers
    <2>5. UnlockOrder'
      BY <1>12 DEF Cancel, UnlockOrder, Released
    <2>6. ConfirmedReleases'
      BY <1>12 DEF Cancel, ConfirmedReleases, Released
    <2>7. FailedHoldsNone'
      BY <1>12 DEF Cancel, FailedHoldsNone, NoLocker, Released
    <2>. QED  BY <2>1, <2>2, <2>3, <2>4, <2>5, <2>6, <2>7
  <1>13. CASE Refresh(c)
    <2>1. RequestsAwaited'
      BY <1>13 DEF Refresh, Refreshing, SpawnLockers, RequestsAwaited, NoLocker
    <2>2. LocksInMask'
      BY <1>13 DEF Refresh, Refreshing, SpawnLockers, LocksInMask
    <2>3. LeadCounted'
      BY <1>13 DEF Refresh, Refreshing, SpawnLockers, LeadCounted
    <2>4. DeferredCovers'
      BY <1>13 DEF Refresh, Refreshing, SpawnLockers, DeferredCovers
    <2>5. UnlockOrder'
      BY <1>13 DEF Refresh, Refreshing, SpawnLockers, UnlockOrder, Released
    <2>6. ConfirmedReleases'
      BY <1>13 DEF Refresh, Refreshing, SpawnLockers, ConfirmedReleases, Released
    <2>7. FailedHoldsNone'
      BY <1>13 DEF Refresh, Refreshing, SpawnLockers, FailedHoldsNone, NoLocker, Released
    <2>. QED  BY <2>1, <2>2, <2>3, <2>4, <2>5, <2>6, <2>7
  <1>. QED  BY <1>1, <1>2, <1>3, <1>4, <1>5, <1>6, <1>7, <1>8, <1>9, <1>10,
               <1>11, <1>12, <1>13 DEF Writer

\* So do its goroutines for a blobber.
LEMMA OrderGoroutine ==
  ASSUME ChannelInv, OrderInv, TypeOK', NEW c \in Clients, NEW b \in Blobbers,
         Locker(c, b) \/ Unlocker(c, b)
  PROVE  OrderInv'
  <1> USE MutexConstants DEF OrderInv, ChannelInv, Clean, TypeOK, LockReq, UnlockReq
  <1>1. CASE LockerSeesCancel(c, b)
    <2>1. RequestsAwaited'
      BY <1>1 DEF LockerSeesCancel, RequestsAwaited
    <2>2. LocksInMask'
      BY <1>1 DEF LockerSeesCancel, LocksInMask
    <2>3. LeadCounted'
      BY <1>1 DEF LockerSeesCancel, LeadCounted
    <2>4. DeferredCovers'
      BY <1>1 DEF LockerSeesCancel, DeferredCovers
    <2>5. UnlockOrder'
      BY <1>1 DEF LockerSeesCancel, UnlockOrder, Released
    <2>6. ConfirmedReleases'
      BY <1>1 DEF LockerSeesCancel, ConfirmedReleases, Released
    <2>7. FailedHoldsNone'
      BY <1>1 DEF LockerSeesCancel, FailedHoldsNone, NoLocker, Released
    <2>. QED  BY <2>1, <2>2, <2>3, <2>4, <2>5, <2>6, <2>7
  <1>2. CASE LockerSends(c, b)
    <2>1. RequestsAwaited'
      BY <1>2 DEF LockerSends, RequestsAwaited
    <2>2. LocksInMask'
      BY <1>2 DEF LockerSends, LocksInMask
    <2>3. LeadCounted'
      BY <1>2 DEF LockerSends, LeadCounted
    <2>4. DeferredCovers'
      BY <1>2 DEF LockerSends, DeferredCovers
    <2>5. UnlockOrder'
      BY <1>2 DEF LockerSends, UnlockOrder, Released
    <2>6. ConfirmedReleases'
      BY <1>2 DEF LockerSends, ConfirmedReleases, Released
    <2>7. FailedHoldsNone'
      BY <1>2 DEF LockerSends, FailedHoldsNone, NoLocker, Released
    <2>. QED  BY <2>1, <2>2, <2>3, <2>4, <2>5, <2>6, <2>7
  <1>3. CASE LockerTooMany(c, b)
    <2>1. RequestsAwaited'
      BY <1>3 DEF LockerTooMany, LockerExits, Fail, RequestsAwaited
    <2>2. LocksInMask'
      BY <1>3 DEF LockerTooMany, LockerExits, Fail, LocksInMask
    <2>3. LeadCounted'
      BY <1>3 DEF LockerTooMany, LockerExits, Fail, LeadCounted
    <2>4. DeferredCovers'
      BY <1>3 DEF LockerTooMany, LockerExits, Fail, DeferredCovers
    <2>5. UnlockOrder'
      BY <1>3 DEF LockerTooMany, LockerExits, Fail, UnlockOrder, Released
    <2>6. ConfirmedReleases'
      BY <1>3 DEF LockerTooMany, LockerExits, Fail, ConfirmedReleases, Released
    <2>7. FailedHoldsNone'
      BY <1>3 DEF LockerTooMany, LockerExits, Fail, FailedHoldsNone, NoLocker, Released
    <2>. QED  BY <2>1, <2>2, <2>3, <2>4, <2>5, <2>6, <2>7
  <1>4. CASE LockerError(c, b)
    <2>1. RequestsAwaited'
      BY <1>4 DEF LockerError, LockerFails, LockerExits, Fail, RequestsAwaited
    <2>2. LocksInMask'
      BY <1>4 DEF LockerError, LockerFails, LockerExits, Fail, LocksInMask
    <2>3. LeadCounted'
      BY <1>4 DEF LockerError, LockerFails, LockerExits, Fail, LeadCounted
    <2>4. DeferredCovers'
      BY <1>4 DEF LockerError, LockerFails, LockerExits, Fail, DeferredCovers
    <2>5. UnlockOrder'
      BY <1>4 DEF LockerError, LockerFails, LockerExits, Fail, UnlockOrder, Released
    <2>6. ConfirmedReleases'
      BY <1>4 DEF LockerError, LockerFails, LockerExits, Fail, ConfirmedReleases, Released
    <2>7. FailedHoldsNone'
      BY <1>4 DEF LockerError, LockerFails, LockerExits, Fail, FailedHoldsNone, NoLocker,
         Released
    <2>. QED  BY <2>1, <2>2, <2>3, <2>4, <2>5, <2>6, <2>7
  <1>5. CASE UnlockerSends(c, b)
    <2>1. RequestsAwaited'
      BY <1>5 DEF UnlockerSends, RequestsAwaited
    <2>2. LocksInMask'
      BY <1>5 DEF UnlockerSends, LocksInMask
    <2>3. LeadCounted'
      BY <1>5 DEF UnlockerSends, LeadCounted
    <2>4. DeferredCovers'
      BY <1>5 DEF UnlockerSends, DeferredCovers
    <2>5. UnlockOrder'
      BY <1>5 DEF UnlockerSends, UnlockOrder, Released
    <2>6. ConfirmedReleases'
      BY <1>5 DEF UnlockerSends, ConfirmedReleases, Released
    <2>7. FailedHoldsNone'
      BY <1>5 DEF UnlockerSends, FailedHoldsNone, NoLocker, Released
    <2>. QED  BY <2>1, <2>2, <2>3, <2>4, <2>5, <2>6, <2>7
  <1>6. CASE UnlockerRetries(c, b)
    <2>0. /\ unl[c][b] = "wait" /\ unl'[c][b] \in {"wait", "gaveup"}
          /\ \A d \in Clients, a \in Blobbers : d # c \/ a # b => unl'[d][a] = unl[d][a]
          /\ UNCHANGED <<pc, lead, mask>>
      BY <1>6 DEF UnlockerRetries
    <2>1. RequestsAwaited'
      BY <1>6 DEF UnlockerRetries, Fail, RequestsAwaited
    <2>2. LocksInMask'
      BY <1>6 DEF UnlockerRetries, Fail, LocksInMask
    <2>3. LeadCounted'
      BY <1>6 DEF UnlockerRetries, Fail, LeadCounted
    <2>4. DeferredCovers'
      BY <1>6 DEF UnlockerRetries, Fail, DeferredCovers
    <2>5. UnlockOrder'
      <3> SUFFICES ASSUME NEW d \in Clients PROVE UnlockOrder!(d)'
        BY DEF UnlockOrder
      <3>1. lead[d] \in Blobbers /\ mask[d] \subseteq Blobbers
        OBVIOUS
      <3>2. UnlockOrder!(d)
        BY DEF UnlockOrder
      <3>3. b = lead[c] \/ unl[c][lead[c]] = "none"
        BY <2>0 DEF UnlockOrder, Released
      <3>4. CASE d = c
        <4>1. CASE b = lead[c]
          BY <2>0, <3>1, <3>2, <3>4, <4>1 DEF Released
        <4>2. CASE b # lead[c]
          BY <2>0, <3>1, <3>2, <3>3, <3>4, <4>2 DEF Released
        <4>. QED  BY <4>1, <4>2
      <3>5. CASE d # c
        BY <2>0, <3>1, <3>2, <3>5
      <3>. QED  BY <3>4, <3>5
    <2>6. ConfirmedReleases'
      BY <1>6 DEF UnlockerRetries, Fail, ConfirmedReleases, Released
    <2>7. FailedHoldsNone'
      BY <1>6 DEF UnlockerRetries, Fail, FailedHoldsNone, NoLocker, Released
    <2>. QED  BY <2>1, <2>2, <2>3, <2>4, <2>5, <2>6, <2>7
  <1>7. CASE UnlockerError(c, b)
    <2>1. RequestsAwaited'
      BY <1>7 DEF UnlockerError, Fail, RequestsAwaited
    <2>2. LocksInMask'
      BY <1>7 DEF UnlockerError, Fail, LocksInMask
    <2>3. LeadCounted'
      BY <1>7 DEF UnlockerError, Fail, LeadCounted
    <2>4. DeferredCovers'
      BY <1>7 DEF UnlockerError, Fail, DeferredCovers
    <2>5. UnlockOrder'
      BY <1>7 DEF UnlockerError, Fail, UnlockOrder, Released
    <2>6. ConfirmedReleases'
      BY <1>7 DEF UnlockerError, Fail, ConfirmedReleases, Released
    <2>7. FailedHoldsNone'
      BY <1>7 DEF UnlockerError, Fail, FailedHoldsNone, NoLocker, Released
    <2>. QED  BY <2>1, <2>2, <2>3, <2>4, <2>5, <2>6, <2>7
  <1>. QED  BY <1>1, <1>2, <1>3, <1>4, <1>5, <1>6, <1>7 DEF Locker, Unlocker

\* And the blobbers' answers.
LEMMA OrderService ==
  ASSUME ChannelInv, OrderInv, TypeOK', NEW c \in Clients, NEW b \in Blobbers,
         Service(c, b)
  PROVE  OrderInv'
  <1> USE MutexConstants DEF OrderInv, ChannelInv, Clean, TypeOK, LockReq, UnlockReq
  <1>1. CASE ServeLock(c, b)
    <2>0. /\ lk[c][b] = "wait" /\ lk' = [lk EXCEPT ![c][b] = "none"]
          /\ holder' = [holder EXCEPT ![b] = c]
          /\ UNCHANGED <<pc, lead, lost>>
          /\ \A d \in Clients \ {c} : consensus'[d] = consensus[d]
          /\ pc[c] \in InLock => consensus'[c] = consensus[c] + 1
      BY <1>1 DEF ServeLock, LockerOK, LockerExits, InLock
    <2>1. RequestsAwaited'
      BY <1>1 DEF ServeLock, LockerOK, LockerExits, Grants, RequestsAwaited
    <2>2. LocksInMask'
      BY <1>1 DEF ServeLock, LockerOK, LockerExits, Grants, LocksInMask
    <2>3. LeadCounted'
      <3>1. pc[c] # "idle" /\ (pc[c] = "lead" => b = lead[c])
        BY <2>0 DEF LeadCounted
      <3>2. pc[c] = "lead" => consensus[c] = AddConsensus
        BY <2>0, <3>1 DEF LeadCounted
      <3>3. pc[c] = "lead" => consensus'[c] = AddConsensus + 1 /\ lk'[c][lead[c]] = "none"
        BY <2>0, <3>1, <3>2 DEF InLock
      <3>4. \A a \in Blobbers : a # b => lk'[c][a] = lk[c][a] /\ holder'[a] = holder[a]
        BY <2>0
      <3>5. \A d \in Clients, a \in Blobbers :
              d # c => lk'[d][a] = lk[d][a] /\ (holder'[a] = d => holder[a] = d)
        BY <2>0
      <3>. QED  BY <2>0, <3>1, <3>3, <3>4, <3>5 DEF LeadCounted
    <2>4. DeferredCovers'
      BY <1>1 DEF ServeLock, LockerOK, LockerExits, Grants, DeferredCovers
    <2>5. UnlockOrder'
      BY <1>1 DEF ServeLock, LockerOK, LockerExits, Grants, UnlockOrder, Released
    <2>6. ConfirmedReleases'
      BY <1>1 DEF ServeLock, LockerOK, LockerExits, Grants, ConfirmedReleases, Released,
         SlotOwner, Unlocking
    <2>7. FailedHoldsNone'
      BY <1>1 DEF ServeLock, LockerOK, LockerExits, Grants, FailedHoldsNone, NoLocker,
         Released
    <2>. QED  BY <2>1, <2>2, <2>3, <2>4, <2>5, <2>6, <2>7
  <1>2. CASE ServeLockUnheard(c, b)
    <2>1. RequestsAwaited'
      BY <1>2 DEF ServeLockUnheard, clientVars, Grants, Fail, RequestsAwaited
    <2>2. LocksInMask'
      BY <1>2 DEF ServeLockUnheard, clientVars, Grants, Fail, LocksInMask
    <2>3. LeadCounted'
      BY <1>2 DEF ServeLockUnheard, clientVars, Grants, Fail, LeadCounted, RequestsAwaited
    <2>4. DeferredCovers'
      BY <1>2 DEF ServeLockUnheard, clientVars, Grants, Fail, DeferredCovers
    <2>5. UnlockOrder'
      BY <1>2 DEF ServeLockUnheard, clientVars, Grants, Fail, UnlockOrder, Released
    <2>6. ConfirmedReleases'
      BY <1>2 DEF ServeLockUnheard, clientVars, Grants, Fail, ConfirmedReleases, Released
    <2>7. FailedHoldsNone'
      BY <1>2 DEF ServeLockUnheard, clientVars, Grants, Fail, FailedHoldsNone, NoLocker,
         Released
    <2>. QED  BY <2>1, <2>2, <2>3, <2>4, <2>5, <2>6, <2>7
  <1>3. CASE ServePending(c, b)
    <2>1. RequestsAwaited'
      BY <1>3 DEF ServePending, vars, RequestsAwaited
    <2>2. LocksInMask'
      BY <1>3 DEF ServePending, vars, LocksInMask
    <2>3. LeadCounted'
      BY <1>3 DEF ServePending, vars, LeadCounted
    <2>4. DeferredCovers'
      BY <1>3 DEF ServePending, vars, DeferredCovers
    <2>5. UnlockOrder'
      BY <1>3 DEF ServePending, vars, UnlockOrder, Released
    <2>6. ConfirmedReleases'
      BY <1>3 DEF ServePending, vars, ConfirmedReleases, Released
    <2>7. FailedHoldsNone'
      BY <1>3 DEF ServePending, vars, FailedHoldsNone, NoLocker, Released
    <2>. QED  BY <2>1, <2>2, <2>3, <2>4, <2>5, <2>6, <2>7
  <1>4. CASE ServeUnlock(c, b)
    <2>1. RequestsAwaited'
      BY <1>4 DEF ServeUnlock, RequestsAwaited
    <2>2. LocksInMask'
      BY <1>4 DEF ServeUnlock, LocksInMask
    <2>3. LeadCounted'
      BY <1>4 DEF ServeUnlock, LeadCounted
    <2>4. DeferredCovers'
      BY <1>4 DEF ServeUnlock, DeferredCovers
    <2>5. UnlockOrder'
      BY <1>4 DEF ServeUnlock, UnlockOrder, Released
    <2>6. ConfirmedReleases'
      BY <1>4 DEF ServeUnlock, ConfirmedReleases, Released
    <2>7. FailedHoldsNone'
      BY <1>4 DEF ServeUnlock, FailedHoldsNone, NoLocker, Released
    <2>. QED  BY <2>1, <2>2, <2>3, <2>4, <2>5, <2>6, <2>7
  <1>5. CASE Drop(c, b)
    <2>1. RequestsAwaited'
      BY <1>5 DEF Drop, clientVars, RequestsAwaited
    <2>2. LocksInMask'
      BY <1>5 DEF Drop, clientVars, LocksInMask
    <2>3. LeadCounted'
      BY <1>5 DEF Drop, clientVars, LeadCounted
    <2>4. DeferredCovers'
      BY <1>5 DEF Drop, clientVars, DeferredCovers
    <2>5. UnlockOrder'
      BY <1>5 DEF Drop, clientVars, UnlockOrder, Released
    <2>6. ConfirmedReleases'
      BY <1>5 DEF Drop, clientVars, ConfirmedReleases, Released
    <2>7. FailedHoldsNone'
      BY <1>5 DEF Drop, clientVars, FailedHoldsNone, NoLocker, Released
    <2>. QED  BY <2>1, <2>2, <2>3, <2>4, <2>5, <2>6, <2>7
  <1>. QED  BY <1>1, <1>2, <1>3, <1>4, <1>5 DEF Service

\* Nobody holds a lock at the start.
LEMMA OrderInit == Init => OrderInv
  BY MutexConstants DEF Init, OrderInv, RequestsAwaited, LocksInMask, LeadCounted, DeferredCovers,
     UnlockOrder, ConfirmedReleases, FailedHoldsNone, Clean, Released, Blobbers

\* Every step keeps the order of unlocking.
LEMMA OrderNext == ChannelInv /\ OrderInv /\ [Next]_vars => OrderInv'
  <1> SUFFICES ASSUME ChannelInv, OrderInv, [Next]_vars PROVE OrderInv'
    OBVIOUS
  <1>0. TypeOK'
    BY TypeNext DEF ChannelInv
  <1>1. ASSUME NEW c \in Clients, Writer(c) \/ Refresh(c) PROVE OrderInv'
    BY <1>0, <1>1, OrderWriter
  <1>2. ASSUME NEW c \in Clients, NEW b \in Blobbers, Locker(c, b) \/ Unlocker(c, b)
        PROVE  OrderInv'
    BY <1>0, <1>2, OrderGoroutine
  <1>3. ASSUME NEW c \in Clients, NEW b \in Blobbers, Service(c, b) PROVE OrderInv'
    BY <1>0, <1>3, OrderService
  <1>4. ASSUME NEW b \in Blobbers, Expire(b) PROVE OrderInv'
    BY <1>4, MutexConstants DEF Expire, clientVars, OrderInv, ChannelInv, TypeOK,
       RequestsAwaited, LocksInMask, LeadCounted, DeferredCovers, UnlockOrder,
       ConfirmedReleases, FailedHoldsNone, Clean, NoLocker
  <1>5. CASE Terminated \/ UNCHANGED vars
    BY <1>5 DEF Terminated, vars, OrderInv, RequestsAwaited, LocksInMask,
       LeadCounted, DeferredCovers, UnlockOrder, ConfirmedReleases, FailedHoldsNone, Clean, NoLocker
  <1>. QED  BY <1>1, <1>2, <1>3, <1>4, <1>5 DEF Next

\* A writer's unlock gives every lock back, the lead's last, except where an exchange
\* with the blobber failed: Lock asks only for locks of the mask and the lead, the
\* refresher cannot retake one behind Unlock's back, and Unlock waits for the others
\* before the lead (writemarker_mutex.go Unlock).
THEOREM LeadReleasedLast == Spec => []LeadUnlockedLast
  <1>1. ChannelInv /\ OrderInv => LeadUnlockedLast
    <2> SUFFICES ASSUME ChannelInv, OrderInv,
                        NEW c \in Clients, NEW b \in Blobbers, holder[b] = c, Clean(c, b),
                        \/ unl[c][lead[c]] # "none" /\ b # lead[c]
                        \/ pc[c] \in Finished \cup {"unlocked"}
                 PROVE  FALSE
      BY DEF LeadUnlockedLast, Clean
    <2> USE DEF ChannelInv, OrderInv, TypeOK
    <2>1. b \in mask[c] \cup {lead[c]}
      BY DEF LocksInMask
    <2>2. unl[c][b] \notin Released
      BY DEF ConfirmedReleases
    <2>3. ASSUME unl[c][lead[c]] # "none", b # lead[c] PROVE FALSE
      BY <2>1, <2>2, <2>3 DEF UnlockOrder
    <2>4. ASSUME pc[c] \in Finished \cup {"unlocked"} PROVE unl[c][lead[c]] \in Released
      BY <2>4 DEF UnlockOrder, FailedHoldsNone, Finished
    <2>. QED  BY <2>2, <2>3, <2>4 DEF Released
  <1>. QED  BY <1>1, ChannelInit, ChannelNext, OrderInit, OrderNext, PTL DEF Spec

-----------------------------------------------------------------------------
(***************************************************************************)
(* The quorum lock implements the abstract one.  Only LockReturns needs    *)
(* the invariant: no other writer is inside when it is taken.              *)
(***************************************************************************)

\* The roles are well defined.
LEMMA RoleValues ==
  /\ Role("idle") = "idle"
  /\ Role("lead") = "waiting" /\ Role("others") = "waiting"
  /\ Role("locked") = "holding" /\ Role("commit") = "holding"
  /\ Role("unlock") = "released" /\ Role("unlocked") = "released" /\ Role("done") = "released"
  /\ Role("abort") = "refused" /\ Role("failed") = "refused"
  BY DEF Role, InLock, InCritical

\* A writer that moves from one place to another changes its own role only.
LEMMA RoleMoves ==
  ASSUME TypeOK, NEW c \in Clients, NEW p \in PCs, pc' = [pc EXCEPT ![c] = p]
  PROVE  /\ Roles' = [Roles EXCEPT ![c] = Role(p)]
         /\ Roles[c] = Role(pc[c])
         /\ Role(p) = Role(pc[c]) => Roles' = Roles
  BY DEF Roles, TypeOK

\* A step that leaves the writers where they are is invisible.
LEMMA RoleStutters ==
  ASSUME pc' = pc
  PROVE  Roles' = Roles
  BY DEF Roles

\* Only a writer inside has the role of a holder.
LEMMA HolderInside ==
  ASSUME TypeOK, NEW c \in Clients, Roles[c] = "holding"
  PROVE  pc[c] \in InCritical
  BY RoleValues DEF Roles, TypeOK, PCs, InCritical

\* Writers exclude each other after a step, too.
LEMMA Exclusion == QuorumsIntersect /\ IndInv => MutualExclusion
  BY IndExclusion
LEMMA ExclusionNext == QuorumsIntersect' /\ IndInv' => MutualExclusion'
  BY Exclusion, PTL

\* Every step of a writer is a step of the abstract lock, or none.
LEMMA WriterRefines ==
  ASSUME QuorumsIntersect, IndInv, IndInv', NEW c \in Clients, Writer(c)
  PROVE  [L!Next]_Roles
  <1>0. TypeOK
    BY DEF IndInv
  <1>1. CASE LockLead(c)
    <2>1. pc[c] = "idle" /\ pc' = [pc EXCEPT ![c] = "lead"] /\ "lead" \in PCs
      BY <1>1 DEF LockLead, PCs
    <2>2. Roles' = [Roles EXCEPT ![c] = Role("lead")] /\ Roles[c] = Role("idle")
      BY <1>0, <2>1, RoleMoves
    <2>. QED  BY <2>2, RoleValues DEF L!Next, L!Ask
  <1>2. CASE NextLead(c)
    BY <1>2, RoleStutters DEF NextLead
  <1>3. CASE LeadFails(c) \/ LeadDeadline(c)
    <2>1. pc[c] = "lead" /\ pc' = [pc EXCEPT ![c] = "failed"] /\ "failed" \in PCs
      BY <1>3 DEF LeadFails, LeadDeadline, PCs
    <2>2. Roles' = [Roles EXCEPT ![c] = Role("failed")] /\ Roles[c] = Role("lead")
      BY <1>0, <2>1, RoleMoves
    <2>. QED  BY <2>2, RoleValues DEF L!Next, L!Refuse
  <1>4. CASE LockOthers(c)
    <2>1. pc[c] = "lead" /\ pc' = [pc EXCEPT ![c] = "others"] /\ "others" \in PCs
      BY <1>4 DEF LockOthers, PCs
    <2>. QED  BY <1>0, <2>1, RoleMoves, RoleValues
  <1>5. CASE LockReturns(c)
    <2>1. pc[c] = "others" /\ pc' = [pc EXCEPT ![c] = "locked"] /\ "locked" \in PCs
      BY <1>5 DEF LockReturns, PCs
    <2>2. Roles' = [Roles EXCEPT ![c] = Role("locked")] /\ Roles[c] = Role("others")
      BY <1>0, <2>1, RoleMoves
    <2>3. MutualExclusion'
      BY ExclusionNext DEF QuorumsIntersect
    <2>4. ASSUME NEW d \in Clients PROVE Roles[d] # "holding"
      <3>1. SUFFICES ASSUME Roles[d] = "holding" PROVE FALSE
        OBVIOUS
      <3>2. pc[d] \in InCritical
        BY <1>0, <3>1, HolderInside
      <3>3. d # c
        BY <2>1, <3>2 DEF InCritical
      <3>4. pc'[c] \in InCritical /\ pc'[d] \in InCritical
        BY <1>0, <2>1, <3>2, <3>3 DEF InCritical, TypeOK
      <3>. QED  BY <2>3, <3>3, <3>4 DEF MutualExclusion
    <2>. QED  BY <2>2, <2>4, RoleValues DEF L!Next, L!Grant
  <1>6. CASE LockAborts(c)
    <2>1. pc[c] = "others" /\ pc' = [pc EXCEPT ![c] = "abort"] /\ "abort" \in PCs
      BY <1>6 DEF LockAborts, PCs
    <2>2. Roles' = [Roles EXCEPT ![c] = Role("abort")] /\ Roles[c] = Role("others")
      BY <1>0, <2>1, RoleMoves
    <2>. QED  BY <2>2, RoleValues DEF L!Next, L!Refuse
  <1>7. CASE DeferUnlock(c)
    <2>1. pc[c] = "locked" /\ pc' = [pc EXCEPT ![c] = "commit"] /\ "commit" \in PCs
      BY <1>7 DEF DeferUnlock, PCs
    <2>. QED  BY <1>0, <2>1, RoleMoves, RoleValues
  <1>8. CASE CallUnlock(c)
    <2>1. pc[c] \in {"locked", "commit"} /\ pc' = [pc EXCEPT ![c] = "unlock"] /\ "unlock" \in PCs
      BY <1>8 DEF CallUnlock, InCritical, PCs
    <2>2. Roles' = [Roles EXCEPT ![c] = Role("unlock")] /\ Roles[c] = Role(pc[c])
      BY <1>0, <2>1, RoleMoves
    <2>3. Roles[c] = "holding"
      BY <2>1, <2>2, RoleValues
    <2>. QED  BY <2>2, <2>3, RoleValues DEF L!Next, L!Release
  <1>9. CASE UnlockLead(c)
    BY <1>9, RoleStutters DEF UnlockLead
  <1>10. CASE UnlockReturns(c)
    <2>1. CASE pc[c] = "abort"
      <3>1. pc' = [pc EXCEPT ![c] = "failed"] /\ "failed" \in PCs
        BY <1>10, <2>1 DEF UnlockReturns, PCs
      <3>. QED  BY <1>0, <2>1, <3>1, RoleMoves, RoleValues
    <2>2. CASE pc[c] = "unlock"
      <3>1. pc' = [pc EXCEPT ![c] = "unlocked"] /\ "unlocked" \in PCs
        BY <1>10, <2>2 DEF UnlockReturns, PCs
      <3>. QED  BY <1>0, <2>2, <3>1, RoleMoves, RoleValues
    <2>. QED  BY <1>10, <2>1, <2>2 DEF UnlockReturns
  <1>11. CASE Cancel(c)
    <2>1. pc[c] = "unlocked" /\ pc' = [pc EXCEPT ![c] = "done"] /\ "done" \in PCs
      BY <1>11 DEF Cancel, PCs
    <2>. QED  BY <1>0, <2>1, RoleMoves, RoleValues
  <1>. QED  BY <1>1, <1>2, <1>3, <1>4, <1>5, <1>6, <1>7, <1>8, <1>9, <1>10, <1>11 DEF Writer

\* Every step of the system is a step of the abstract lock, or none.
LEMMA NextRefines ==
  ASSUME QuorumsIntersect, ~ExpireEarly, IndInv, IndInv', [Next]_vars
  PROVE  [L!Next]_Roles
  <1>1. ASSUME NEW c \in Clients, Writer(c) PROVE [L!Next]_Roles
    BY <1>1, WriterRefines
  <1>2. ASSUME NEW c \in Clients, NEW b \in Blobbers,
               Locker(c, b) \/ Unlocker(c, b) \/ Service(c, b)
        PROVE  pc' = pc
    BY <1>2 DEF Locker, Unlocker, Service, LockerSeesCancel, LockerSends, LockerTooMany,
       LockerError, UnlockerSends, UnlockerRetries, UnlockerError, ServeLock, LockerOK,
       ServeLockUnheard, ServePending, ServeUnlock, Drop, clientVars, vars
  <1>3. ASSUME NEW c \in Clients, Refresh(c) PROVE pc' = pc
    BY <1>3 DEF Refresh
  <1>4. ASSUME NEW b \in Blobbers, Expire(b) PROVE pc' = pc
    BY <1>4 DEF Expire, clientVars
  <1>5. CASE Terminated \/ UNCHANGED vars
    BY <1>5, RoleStutters DEF Terminated, vars
  <1>. QED  BY <1>1, <1>2, <1>3, <1>4, <1>5, RoleStutters DEF Next

\* The write-marker mutex implements AllocationLock for any number of writers, blobbers
\* and failed exchanges, if lock quorums intersect and no busy writer's lock expires.
THEOREM MutexImplementsLock ==
  ASSUME QuorumsIntersect, ~ExpireEarly
  PROVE  Spec => ImplementsLock
  <1>1. Init => IndInv /\ L!Init
    <2>1. Init => Roles = [c \in Clients |-> "idle"]
      BY RoleValues DEF Init, Roles
    <2>. QED  BY <2>1, IndInit DEF L!Init
  <1>2. IndInv /\ [Next]_vars => IndInv'
    BY IndNext
  <1>3. IndInv /\ IndInv' /\ [Next]_vars => [L!Next]_Roles
    BY NextRefines
  <1>. QED  BY <1>1, <1>2, <1>3, PTL DEF Spec, ImplementsLock, L!Spec
=============================================================================
