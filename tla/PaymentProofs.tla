------------------------------ MODULE PaymentProofs ------------------------------
(*****************************************************************************)
(* Two components that pay, for every number of blobbers, requests, miners,  *)
(* transactions, retries and faults:                                         *)
(*                                                                           *)
(* the client's read counter never runs ahead of a blobber's, a batch pays a *)
(* blobber at most once per try, only what was paid is downloaded, and what  *)
(* was paid is lost only to a race of two goroutines (ReadMarker); what is   *)
(* reported of a transaction is what the miners said, and a wallet outlives  *)
(* every lost or stale nonce (TxnNonce).                                     *)
(*****************************************************************************)
EXTENDS ReadMarker, TxnNonce, FiniteSetTheorems, TLAPS

AnswerKinds == {"none", "ok", "stale", "denied", "busy", "error"}
Works == {"none", "try", "sent", "accepted", "or", "done", "failed"}

\* The part of the types the argument needs.
Types ==
  /\ next \in Int
  /\ phase \in [Batches -> {"none", "prepare", "submit", "done"}]
  /\ blobberMap \in [Batches -> [Blobbers -> Nat]]
  /\ work \in [Batches -> [Blobbers -> Works]]
  /\ counter \in [Batches -> [Blobbers -> Int]]
  /\ answer \in [Batches -> [Blobbers -> [kind : AnswerKinds, rm : Int]]]
  /\ ctr \in [Blobbers -> Int]
  /\ latest \in [Blobbers -> Int]
  /\ holder \in [Blobbers -> Batches \union {None}]

\* The sums do not change once goroutines submit them.
SumsFixed ==
  /\ \A k \in Batches : k >= next => phase[k] = "none"
  /\ \A k \in Batches, b \in Blobbers :
       work[k][b] # "none" => phase[k] \in {"submit", "done"}

\* A marker in flight belongs to the holder of the blobber's mutex.
InFlightHolds ==
  \A k \in Batches, b \in Blobbers :
    /\ work[k][b] = "sent" => holder[b] = k
    /\ answer[k][b] # NoAnswer => work[k][b] = "sent"

\* The counter it was built from is still there, and what came back is not news from
\* the future.
InFlightFits ==
  \A k \in Batches, b \in Blobbers : work[k][b] = "sent" =>
    /\ counter[k][b] = ctr[b] + blobberMap[k][b]
    /\ answer[k][b].kind = "ok" => counter[k][b] <= latest[b]
    /\ answer[k][b].kind = "stale" => answer[k][b].rm <= latest[b]

CInv == Types /\ SumsFixed /\ InFlightHolds /\ InFlightFits /\ CounterNotAhead

LEMMA BatchIsNumber == \A k \in Batches : k \in Int /\ k # None
BY ReadMarkerConstants DEF Batches, None

LEMMA CInit == Init => CInv
<1> SUFFICES ASSUME Init PROVE CInv OBVIOUS
<1> USE DEF Init
<1>1. /\ work = [k \in Batches |-> [b \in Blobbers |-> "none"]]
      /\ blobberMap = [k \in Batches |-> [b \in Blobbers |-> 0]]
      /\ counter = [k \in Batches |-> [b \in Blobbers |-> 0]]
      /\ answer = [k \in Batches |-> [b \in Blobbers |-> NoAnswer]]
  BY DEF Per
<1>2. NoAnswer \in [kind : AnswerKinds, rm : Int] BY DEF NoAnswer, AnswerKinds
<1>3. Types BY <1>1, <1>2 DEF Types, Works
<1>4. SumsFixed BY <1>1 DEF SumsFixed
<1>5. InFlightHolds /\ InFlightFits BY <1>1, <1>2 DEF InFlightHolds, InFlightFits
<1>6. CounterNotAhead BY DEF CounterNotAhead
<1> QED BY <1>3, <1>4, <1>5, <1>6 DEF CInv

\* The variables the invariant is about, except those of the phases.
Core == <<blobberMap, work, counter, answer, ctr, latest, holder>>

LEMMA CoreStep ==
  ASSUME CInv, UNCHANGED Core, next' \in Int,
         phase' \in [Batches -> {"none", "prepare", "submit", "done"}], SumsFixed'
  PROVE  CInv'
BY DEF CInv, Types, InFlightHolds, InFlightFits, CounterNotAhead, Core

\* The calls of the user.
LEMMA CallStep ==
  ASSUME CInv, NEW r \in Requests, Call(r) \/ Cancel(r)
  PROVE  CInv'
<1> USE DEF CInv, Types
<1>1. ASSUME AddRequest(r) PROVE CInv'
  <2>1. UNCHANGED Core BY <1>1 DEF AddRequest, Core, subVars, ctrVars, extVars
  <2>2. r = next /\ next' = next + 1 /\ r \in Int BY <1>1 DEF AddRequest
  <2>3. phase' \in [Batches -> {"none", "prepare", "submit", "done"}]
    BY <1>1 DEF AddRequest, Batches
  <2>4. \A k \in Batches : k # r => phase'[k] = phase[k]
    BY <1>1 DEF AddRequest, Batches
  <2>5. SumsFixed'
    <3>1. ASSUME NEW k \in Batches, k >= next' PROVE phase'[k] = "none"
      <4>1. k \in Int /\ next \in Int BY BatchIsNumber
      <4>2. k # r /\ k >= next BY <3>1, <4>1, <2>2
      <4> QED BY <4>2, <2>4 DEF SumsFixed
    <3>2. ASSUME NEW k \in Batches, NEW b \in Blobbers, work'[k][b] # "none"
          PROVE  phase'[k] \in {"submit", "done"}
      <4>1. phase[k] \in {"submit", "done"} BY <3>2, <2>1 DEF SumsFixed, Core
      <4>2. ~(k >= next) BY <4>1 DEF SumsFixed
      <4>3. k # r BY <4>2, <2>2, BatchIsNumber
      <4> QED BY <4>1, <4>3, <2>4
    <3> QED BY <3>1, <3>2 DEF SumsFixed
  <2> QED BY <2>1, <2>2, <2>3, <2>5, CoreStep
<1>2. ASSUME RefuseRequest(r) PROVE CInv'
  <2>1. UNCHANGED Core /\ phase' = phase /\ next' = next + 1
    BY <1>2 DEF RefuseRequest, Core, subVars, ctrVars, extVars
  <2>2. SumsFixed' BY <2>1, BatchIsNumber DEF SumsFixed, Core
  <2> QED BY <2>1, <2>2, CoreStep
<1>3. ASSUME Cancel(r) PROVE CInv'
  <2>1. UNCHANGED <<Core, phase, next>>
    BY <1>3 DEF Cancel, Core, subVars, ctrVars, extVars
  <2>2. SumsFixed' BY <2>1 DEF SumsFixed, Core
  <2> QED BY <2>1, <2>2, CoreStep
<1> QED BY <1>1, <1>2, <1>3 DEF Call

\* The steps of processReadMarker outside its goroutines.
LEMMA BatchStep ==
  ASSUME CInv, NEW k \in Batches,
         Prepare(k) \/ SendFree(k) \/ StartSubmitting(k) \/ Finish(k)
  PROVE  CInv'
<1> USE DEF CInv, Types
<1>1. ASSUME NEW r \in Requests, PrepareFound(k, r) PROVE CInv'
  <2>1. /\ phase[k] = "prepare" /\ Blocks[r] \in Nat
        /\ UNCHANGED <<next, phase, work, counter, answer, ctr, latest, holder>>
    BY <1>1, ReadMarkerConstants DEF PrepareFound, ctrVars, extVars, Requests
  <2>2. PICK m \in SUBSET Blobbers :
          blobberMap' = [blobberMap EXCEPT ![k] = [b \in Blobbers |->
            blobberMap[k][b] + (IF b \in m THEN Blocks[r] ELSE 0)]]
    BY <1>1 DEF PrepareFound
  <2>3. blobberMap' \in [Batches -> [Blobbers -> Nat]]
    <3>1. [b \in Blobbers |-> blobberMap[k][b] + (IF b \in m THEN Blocks[r] ELSE 0)]
            \in [Blobbers -> Nat]
      BY <2>1
    <3> QED BY <3>1, <2>2
  <2>4. \A j \in Batches : j # k => blobberMap'[j] = blobberMap[j] BY <2>2
  <2>5. \A b \in Blobbers : work[k][b] = "none" BY <2>1 DEF SumsFixed
  <2>6. SumsFixed' /\ InFlightHolds' /\ CounterNotAhead'
    BY <2>1 DEF SumsFixed, InFlightHolds, CounterNotAhead
  <2>7. InFlightFits'
    <3> SUFFICES ASSUME NEW j \in Batches, NEW b \in Blobbers, work[j][b] = "sent"
                 PROVE  /\ counter[j][b] = ctr[b] + blobberMap'[j][b]
                        /\ answer[j][b].kind = "ok" => counter[j][b] <= latest[b]
                        /\ answer[j][b].kind = "stale" => answer[j][b].rm <= latest[b]
      BY <2>1 DEF InFlightFits
    <3> QED BY <2>4, <2>5 DEF InFlightFits
  <2> QED BY <2>1, <2>3, <2>6, <2>7
<1>2. ASSUME NEW r \in Requests, PrepareError(k, r) PROVE CInv'
  <2>1. UNCHANGED <<Core, phase, next>>
    BY <1>2 DEF PrepareError, Core, subVars, ctrVars, extVars
  <2>2. SumsFixed' BY <2>1 DEF SumsFixed, Core
  <2> QED BY <2>1, <2>2, CoreStep
<1>3. ASSUME SendFree(k) \/ Finish(k) PROVE CInv'
  <2>1. UNCHANGED <<Core, next>> /\ phase' = [phase EXCEPT ![k] = "done"] /\ phase[k] # "none"
    BY <1>3 DEF SendFree, Finish, Prepared, Core, subVars, ctrVars, extVars
  <2>2. SumsFixed' BY <2>1 DEF SumsFixed, Core
  <2> QED BY <2>1, <2>2, CoreStep
<1>4. ASSUME StartSubmitting(k) PROVE CInv'
  <2>1. /\ phase[k] = "prepare" /\ phase' = [phase EXCEPT ![k] = "submit"]
        /\ work' = [work EXCEPT ![k] =
             [b \in Blobbers |-> IF blobberMap[k][b] > 0 THEN "try" ELSE "none"]]
        /\ UNCHANGED <<next, blobberMap, counter, answer, ctr, latest, holder>>
    BY <1>4 DEF StartSubmitting, Prepared, reqVars, ctrVars, extVars
  <2>2. \A b \in Blobbers : work[k][b] = "none" /\ answer[k][b] = NoAnswer
    BY <2>1 DEF SumsFixed, InFlightHolds
  <2>3. /\ work' \in [Batches -> [Blobbers -> Works]]
        /\ \A b \in Blobbers : work'[k][b] # "sent"
        /\ \A j \in Batches : j # k => work'[j] = work[j]
    BY <2>1 DEF Works
  <2>4. SumsFixed' BY <2>1, <2>3 DEF SumsFixed
  <2>5. InFlightHolds' BY <2>1, <2>2, <2>3 DEF InFlightHolds
  <2>6. InFlightFits' /\ CounterNotAhead' BY <2>1, <2>3 DEF InFlightFits, CounterNotAhead
  <2> QED BY <2>1, <2>3, <2>4, <2>5, <2>6
<1> QED BY <1>1, <1>2, <1>3, <1>4 DEF Prepare
\* A marker in flight is answered; the blobber's counter may grow.
LEMMA AnswerStep ==
  ASSUME CInv, NEW k \in Batches, NEW b \in Blobbers, Waiting(k, b),
         UNCHANGED <<next, phase, blobberMap, work, counter, ctr, holder>>,
         latest' \in [Blobbers -> Int], \A c \in Blobbers : latest[c] <= latest'[c],
         NEW a \in AnswerKinds, NEW n \in Int, Answer(k, b, a, n),
         a = "ok" => counter[k][b] <= latest'[b],
         a = "stale" => n <= latest'[b]
  PROVE  CInv'
<1> USE DEF CInv, Types
<1>1. [kind |-> a, rm |-> n] \in [kind : AnswerKinds, rm : Int] OBVIOUS
<1>2. /\ answer' \in [Batches -> [Blobbers -> [kind : AnswerKinds, rm : Int]]]
      /\ answer'[k][b] = [kind |-> a, rm |-> n]
      /\ \A j \in Batches, c \in Blobbers :
           (j # k \/ c # b) => answer'[j][c] = answer[j][c]
  BY <1>1 DEF Answer, Set
<1>3. SumsFixed' BY DEF SumsFixed
<1>4. InFlightHolds'
  <2> SUFFICES ASSUME NEW j \in Batches, NEW c \in Blobbers
               PROVE  /\ work[j][c] = "sent" => holder[c] = j
                      /\ answer'[j][c] # NoAnswer => work[j][c] = "sent"
    BY DEF InFlightHolds
  <2>1. CASE j = k /\ c = b BY <2>1 DEF Waiting, InFlightHolds
  <2>2. CASE j # k \/ c # b BY <2>2, <1>2 DEF InFlightHolds
  <2> QED BY <2>1, <2>2
<1>5. InFlightFits'
  <2> SUFFICES ASSUME NEW j \in Batches, NEW c \in Blobbers, work[j][c] = "sent"
               PROVE  /\ counter[j][c] = ctr[c] + blobberMap[j][c]
                      /\ answer'[j][c].kind = "ok" => counter[j][c] <= latest'[c]
                      /\ answer'[j][c].kind = "stale" => answer'[j][c].rm <= latest'[c]
    BY DEF InFlightFits
  <2>1. CASE j = k /\ c = b BY <2>1, <1>2 DEF InFlightFits
  <2>2. CASE j # k \/ c # b
    <3>1. answer'[j][c] = answer[j][c] /\ answer[j][c].rm \in Int
      BY <2>2, <1>2
    <3>2. counter[j][c] \in Int /\ latest[c] \in Int /\ latest'[c] \in Int /\ latest[c] <= latest'[c]
      OBVIOUS
    <3> QED BY <3>1, <3>2 DEF InFlightFits
  <2> QED BY <2>1, <2>2
<1>6. CounterNotAhead'
  <2> SUFFICES ASSUME NEW c \in Blobbers PROVE ctr[c] <= latest'[c] BY DEF CounterNotAhead
  <2>1. ctr[c] <= latest[c] /\ latest[c] <= latest'[c] BY DEF CounterNotAhead
  <2>2. ctr[c] \in Int /\ latest[c] \in Int /\ latest'[c] \in Int OBVIOUS
  <2> QED BY <2>1, <2>2
<1> QED BY <1>2, <1>3, <1>4, <1>5, <1>6

\* An attempt ends: the counter is set to something the blobber has, the mutex is free.
LEMMA HandleStep ==
  ASSUME CInv, NEW k \in Batches, NEW b \in Blobbers, answer[k][b] # NoAnswer,
         NEW w \in Works, w \notin {"none", "sent"}, Return(k, b, w),
         NEW n \in Int, n <= latest[b], ctr' = [ctr EXCEPT ![b] = n], Unlock(b),
         UNCHANGED <<next, phase, blobberMap, counter, latest>>
  PROVE  CInv'
<1> USE DEF CInv, Types
<1>1. work[k][b] = "sent" /\ holder[b] = k BY DEF InFlightHolds
<1>2. /\ work' \in [Batches -> [Blobbers -> Works]]
      /\ work'[k][b] = w
      /\ \A j \in Batches, c \in Blobbers : (j # k \/ c # b) => work'[j][c] = work[j][c]
  BY DEF Return, Set
<1>3. NoAnswer \in [kind : AnswerKinds, rm : Int] BY DEF NoAnswer, AnswerKinds
<1>4. /\ answer' \in [Batches -> [Blobbers -> [kind : AnswerKinds, rm : Int]]]
      /\ answer'[k][b] = NoAnswer
      /\ \A j \in Batches, c \in Blobbers :
           (j # k \/ c # b) => answer'[j][c] = answer[j][c]
  BY <1>3 DEF Return, Set
<1>5. /\ ctr' \in [Blobbers -> Int] /\ holder' \in [Blobbers -> Batches \union {None}]
      /\ \A c \in Blobbers : c # b => ctr'[c] = ctr[c] /\ holder'[c] = holder[c]
  BY DEF Unlock
<1>6. SumsFixed'
  <2> SUFFICES ASSUME NEW j \in Batches, NEW c \in Blobbers, work'[j][c] # "none"
               PROVE  phase[j] \in {"submit", "done"}
    BY DEF SumsFixed
  <2>1. work[j][c] # "none" BY <1>1, <1>2
  <2> QED BY <2>1 DEF SumsFixed
<1>7. \A j \in Batches, c \in Blobbers : work'[j][c] = "sent" => c # b /\ work[j][c] = "sent"
  <2> SUFFICES ASSUME NEW j \in Batches, NEW c \in Blobbers, work'[j][c] = "sent"
               PROVE  c # b /\ work[j][c] = "sent"
    OBVIOUS
  <2>1. j # k \/ c # b BY <1>2
  <2>2. work[j][c] = "sent" BY <2>1, <1>2
  <2>3. holder[c] = j BY <2>2 DEF InFlightHolds
  <2> QED BY <2>1, <2>2, <2>3, <1>1
<1>8. InFlightHolds'
  <2> SUFFICES ASSUME NEW j \in Batches, NEW c \in Blobbers
               PROVE  /\ work'[j][c] = "sent" => holder'[c] = j
                      /\ answer'[j][c] # NoAnswer => work'[j][c] = "sent"
    BY DEF InFlightHolds
  <2>1. work'[j][c] = "sent" => holder'[c] = j BY <1>5, <1>7 DEF InFlightHolds
  <2>2. ASSUME answer'[j][c] # NoAnswer PROVE work'[j][c] = "sent"
    <3>1. j # k \/ c # b BY <2>2, <1>4
    <3>2. answer'[j][c] = answer[j][c] /\ work'[j][c] = work[j][c] BY <3>1, <1>2, <1>4
    <3> QED BY <2>2, <3>2 DEF InFlightHolds
  <2> QED BY <2>1, <2>2
<1>9. InFlightFits'
  <2> SUFFICES ASSUME NEW j \in Batches, NEW c \in Blobbers, work'[j][c] = "sent"
               PROVE  /\ counter[j][c] = ctr'[c] + blobberMap[j][c]
                      /\ answer'[j][c].kind = "ok" => counter[j][c] <= latest[c]
                      /\ answer'[j][c].kind = "stale" => answer'[j][c].rm <= latest[c]
    BY DEF InFlightFits
  <2>1. c # b /\ work[j][c] = "sent" BY <1>7
  <2>2. ctr'[c] = ctr[c] /\ answer'[j][c] = answer[j][c] BY <2>1, <1>4, <1>5
  <2> QED BY <2>1, <2>2 DEF InFlightFits
<1>10. CounterNotAhead' BY <1>5 DEF CounterNotAhead
<1> QED BY <1>2, <1>4, <1>5, <1>6, <1>8, <1>9, <1>10
\* attemptSubmitReadMarker takes a free mutex, so no marker to the blobber is in flight.
LEMMA AttemptStep ==
  ASSUME CInv, NEW k \in Batches, NEW b \in Blobbers, Attempt(k, b)
  PROVE  CInv'
<1> USE DEF CInv, Types
<1>1. /\ work[k][b] = "try" /\ holder[b] = None
      /\ holder' = [holder EXCEPT ![b] = k]
      /\ work' = [work EXCEPT ![k][b] = "sent"]
      /\ counter' = [counter EXCEPT ![k][b] = ctr[b] + blobberMap[k][b]]
      /\ UNCHANGED <<next, phase, blobberMap, ctr, latest>>
  BY DEF Attempt, Lock, Set, reqVars, extVars
<1>2. answer[k][b] = NoAnswer BY <1>1 DEF InFlightHolds
<1>3. \A j \in Batches : work[j][b] # "sent" BY <1>1, BatchIsNumber DEF InFlightHolds
<1>4. [kind |-> "error", rm |-> 0] \in [kind : AnswerKinds, rm : Int] BY DEF AnswerKinds
<1>5. /\ answer' \in [Batches -> [Blobbers -> [kind : AnswerKinds, rm : Int]]]
      /\ answer'[k][b] \in {NoAnswer, [kind |-> "error", rm |-> 0]}
      /\ \A j \in Batches, c \in Blobbers :
           (j # k \/ c # b) => answer'[j][c] = answer[j][c]
  <2>1. CASE answer' = answer BY <2>1, <1>2
  <2>2. CASE Answer(k, b, "error", 0) BY <2>2, <1>4 DEF Answer, Set
  <2> QED BY <2>1, <2>2 DEF Attempt
<1>6. /\ work' \in [Batches -> [Blobbers -> Works]] /\ work'[k][b] = "sent"
      /\ \A j \in Batches, c \in Blobbers : (j # k \/ c # b) => work'[j][c] = work[j][c]
  BY <1>1 DEF Works
<1>7. /\ counter' \in [Batches -> [Blobbers -> Int]]
      /\ counter'[k][b] = ctr[b] + blobberMap[k][b]
      /\ \A j \in Batches, c \in Blobbers : (j # k \/ c # b) => counter'[j][c] = counter[j][c]
  <2>1. ctr[b] + blobberMap[k][b] \in Int OBVIOUS
  <2> QED BY <1>1, <2>1
<1>8. holder' \in [Blobbers -> Batches \union {None}] BY <1>1
<1>9. SumsFixed'
  <2> SUFFICES ASSUME NEW j \in Batches, NEW c \in Blobbers, work'[j][c] # "none"
               PROVE  phase[j] \in {"submit", "done"}
    BY <1>1 DEF SumsFixed
  <2>1. work[j][c] # "none" BY <1>1, <1>6
  <2> QED BY <2>1 DEF SumsFixed
<1>10. InFlightHolds'
  <2> SUFFICES ASSUME NEW j \in Batches, NEW c \in Blobbers
               PROVE  /\ work'[j][c] = "sent" => holder'[c] = j
                      /\ answer'[j][c] # NoAnswer => work'[j][c] = "sent"
    BY DEF InFlightHolds
  <2>1. CASE j = k /\ c = b BY <2>1, <1>1, <1>6
  <2>2. CASE j # k \/ c # b
    <3>1. work'[j][c] = work[j][c] /\ answer'[j][c] = answer[j][c] BY <2>2, <1>5, <1>6
    <3>2. ASSUME work[j][c] = "sent" PROVE holder'[c] = holder[c] BY <3>2, <1>1, <1>3
    <3> QED BY <3>1, <3>2 DEF InFlightHolds
  <2> QED BY <2>1, <2>2
<1>11. InFlightFits'
  <2> SUFFICES ASSUME NEW j \in Batches, NEW c \in Blobbers, work'[j][c] = "sent"
               PROVE  /\ counter'[j][c] = ctr[c] + blobberMap[j][c]
                      /\ answer'[j][c].kind = "ok" => counter'[j][c] <= latest[c]
                      /\ answer'[j][c].kind = "stale" => answer'[j][c].rm <= latest[c]
    BY <1>1 DEF InFlightFits
  <2>1. CASE j = k /\ c = b
    <3>1. answer'[k][b].kind \notin {"ok", "stale"} BY <1>5 DEF NoAnswer
    <3> QED BY <2>1, <3>1, <1>7
  <2>2. CASE j # k \/ c # b
    <3>1. /\ work[j][c] = "sent" /\ answer'[j][c] = answer[j][c]
          /\ counter'[j][c] = counter[j][c]
      BY <2>2, <1>5, <1>6, <1>7
    <3> QED BY <3>1 DEF InFlightFits
  <2> QED BY <2>1, <2>2
<1>12. CounterNotAhead' BY <1>1 DEF CounterNotAhead
<1> QED BY <1>1, <1>5, <1>6, <1>7, <1>8, <1>9, <1>10, <1>11, <1>12

\* A marker that is in sync makes the blobber's counter grow.
LEMMA RedeemGrows ==
  ASSUME CInv, NEW k \in Batches, NEW b \in Blobbers, InSync(k, b), Redeem(k, b)
  PROVE  /\ latest' \in [Blobbers -> Int] /\ \A c \in Blobbers : latest[c] <= latest'[c]
         /\ latest'[b] = counter[k][b]
BY DEF CInv, Types, InSync, Redeem

\* The blobber's side, and answers that never come.
LEMMA BlobberStep ==
  ASSUME CInv, NEW k \in Batches, NEW b \in Blobbers,
         \/ BlobberAccepts(k, b) \/ BlobberStale(k, b) \/ BlobberRefuses(k, b)
         \/ ConnectionClosed(k, b) \/ NoResponse(k, b)
  PROVE  CInv'
<1> USE DEF reqVars, subVars, ctrVars, extVars
<1>0. latest \in [Blobbers -> Int] /\ \A c \in Blobbers : latest[c] <= latest[c]
  BY DEF CInv, Types
<1>1. CASE BlobberAccepts(k, b)
  <2>1. "ok" \in AnswerKinds /\ 0 \in Int BY DEF AnswerKinds
  <2>2. counter[k][b] <= counter[k][b] BY DEF CInv, Types
  <2> QED BY <1>1, <2>1, <2>2, RedeemGrows, AnswerStep DEF BlobberAccepts
<1>2. CASE BlobberStale(k, b)
  <2>1. "stale" \in AnswerKinds /\ latest[b] \in Int BY <1>0 DEF AnswerKinds
  <2> QED BY <1>2, <2>1, <1>0, AnswerStep DEF BlobberStale
<1>3. CASE BlobberRefuses(k, b)
  <2>1. "denied" \in AnswerKinds /\ "busy" \in AnswerKinds /\ 0 \in Int BY DEF AnswerKinds
  <2> QED BY <1>3, <2>1, <1>0, AnswerStep DEF BlobberRefuses
<1>4. CASE NoResponse(k, b)
  <2>1. "error" \in AnswerKinds /\ 0 \in Int BY DEF AnswerKinds
  <2>2. latest' \in [Blobbers -> Int] /\ \A c \in Blobbers : latest[c] <= latest'[c]
    BY <1>0, <1>4, RedeemGrows DEF NoResponse
  <2> QED BY <1>4, <2>1, <2>2, AnswerStep DEF NoResponse
<1>5. CASE ConnectionClosed(k, b)
  <2> USE DEF CInv, Types
  <2>1. latest' \in [Blobbers -> Int] /\ \A c \in Blobbers : latest[c] <= latest'[c]
    BY <1>5, RedeemGrows DEF ConnectionClosed
  <2>2. UNCHANGED <<next, phase, blobberMap, work, counter, answer, ctr, holder>>
    BY <1>5 DEF ConnectionClosed
  <2>3. InFlightFits'
    <3> SUFFICES ASSUME NEW j \in Batches, NEW c \in Blobbers, work[j][c] = "sent"
                 PROVE  /\ counter[j][c] = ctr[c] + blobberMap[j][c]
                        /\ answer[j][c].kind = "ok" => counter[j][c] <= latest'[c]
                        /\ answer[j][c].kind = "stale" => answer[j][c].rm <= latest'[c]
      BY <2>2 DEF InFlightFits
    <3>1. /\ counter[j][c] \in Int /\ latest[c] \in Int /\ latest'[c] \in Int
          /\ answer[j][c].rm \in Int /\ latest[c] <= latest'[c]
      BY <2>1
    <3> QED BY <3>1 DEF InFlightFits
  <2>4. CounterNotAhead'
    <3> SUFFICES ASSUME NEW c \in Blobbers PROVE ctr[c] <= latest'[c]
      BY <2>2 DEF CounterNotAhead
    <3>1. ctr[c] \in Int /\ latest[c] \in Int /\ latest'[c] \in Int /\ latest[c] <= latest'[c]
      BY <2>1
    <3> QED BY <3>1 DEF CounterNotAhead
  <2>5. SumsFixed' /\ InFlightHolds' BY <2>2 DEF SumsFixed, InFlightHolds
  <2> QED BY <2>1, <2>2, <2>3, <2>4, <2>5
<1> QED BY <1>1, <1>2, <1>3, <1>4, <1>5

\* A lost try ends the attempt one way or the other.
LEMMA FailedTryReturns ==
  ASSUME NEW k, NEW b, FailedTry(k, b)
  PROVE  Return(k, b, "failed") \/ Return(k, b, "try")
BY DEF FailedTry

\* What submitReadMarker does with the outcome of an attempt.
LEMMA OutcomeStep ==
  ASSUME CInv, NEW k \in Batches, NEW b \in Blobbers,
         \/ HandleOK(k, b) \/ HandleLateOK(k, b) \/ HandleStale(k, b) \/ HandleError(k, b)
         \/ HandleDenied(k, b) \/ HandleBusy(k, b)
  PROVE  CInv'
<1> USE DEF reqVars, extVars
<1>1. /\ ctr \in [Blobbers -> Int] /\ ctr[b] \in Int /\ latest[b] \in Int /\ ctr[b] <= latest[b]
      /\ answer[k][b].rm \in Int /\ counter[k][b] \in Int
  BY DEF CInv, Types, CounterNotAhead
<1>2. {"accepted", "failed", "try"} \subseteq Works BY DEF Works
<1>3. answer[k][b] # NoAnswer
  BY DEF HandleOK, HandleLateOK, HandleStale, HandleError, HandleDenied, HandleBusy, NoAnswer
<1>4. work[k][b] = "sent" BY <1>3 DEF CInv, InFlightHolds
<1>5. /\ counter[k][b] = ctr[b] + blobberMap[k][b]
      /\ answer[k][b].kind = "ok" => counter[k][b] <= latest[b]
      /\ answer[k][b].kind = "stale" => answer[k][b].rm <= latest[b]
  BY <1>4 DEF CInv, InFlightFits
<1>6. CASE HandleOK(k, b)
  BY <1>6, <1>1, <1>2, <1>3, <1>5, HandleStep DEF HandleOK, IncCtr
<1>7. CASE HandleLateOK(k, b)
  BY <1>7, <1>1, <1>2, <1>3, <1>5, FailedTryReturns, HandleStep DEF HandleLateOK, IncCtr
<1>8. CASE HandleStale(k, b)
  BY <1>8, <1>1, <1>2, <1>3, <1>5, FailedTryReturns, HandleStep DEF HandleStale, SetCtr
<1>9. ctr = [ctr EXCEPT ![b] = ctr[b]] BY <1>1
<1>10. CASE HandleError(k, b)
  BY <1>10, <1>1, <1>2, <1>3, <1>9, FailedTryReturns, HandleStep DEF HandleError
<1>11. CASE HandleDenied(k, b)
  BY <1>11, <1>1, <1>2, <1>3, <1>9, HandleStep DEF HandleDenied
<1>12. CASE HandleBusy(k, b)
  BY <1>12, <1>1, <1>2, <1>3, <1>9, HandleStep DEF HandleBusy
<1> QED BY <1>6, <1>7, <1>8, <1>10, <1>11, <1>12

\* After the attempt the counters are not touched.
LEMMA MaskStep ==
  ASSUME CInv, NEW k \in Batches, NEW b \in Blobbers, ReadSuccess(k, b) \/ WriteSuccess(k, b)
  PROVE  CInv'
<1> USE DEF CInv, Types
<1>1. PICK w \in {"or", "done"} : work' = [work EXCEPT ![k][b] = w]
  BY DEF ReadSuccess, WriteSuccess, Set
<1>2. /\ UNCHANGED <<next, phase, blobberMap, counter, answer, ctr, latest, holder>>
      /\ work[k][b] \in {"accepted", "or"}
  BY DEF ReadSuccess, WriteSuccess, reqVars, ctrVars, extVars
<1>3. /\ work' \in [Batches -> [Blobbers -> Works]] /\ work'[k][b] = w
      /\ \A j \in Batches, c \in Blobbers : (j # k \/ c # b) => work'[j][c] = work[j][c]
  BY <1>1 DEF Works
<1>4. /\ \A j \in Batches, c \in Blobbers : work'[j][c] = "sent" <=> work[j][c] = "sent"
      /\ \A j \in Batches, c \in Blobbers : work'[j][c] # "none" => work[j][c] # "none"
  BY <1>2, <1>3
<1>5. SumsFixed' BY <1>2, <1>4 DEF SumsFixed
<1>6. InFlightHolds' BY <1>2, <1>4 DEF InFlightHolds
<1>7. InFlightFits' BY <1>2, <1>4 DEF InFlightFits
<1>8. CounterNotAhead' BY <1>2 DEF CounterNotAhead
<1> QED BY <1>2, <1>3, <1>5, <1>6, <1>7, <1>8

LEMMA OtherStep ==
  ASSUME CInv, NEW b \in Blobbers, OtherProcess(b)
  PROVE  CInv'
<1> USE DEF CInv, Types
<1>1. UNCHANGED <<next, phase, blobberMap, work, counter, answer, ctr, holder>>
  BY DEF OtherProcess, reqVars, subVars, ctrVars
<1>2. /\ latest' \in [Blobbers -> Int]
      /\ \A c \in Blobbers : latest[c] <= latest'[c]
  BY DEF OtherProcess
<1>3. InFlightFits'
  <2> SUFFICES ASSUME NEW j \in Batches, NEW c \in Blobbers, work[j][c] = "sent"
               PROVE  /\ counter[j][c] = ctr[c] + blobberMap[j][c]
                      /\ answer[j][c].kind = "ok" => counter[j][c] <= latest'[c]
                      /\ answer[j][c].kind = "stale" => answer[j][c].rm <= latest'[c]
    BY <1>1 DEF InFlightFits
  <2>1. /\ counter[j][c] \in Int /\ latest[c] \in Int /\ latest'[c] \in Int
        /\ answer[j][c].rm \in Int /\ latest[c] <= latest'[c]
    BY <1>2
  <2> QED BY <2>1 DEF InFlightFits
<1>4. CounterNotAhead'
  <2> SUFFICES ASSUME NEW c \in Blobbers PROVE ctr[c] <= latest'[c]
    BY <1>1 DEF CounterNotAhead
  <2>1. ctr[c] \in Int /\ latest[c] \in Int /\ latest'[c] \in Int /\ latest[c] <= latest'[c]
    BY <1>2
  <2> QED BY <2>1 DEF CounterNotAhead
<1>5. SumsFixed' /\ InFlightHolds' BY <1>1 DEF SumsFixed, InFlightHolds
<1> QED BY <1>1, <1>2, <1>3, <1>4, <1>5

LEMMA CAlways == Spec => []CInv
<1>1. CInv /\ [Next]_vars => CInv'
  <2> SUFFICES ASSUME CInv, [Next]_vars PROVE CInv' OBVIOUS
  <2>1. CASE Next
    BY <2>1, CallStep, BatchStep, AttemptStep, BlobberStep, OutcomeStep, MaskStep, OtherStep
       DEF Next, Process, Submit
  <2>2. CASE UNCHANGED vars
    <3>1. UNCHANGED <<Core, phase, next>>
      BY <2>2 DEF vars, Core, reqVars, subVars, ctrVars, extVars
    <3>2. SumsFixed' BY <3>1 DEF CInv, SumsFixed, Core
    <3> QED BY <3>1, <3>2, CoreStep DEF CInv, Types
  <2> QED BY <2>1, <2>2
<1> QED BY <1>1, CInit, PTL DEF Spec

\* read_counter_ctr.go and attemptSubmitReadMarker: with any number of concurrent
\* batches, lost and late answers, retries and other processes, the client's counter is
\* never ahead of the blobber's.
THEOREM CounterNeverAhead == Spec => []CounterNotAhead
<1>1. CInv => CounterNotAhead BY DEF CInv
<1> QED BY <1>1, CAlways, PTL

-----------------------------------------------------------------------------
(* What is paid                                                             *)

\* p is at most n payments of m blocks.
Due(p, m, n) == p <= n * m
Pays(k, b, n) == Due(paid[k][b], blobberMap[k][b], n)

\* The attempts that have ended: the tries used up, and the answers "come back later".
Ended(k, b) == Retries - tries[k][b] + busy

PayTypes ==
  /\ tries \in [Batches -> [Blobbers -> 0 .. Retries]]
  /\ paid \in [Batches -> [Blobbers -> Nat]]
  /\ busy \in Nat

\* An attempt pays at most once, because a marker that was accepted is no longer ahead of
\* the blobber's counter; it has paid at least once if it was told so.
Attempted(k, b) ==
  /\ work[k][b] = "none" => paid[k][b] = 0
  /\ work[k][b] \in {"try", "sent"} => tries[k][b] >= 1
  /\ work[k][b] = "try" => Pays(k, b, Ended(k, b))
  /\ work[k][b] = "sent" => Pays(k, b, Ended(k, b) + 1)
  /\ /\ work[k][b] = "sent"
     /\ \/ answer[k][b].kind = "busy"
        \/ answer[k][b] = NoAnswer /\ counter[k][b] > latest[b]
     => Pays(k, b, Ended(k, b))
  /\ Pays(k, b, Retries + busy)
  /\ work[k][b] \in {"accepted", "or", "done"} \/ answer[k][b].kind = "ok" =>
       paid[k][b] >= blobberMap[k][b]

AInv == PayTypes /\ \A k \in Batches, b \in Blobbers : Attempted(k, b)

LEMMA DueMore ==
  ASSUME NEW p \in Nat, NEW m \in Nat, NEW n \in Nat, NEW q \in Nat, n <= q, Due(p, m, n)
  PROVE  Due(p, m, q)
<1>1. n * m <= q * m
  <2>1. PICK d \in Nat : q = n + d
    <3>1. q - n \in Nat /\ q = n + (q - n) OBVIOUS
    <3> QED BY <3>1
  <2>2. q * m = n * m + d * m BY <2>1
  <2>3. d * m \in Nat /\ n * m \in Nat OBVIOUS
  <2> QED BY <2>2, <2>3
<1>2. n * m \in Nat /\ q * m \in Nat OBVIOUS
<1> QED BY <1>1, <1>2 DEF Due

LEMMA DuePay ==
  ASSUME NEW p \in Nat, NEW m \in Nat, NEW n \in Nat, Due(p, m, n)
  PROVE  Due(p + m, m, n + 1)
<1>1. (n + 1) * m = n * m + m OBVIOUS
<1>2. n * m \in Nat OBVIOUS
<1> QED BY <1>1, <1>2 DEF Due

LEMMA DueNothing ==
  ASSUME NEW m \in Nat, NEW n \in Nat
  PROVE  Due(0, m, n)
<1>1. n * m \in Nat OBVIOUS
<1> QED BY <1>1 DEF Due

LEMMA AInit == Init => AInv
<1> SUFFICES ASSUME Init PROVE AInv OBVIOUS
<1> USE ReadMarkerConstants
<1>1. /\ work = [k \in Batches |-> [b \in Blobbers |-> "none"]]
      /\ blobberMap = [k \in Batches |-> [b \in Blobbers |-> 0]]
      /\ tries = [k \in Batches |-> [b \in Blobbers |-> 0]]
      /\ paid = [k \in Batches |-> [b \in Blobbers |-> 0]]
      /\ answer = [k \in Batches |-> [b \in Blobbers |-> NoAnswer]]
      /\ busy = 0
  BY DEF Init, Per
<1>2. PayTypes BY <1>1 DEF PayTypes
<1>3. ASSUME NEW k \in Batches, NEW b \in Blobbers PROVE Attempted(k, b)
  <2>1. Pays(k, b, Retries + busy)
    <3>1. paid[k][b] = 0 /\ blobberMap[k][b] \in Nat /\ Retries + busy \in Nat BY <1>1
    <3> QED BY <3>1, DueNothing DEF Pays
  <2> QED BY <1>1, <2>1 DEF Attempted, NoAnswer
<1> QED BY <1>2, <1>3 DEF AInv

\* The numbers of a pair, for the provers of arithmetic.
LEMMA PairNumbers ==
  ASSUME CInv, PayTypes, NEW k \in Batches, NEW b \in Blobbers
  PROVE  /\ paid[k][b] \in Nat /\ blobberMap[k][b] \in Nat /\ Ended(k, b) \in Nat
         /\ Ended(k, b) + 1 \in Nat /\ Retries + busy \in Nat
         /\ tries[k][b] \in 0 .. Retries /\ Retries \in Nat /\ busy \in Nat
         /\ counter[k][b] \in Int /\ latest[b] \in Int
         /\ Ended(k, b) = Retries - tries[k][b] + busy
<1>1. Retries \in Nat BY ReadMarkerConstants
<1>2. /\ paid[k][b] \in Nat /\ busy \in Nat /\ tries[k][b] \in 0 .. Retries BY DEF PayTypes
<1>3. /\ blobberMap[k][b] \in Nat /\ counter[k][b] \in Int /\ latest[b] \in Int
  BY DEF CInv, Types
<1> QED BY <1>1, <1>2, <1>3 DEF Ended

\* What other goroutines, other processes and the user do.
LEMMA OthersAttempt ==
  ASSUME CInv, PayTypes, PayTypes', NEW j \in Batches, NEW c \in Blobbers, Attempted(j, c),
         work'[j][c] = work[j][c], answer'[j][c] = answer[j][c], counter'[j][c] = counter[j][c],
         tries'[j][c] = tries[j][c], paid'[j][c] = paid[j][c],
         blobberMap'[j][c] = blobberMap[j][c],
         busy' >= busy, latest'[c] \in Int, latest'[c] >= latest[c]
  PROVE  Attempted(j, c)'
<1>0. busy \in Nat /\ busy' \in Nat /\ tries[j][c] \in 0 .. Retries /\ Retries \in Nat
  BY ReadMarkerConstants DEF PayTypes
<1>a. Ended(j, c)' = Retries - tries[j][c] + busy' BY DEF Ended
<1>b. Ended(j, c) = Retries - tries[j][c] + busy BY DEF Ended
<1>1. /\ paid[j][c] \in Nat /\ blobberMap[j][c] \in Nat
      /\ Ended(j, c) \in Nat /\ Ended(j, c)' \in Nat /\ Ended(j, c) <= Ended(j, c)'
      /\ Ended(j, c) + 1 \in Nat /\ Ended(j, c)' + 1 \in Nat
      /\ Ended(j, c) + 1 <= Ended(j, c)' + 1
      /\ Retries + busy \in Nat /\ Retries + busy' \in Nat /\ Retries + busy <= Retries + busy'
      /\ counter[j][c] \in Int /\ latest[c] \in Int
  <2>1. /\ paid[j][c] \in Nat /\ blobberMap[j][c] \in Nat
        /\ counter[j][c] \in Int /\ latest[c] \in Int
    BY PairNumbers
  <2>2. /\ Ended(j, c) \in Nat /\ Ended(j, c)' \in Nat /\ Ended(j, c) <= Ended(j, c)'
    BY <1>0, <1>a, <1>b
  <2>3. Retries + busy \in Nat /\ Retries + busy' \in Nat /\ Retries + busy <= Retries + busy'
    <3>1. busy \in Nat /\ busy' \in Nat /\ Retries \in Nat /\ busy' >= busy BY <1>0
    <3>2. \A m, n, q \in Nat : n >= m => q + m \in Nat /\ q + n \in Nat /\ q + m <= q + n OBVIOUS
    <3> QED BY <3>1, <3>2, Zenon
  <2> QED BY <2>1, <2>2, <2>3
<1>2. \A n, q \in Nat : n <= q /\ Pays(j, c, n) => Due(paid'[j][c], blobberMap'[j][c], q)
  BY <1>1, DueMore DEF Pays
<1>3. counter[j][c] > latest'[c] => counter[j][c] > latest[c] BY <1>1
<1>4. Pays(j, c, Ended(j, c)) => Pays(j, c, Ended(j, c))' BY <1>1, <1>2 DEF Pays
<1>5. Pays(j, c, Ended(j, c) + 1) => Pays(j, c, Ended(j, c) + 1)' BY <1>1, <1>2 DEF Pays
<1>6. Pays(j, c, Retries + busy) => Pays(j, c, Retries + busy)' BY <1>1, <1>2 DEF Pays
<1> QED BY <1>3, <1>4, <1>5, <1>6 DEF Attempted

\* A step of the goroutine (k, b): the other pairs see at most more answers "come back
\* later" and a blobber further ahead.
LEMMA PairStep ==
  ASSUME CInv, AInv, PayTypes', NEW k \in Batches, NEW b \in Blobbers,
         \A j \in Batches, c \in Blobbers : (j # k \/ c # b) =>
           /\ work'[j][c] = work[j][c] /\ answer'[j][c] = answer[j][c]
           /\ counter'[j][c] = counter[j][c] /\ tries'[j][c] = tries[j][c]
           /\ paid'[j][c] = paid[j][c] /\ blobberMap'[j][c] = blobberMap[j][c],
         busy' >= busy, \A c \in Blobbers : latest'[c] \in Int /\ latest'[c] >= latest[c],
         Attempted(k, b)'
  PROVE  AInv'
<1>1. ASSUME NEW j \in Batches, NEW c \in Blobbers, j # k \/ c # b PROVE Attempted(j, c)'
  <2>1. Attempted(j, c) /\ PayTypes BY DEF AInv
  <2>2. /\ work'[j][c] = work[j][c] /\ answer'[j][c] = answer[j][c]
        /\ counter'[j][c] = counter[j][c] /\ tries'[j][c] = tries[j][c]
        /\ paid'[j][c] = paid[j][c] /\ blobberMap'[j][c] = blobberMap[j][c]
    BY <1>1
  <2>3. latest'[c] \in Int /\ latest'[c] >= latest[c] OBVIOUS
  <2> QED BY <2>1, <2>2, <2>3, OthersAttempt
<1>2. \A j \in Batches, c \in Blobbers : Attempted(j, c)' BY <1>1
<1> QED BY <1>2 DEF AInv

\* A step that is no pair's: nothing of the markers changes.
LEMMA NobodyPays ==
  ASSUME CInv, AInv, UNCHANGED <<work, answer, counter, tries, paid, blobberMap, busy>>,
         \A c \in Blobbers : latest'[c] \in Int /\ latest'[c] >= latest[c]
  PROVE  AInv'
<1>1. PayTypes' /\ PayTypes /\ busy' >= busy BY DEF AInv, PayTypes
<1>2. ASSUME NEW j \in Batches, NEW c \in Blobbers PROVE Attempted(j, c)'
  <2>1. Attempted(j, c) BY DEF AInv
  <2> QED BY <1>1, <2>1, OthersAttempt
<1>3. \A j \in Batches, c \in Blobbers : Attempted(j, c)' BY <1>2
<1> QED BY <1>1, <1>3 DEF AInv

\* The blobber's side of an attempt.
LEMMA WaitingPays ==
  ASSUME CInv, AInv, NEW k \in Batches, NEW b \in Blobbers, Waiting(k, b),
         UNCHANGED <<blobberMap, work, tries, counter>>,
         NEW a, answer' = Set(answer, k, b, a),
         busy' = busy \/ busy' = busy + 1,
         a.kind = "busy" => busy' = busy + 1 /\ paid' = paid,
         a = NoAnswer \/ a.kind = "ok" => InSync(k, b) /\ Redeem(k, b),
         (InSync(k, b) /\ Redeem(k, b)) \/ UNCHANGED <<latest, paid>>
  PROVE  AInv'
<1> DEFINE p == paid[k][b]
           m == blobberMap[k][b]
           e == Ended(k, b)
<1>1. PayTypes /\ Attempted(k, b) BY DEF AInv
<1>2. /\ p \in Nat /\ m \in Nat /\ e \in Nat /\ tries[k][b] \in 0 .. Retries /\ Retries \in Nat
      /\ busy \in Nat /\ counter[k][b] \in Int /\ latest[b] \in Int
      /\ e = Retries - tries[k][b] + busy
  BY <1>1, PairNumbers
<1>3. /\ work[k][b] = "sent" /\ answer[k][b] = NoAnswer /\ tries[k][b] >= 1
      /\ Due(p, m, e + 1) /\ (counter[k][b] > latest[b] => Due(p, m, e))
  BY <1>1 DEF Waiting, Attempted, Pays
<1>4. busy' \in Nat /\ busy' >= busy BY <1>2
<1>5. /\ Ended(k, b)' = Retries - tries[k][b] + busy' /\ Ended(k, b)' \in Nat
      /\ Ended(k, b)' >= e
  <2>1. Ended(k, b)' = Retries - tries[k][b] + busy' BY DEF Ended
  <2> QED BY <2>1, <1>2, <1>4
<1>6. CASE InSync(k, b) /\ Redeem(k, b)
  <2>1. /\ paid' = [paid EXCEPT ![k][b] = p + m] /\ latest' = [latest EXCEPT ![b] = counter[k][b]]
        /\ counter[k][b] = latest[b] + m
    BY <1>6 DEF Redeem, InSync, Set
  <2>2. /\ paid'[k][b] = p + m /\ latest'[b] = counter[k][b] /\ p + m \in Nat /\ p + m >= m
        /\ paid' \in [Batches -> [Blobbers -> Nat]]
        /\ \A j \in Batches, c \in Blobbers : (j # k \/ c # b) => paid'[j][c] = paid[j][c]
    BY <2>1, <1>1, <1>2 DEF PayTypes, CInv, Types
  <2>3. \A c \in Blobbers : latest'[c] \in Int /\ latest'[c] >= latest[c]
    BY <2>1, <1>2 DEF CInv, Types
  <2>4. Due(p + m, m, e + 1)
    <3>1. CASE m = 0
      <4>1. p + m = p BY <3>1, <1>2
      <4> QED BY <4>1, <1>3
    <3>2. CASE m # 0
      <4>1. counter[k][b] > latest[b] BY <3>2, <2>1, <1>2
      <4> QED BY <4>1, <1>3, <1>2, DuePay
    <3> QED BY <3>1, <3>2
  <2>5. Due(p + m, m, Ended(k, b)' + 1)
    <3>1. e + 1 \in Nat /\ Ended(k, b)' + 1 \in Nat /\ e + 1 <= Ended(k, b)' + 1 BY <1>2, <1>5
    <3> QED BY <3>1, <2>2, <2>4, <1>2, DueMore
  <2>6. Due(p + m, m, Retries + busy')
    <3>1. /\ Ended(k, b)' + 1 \in Nat /\ Retries + busy' \in Nat
          /\ Ended(k, b)' + 1 <= Retries + busy'
      BY <1>2, <1>3, <1>4, <1>5
    <3> QED BY <3>1, <2>2, <2>5, <1>2, DueMore
  <2>7. a.kind = "busy" => Due(p + m, m, Ended(k, b)')
    <3> SUFFICES ASSUME a.kind = "busy" PROVE Due(p + m, m, Ended(k, b)') OBVIOUS
    <3>1. Ended(k, b)' = e + 1 BY <1>2, <1>5
    <3> QED BY <3>1, <2>4
  <2>8. Attempted(k, b)'
    <3>1. work'[k][b] = "sent" /\ tries'[k][b] >= 1 /\ blobberMap'[k][b] = m BY <1>3
    <3>2. answer'[k][b] = a BY DEF Set, CInv, Types
    <3>3. ~(counter'[k][b] > latest'[b]) BY <2>2, <1>2
    <3> QED BY <3>1, <3>2, <3>3, <2>2, <2>5, <2>6, <2>7 DEF Attempted, Pays
  <2>9. PayTypes' BY <1>1, <1>4, <2>2 DEF PayTypes
  <2>10. \A j \in Batches, c \in Blobbers : (j # k \/ c # b) => answer'[j][c] = answer[j][c]
    BY DEF Set, CInv, Types
  <2> QED BY <2>2, <2>3, <2>8, <2>9, <2>10, <1>4, PairStep
<1>7. CASE UNCHANGED <<latest, paid>> /\ a # NoAnswer /\ a.kind # "ok"
  <2>1. Due(p, m, Ended(k, b)' + 1)
    <3>1. e + 1 \in Nat /\ Ended(k, b)' + 1 \in Nat /\ e + 1 <= Ended(k, b)' + 1 BY <1>2, <1>5
    <3> QED BY <3>1, <1>2, <1>3, DueMore
  <2>2. Due(p, m, Retries + busy')
    <3>1. /\ Ended(k, b)' + 1 \in Nat /\ Retries + busy' \in Nat
          /\ Ended(k, b)' + 1 <= Retries + busy'
      BY <1>2, <1>3, <1>4, <1>5
    <3> QED BY <3>1, <2>1, <1>2, DueMore
  <2>3. a.kind = "busy" => Due(p, m, Ended(k, b)')
    <3> SUFFICES ASSUME a.kind = "busy" PROVE Due(p, m, Ended(k, b)') OBVIOUS
    <3>1. Ended(k, b)' = e + 1 BY <1>2, <1>5
    <3> QED BY <3>1, <1>3
  <2>4. Attempted(k, b)'
    <3>1. /\ work'[k][b] = "sent" /\ tries'[k][b] >= 1 /\ blobberMap'[k][b] = m
          /\ paid'[k][b] = p
      BY <1>3, <1>7
    <3>2. answer'[k][b] = a BY DEF Set, CInv, Types
    <3> QED BY <3>1, <3>2, <1>7, <2>1, <2>2, <2>3 DEF Attempted, Pays
  <2>5. PayTypes' BY <1>1, <1>4, <1>7 DEF PayTypes
  <2>6. \A j \in Batches, c \in Blobbers : (j # k \/ c # b) => answer'[j][c] = answer[j][c]
    BY DEF Set, CInv, Types
  <2>7. \A c \in Blobbers : latest'[c] \in Int /\ latest'[c] >= latest[c]
    BY <1>7 DEF CInv, Types
  <2> QED BY <2>4, <2>5, <2>6, <2>7, <1>4, <1>7, PairStep
<1> QED BY <1>6, <1>7

LEMMA BlobberPays ==
  ASSUME CInv, AInv, NEW k \in Batches, NEW b \in Blobbers,
         \/ BlobberAccepts(k, b) \/ BlobberStale(k, b) \/ BlobberRefuses(k, b)
         \/ ConnectionClosed(k, b) \/ NoResponse(k, b)
  PROVE  AInv'
<1> USE DEF reqVars, subVars, ctrVars, extVars, Answer, NoAnswer
<1>1. CASE BlobberAccepts(k, b) BY <1>1, WaitingPays DEF BlobberAccepts
<1>2. CASE BlobberStale(k, b) BY <1>2, WaitingPays DEF BlobberStale
<1>3. CASE BlobberRefuses(k, b) BY <1>3, WaitingPays DEF BlobberRefuses
<1>4. CASE NoResponse(k, b) BY <1>4, WaitingPays DEF NoResponse
<1>5. CASE ConnectionClosed(k, b)
  <2>1. answer' = Set(answer, k, b, NoAnswer)
    BY <1>5 DEF ConnectionClosed, Waiting, Set, CInv, Types
  <2> QED BY <1>5, <2>1, WaitingPays DEF ConnectionClosed
<1> QED BY <1>1, <1>2, <1>3, <1>4, <1>5

\* The end of an attempt: it used up a try, or was told to come back later, or was the last.
LEMMA ReturnPays ==
  ASSUME CInv, AInv, NEW k \in Batches, NEW b \in Blobbers, answer[k][b] # NoAnswer,
         NEW w, Return(k, b, w), UNCHANGED <<blobberMap, counter, paid, latest, busy>>,
         \/ /\ tries' = Set(tries, k, b, tries[k][b] - 1)
            /\ \/ tries[k][b] = 1 /\ w = "failed"
               \/ tries[k][b] # 1 /\ w = "try"
         \/ /\ tries' = tries
            /\ \/ w = "accepted" /\ answer[k][b].kind = "ok"
               \/ w = "failed"
               \/ w = "try" /\ answer[k][b].kind = "busy"
  PROVE  AInv'
<1> DEFINE p == paid[k][b]
           m == blobberMap[k][b]
           e == Ended(k, b)
<1>1. PayTypes /\ Attempted(k, b) /\ work[k][b] = "sent" BY DEF AInv, CInv, InFlightHolds
<1>2. /\ p \in Nat /\ m \in Nat /\ e \in Nat /\ tries[k][b] \in 0 .. Retries /\ Retries \in Nat
      /\ busy \in Nat /\ e = Retries - tries[k][b] + busy
  BY <1>1, PairNumbers
<1>3. /\ tries[k][b] >= 1 /\ Due(p, m, e + 1) /\ Due(p, m, Retries + busy)
      /\ answer[k][b].kind = "busy" => Due(p, m, e)
      /\ answer[k][b].kind = "ok" => p >= m
  BY <1>1 DEF Attempted, Pays
<1>4. /\ work'[k][b] = w /\ answer'[k][b] = NoAnswer
      /\ \A j \in Batches, c \in Blobbers : (j # k \/ c # b) =>
           work'[j][c] = work[j][c] /\ answer'[j][c] = answer[j][c]
  BY DEF Return, Set, CInv, Types
<1>5. \A c \in Blobbers : latest'[c] \in Int /\ latest'[c] >= latest[c]
  BY DEF CInv, Types
<1>6. busy' >= busy BY <1>2
<1>7. CASE tries' = Set(tries, k, b, tries[k][b] - 1) /\ (tries[k][b] # 1 => w = "try")
           /\ w \in {"failed", "try"} /\ (tries[k][b] = 1 => w = "failed")
  <2>1. /\ tries'[k][b] = tries[k][b] - 1 /\ tries' \in [Batches -> [Blobbers -> 0 .. Retries]]
        /\ \A j \in Batches, c \in Blobbers : (j # k \/ c # b) => tries'[j][c] = tries[j][c]
    <3>1. tries[k][b] - 1 \in 0 .. Retries BY <1>2, <1>3
    <3> QED BY <3>1, <1>1, <1>7 DEF Set, PayTypes
  <2>2. Ended(k, b)' = e + 1
    <3>1. Ended(k, b)' = Retries - (tries[k][b] - 1) + busy BY <2>1 DEF Ended
    <3> QED BY <3>1, <1>2
  <2>3. w = "try" => tries'[k][b] >= 1 BY <1>7, <1>2, <1>3, <2>1
  <2>4. Attempted(k, b)' BY <1>3, <1>4, <1>7, <2>2, <2>3 DEF Attempted, Pays, NoAnswer
  <2>5. PayTypes' BY <1>1, <2>1 DEF PayTypes
  <2> QED BY <1>4, <1>5, <1>6, <2>1, <2>4, <2>5, PairStep
<1>8. CASE /\ tries' = tries
           /\ \/ w = "accepted" /\ answer[k][b].kind = "ok"
              \/ w = "failed"
              \/ w = "try" /\ answer[k][b].kind = "busy"
  <2>1. Ended(k, b)' = e BY <1>8 DEF Ended
  <2>2. Attempted(k, b)' BY <1>3, <1>4, <1>8, <2>1 DEF Attempted, Pays, NoAnswer
  <2>3. PayTypes' BY <1>1, <1>8 DEF PayTypes
  <2> QED BY <1>4, <1>5, <1>6, <1>8, <2>2, <2>3, PairStep
<1> QED BY <1>7, <1>8

LEMMA OutcomePays ==
  ASSUME CInv, AInv, NEW k \in Batches, NEW b \in Blobbers,
         \/ HandleOK(k, b) \/ HandleLateOK(k, b) \/ HandleStale(k, b) \/ HandleError(k, b)
         \/ HandleDenied(k, b) \/ HandleBusy(k, b)
  PROVE  AInv'
<1> USE DEF reqVars, extVars
<1>1. answer[k][b] # NoAnswer
  BY DEF HandleOK, HandleLateOK, HandleStale, HandleError, HandleDenied, HandleBusy, NoAnswer
<1>2. ASSUME FailedTry(k, b), UNCHANGED <<blobberMap, counter, paid, latest, busy>> PROVE AInv'
  <2>1. PICK w : /\ Return(k, b, w)
                 /\ \/ tries[k][b] = 1 /\ w = "failed"
                    \/ tries[k][b] # 1 /\ w = "try"
    BY <1>2 DEF FailedTry
  <2>2. tries' = Set(tries, k, b, tries[k][b] - 1) BY <1>2 DEF FailedTry
  <2> QED BY <1>1, <1>2, <2>1, <2>2, ReturnPays
<1>3. CASE HandleOK(k, b) BY <1>1, <1>3, ReturnPays DEF HandleOK
<1>4. CASE HandleLateOK(k, b) BY <1>2, <1>4 DEF HandleLateOK
<1>5. CASE HandleStale(k, b) BY <1>2, <1>5 DEF HandleStale
<1>6. CASE HandleError(k, b) BY <1>2, <1>6 DEF HandleError
<1>7. CASE HandleDenied(k, b) BY <1>1, <1>7, ReturnPays DEF HandleDenied
<1>8. CASE HandleBusy(k, b) BY <1>1, <1>8, ReturnPays DEF HandleBusy
<1> QED BY <1>3, <1>4, <1>5, <1>6, <1>7, <1>8

\* The goroutine's own steps before and after an attempt.
LEMMA WorkPays ==
  ASSUME CInv, AInv, NEW k \in Batches, NEW b \in Blobbers,
         Attempt(k, b) \/ ReadSuccess(k, b) \/ WriteSuccess(k, b)
  PROVE  AInv'
<1> USE DEF reqVars, ctrVars, extVars
<1> DEFINE p == paid[k][b]
           m == blobberMap[k][b]
           e == Ended(k, b)
<1>1. PayTypes /\ Attempted(k, b) BY DEF AInv
<1>2. /\ p \in Nat /\ m \in Nat /\ e \in Nat /\ e + 1 \in Nat /\ e <= e + 1 /\ busy \in Nat
  BY <1>1, PairNumbers
<1>3. UNCHANGED <<blobberMap, tries, paid, latest, busy>>
  BY DEF Attempt, ReadSuccess, WriteSuccess
<1>4. \A c \in Blobbers : latest'[c] \in Int /\ latest'[c] >= latest[c]
  BY <1>3 DEF CInv, Types
<1>5. PayTypes' /\ busy' >= busy BY <1>1, <1>2, <1>3 DEF PayTypes
<1>6. Ended(k, b)' = e BY <1>3 DEF Ended
<1>7. CASE Attempt(k, b)
  <2>1. PICK a : answer' = Set(answer, k, b, a) /\ (a = NoAnswer \/ a.kind = "error")
    <3>1. answer[k][b] = NoAnswer BY <1>7 DEF Attempt, CInv, InFlightHolds
    <3>2. answer = Set(answer, k, b, NoAnswer) BY <3>1 DEF Set, CInv, Types
    <3> QED BY <1>7, <3>2 DEF Attempt, Answer
  <2>2. /\ work'[k][b] = "sent" /\ answer'[k][b] = a
        /\ \A j \in Batches, c \in Blobbers : (j # k \/ c # b) =>
             /\ work'[j][c] = work[j][c] /\ answer'[j][c] = answer[j][c]
             /\ counter'[j][c] = counter[j][c]
    BY <1>7, <2>1 DEF Attempt, Set, CInv, Types
  <2>3. /\ tries[k][b] >= 1 /\ Due(p, m, e) /\ Due(p, m, Retries + busy)
    BY <1>1, <1>7 DEF Attempt, Attempted, Pays
  <2>4. Due(p, m, e + 1) BY <1>2, <2>3, DueMore
  <2>5. Attempted(k, b)' BY <1>3, <1>6, <2>1, <2>2, <2>3, <2>4 DEF Attempted, Pays, NoAnswer
  <2> QED BY <1>3, <1>4, <1>5, <2>2, <2>5, PairStep
<1>8. CASE ReadSuccess(k, b) \/ WriteSuccess(k, b)
  <2>1. /\ work[k][b] \in {"accepted", "or"} /\ work'[k][b] \in {"or", "done"}
        /\ UNCHANGED <<answer, counter>>
        /\ \A j \in Batches, c \in Blobbers : (j # k \/ c # b) => work'[j][c] = work[j][c]
    BY <1>8 DEF ReadSuccess, WriteSuccess, Set, CInv, Types
  <2>2. Due(p, m, Retries + busy) /\ p >= m BY <1>1, <2>1 DEF Attempted, Pays
  <2>3. Attempted(k, b)' BY <1>3, <1>6, <2>1, <2>2 DEF Attempted, Pays
  <2> QED BY <1>3, <1>4, <1>5, <2>1, <2>3, PairStep
<1> QED BY <1>7, <1>8

\* Before its goroutines start, a batch has paid nothing.
LEMMA BatchPays ==
  ASSUME CInv, AInv, CInv', NEW k \in Batches,
         Prepare(k) \/ SendFree(k) \/ StartSubmitting(k) \/ Finish(k)
  PROVE  AInv'
<1> USE DEF reqVars, subVars, ctrVars, extVars
<1>1. \A c \in Blobbers : latest[c] \in Int /\ latest[c] >= latest[c] BY DEF CInv, Types
<1>2. PayTypes BY DEF AInv
<1>3. ASSUME phase[k] = "prepare", UNCHANGED <<answer, counter, paid, latest, busy>>,
             PayTypes',
             \A j \in Batches, c \in Blobbers : j # k =>
               /\ work'[j][c] = work[j][c] /\ tries'[j][c] = tries[j][c]
               /\ blobberMap'[j][c] = blobberMap[j][c],
             \A c \in Blobbers : \/ work'[k][c] = "none"
                                 \/ work'[k][c] = "try" /\ tries'[k][c] = Retries
      PROVE  AInv'
  <2>1. ASSUME NEW c \in Blobbers PROVE Attempted(k, c)'
    <3>1. work[k][c] = "none" /\ Attempted(k, c) /\ answer[k][c] = NoAnswer
      BY <1>3 DEF CInv, SumsFixed, InFlightHolds, AInv
    <3>2. paid'[k][c] = 0 /\ answer'[k][c] = NoAnswer BY <1>3, <3>1 DEF Attempted
    <3>3. blobberMap'[k][c] \in Nat BY DEF CInv, Types
    <3>4. busy' \in Nat /\ Retries \in Nat /\ Retries >= 1 /\ Retries + busy' \in Nat
      BY <1>3, <1>2, ReadMarkerConstants DEF PayTypes
    <3>5. Due(paid'[k][c], blobberMap'[k][c], Retries + busy')
      BY <3>2, <3>3, <3>4, DueNothing
    <3>6. CASE work'[k][c] = "none"
      BY <3>2, <3>5, <3>6 DEF Attempted, Pays, NoAnswer
    <3>7. CASE work'[k][c] = "try" /\ tries'[k][c] = Retries
      <4>1. Ended(k, c)' = busy'
        <5>1. Ended(k, c)' = Retries - tries'[k][c] + busy' BY DEF Ended
        <5> QED BY <5>1, <3>4, <3>7
      <4>2. Due(paid'[k][c], blobberMap'[k][c], busy') BY <3>2, <3>3, <3>4, DueNothing
      <4> QED BY <3>2, <3>4, <3>5, <3>7, <4>1, <4>2 DEF Attempted, Pays, NoAnswer
    <3> QED BY <1>3, <3>6, <3>7
  <2>2. ASSUME NEW j \in Batches, NEW c \in Blobbers, j # k PROVE Attempted(j, c)'
    <3>1. Attempted(j, c) BY DEF AInv
    <3>2. busy' >= busy BY <1>2, <1>3 DEF PayTypes
    <3> QED BY <1>1, <1>2, <1>3, <2>2, <3>1, <3>2, OthersAttempt
  <2>3. \A j \in Batches, c \in Blobbers : Attempted(j, c)' BY <2>1, <2>2
  <2> QED BY <1>3, <2>3 DEF AInv
<1>4. ASSUME NEW r \in Requests, PrepareFound(k, r) PROVE AInv'
  <2>1. /\ phase[k] = "prepare"
        /\ UNCHANGED <<work, tries, answer, counter, paid, latest, busy>>
    BY <1>4 DEF PrepareFound
  <2>2. \A j \in Batches, c \in Blobbers : j # k => blobberMap'[j][c] = blobberMap[j][c]
    BY <1>4 DEF PrepareFound, CInv, Types
  <2>3. \A c \in Blobbers : work'[k][c] = "none" BY <2>1 DEF CInv, SumsFixed
  <2>4. PayTypes' BY <1>2, <2>1 DEF PayTypes
  <2> QED BY <1>3, <2>1, <2>2, <2>3, <2>4
<1>5. ASSUME StartSubmitting(k) PROVE AInv'
  <2>1. phase[k] = "prepare" /\ UNCHANGED <<blobberMap, answer, counter, paid, latest, busy>>
    BY <1>5 DEF StartSubmitting, Prepared
  <2>2. /\ \A j \in Batches, c \in Blobbers : j # k =>
             work'[j][c] = work[j][c] /\ tries'[j][c] = tries[j][c]
        /\ \A c \in Blobbers : /\ tries'[k][c] = Retries
                               /\ work'[k][c] = "none" \/ work'[k][c] = "try"
        /\ tries' \in [Batches -> [Blobbers -> 0 .. Retries]]
    BY <1>2, <1>5, ReadMarkerConstants DEF StartSubmitting, CInv, Types, PayTypes
  <2>3. PayTypes' BY <1>2, <2>1, <2>2 DEF PayTypes
  <2> QED BY <1>3, <2>1, <2>2, <2>3
<1>6. ASSUME \/ \E r \in Requests : PrepareError(k, r)
             \/ SendFree(k) \/ Finish(k)
      PROVE  AInv'
  <2>1. UNCHANGED <<work, answer, counter, tries, paid, blobberMap, busy, latest>>
    BY <1>6 DEF PrepareError, SendFree, Finish
  <2> QED BY <1>1, <2>1, NobodyPays
<1> QED BY <1>4, <1>5, <1>6 DEF Prepare

LEMMA AAlways == Spec => []AInv
<1>1. CInv /\ CInv' /\ AInv /\ [Next]_vars => AInv'
  <2> SUFFICES ASSUME CInv, CInv', AInv, [Next]_vars PROVE AInv' OBVIOUS
  <2> USE DEF reqVars, subVars, ctrVars, extVars
  <2>1. \A c \in Blobbers : latest[c] \in Int /\ latest[c] >= latest[c] BY DEF CInv, Types
  <2>2. ASSUME NEW r \in Requests, Call(r) \/ Cancel(r) PROVE AInv'
    <3>1. UNCHANGED <<work, answer, counter, tries, paid, blobberMap, busy, latest>>
      BY <2>2 DEF Call, AddRequest, RefuseRequest, Cancel
    <3> QED BY <2>1, <3>1, NobodyPays
  <2>3. ASSUME NEW b \in Blobbers, OtherProcess(b) PROVE AInv'
    <3>1. UNCHANGED <<work, answer, counter, tries, paid, blobberMap, busy>>
      BY <2>3 DEF OtherProcess
    <3>2. \A c \in Blobbers : latest'[c] \in Int /\ latest'[c] >= latest[c]
      BY <2>3 DEF OtherProcess, CInv, Types
    <3> QED BY <3>1, <3>2, NobodyPays
  <2>4. ASSUME UNCHANGED vars PROVE AInv'
    <3>1. UNCHANGED <<work, answer, counter, tries, paid, blobberMap, busy, latest>>
      BY <2>4 DEF vars
    <3> QED BY <2>1, <3>1, NobodyPays
  <2>5. ASSUME NEW k \in Batches, NEW b \in Blobbers, Submit(k, b) PROVE AInv'
    BY <2>5, WorkPays, BlobberPays, OutcomePays DEF Submit
  <2> QED BY <2>2, <2>3, <2>4, <2>5, BatchPays DEF Next, Process
<1> QED BY <1>1, AInit, CAlways, PTL DEF Spec

\* submitReadMarker: whatever is lost, closed, late or refused, a batch pays a blobber at
\* most once per try, not counting the tries the blobber asked to be repeated.
THEOREM PaymentsBounded == Spec => []PaidAtMostRetries
<1>1. AInv => PaidAtMostRetries BY DEF AInv, Attempted, Pays, Due, PaidAtMostRetries
<1> QED BY <1>1, AAlways, PTL

-----------------------------------------------------------------------------
(* What is sent to downloadChan                                             *)

Places == {"new", "refused", "queued", "ready", "skipped", "sent", "failed"}

RequestTypes ==
  /\ queue \subseteq Requests
  /\ st \in [Requests -> Places]
  /\ mask \in [Requests -> SUBSET Blobbers]
  /\ drs \in [Batches -> SUBSET Requests]
  /\ seen \in [Batches -> [Blobbers -> SUBSET Blobbers]]
  /\ successMask \in [Batches -> SUBSET Blobbers]

\* A request is in the queue or in one batch, and nothing has happened to it in the queue.
OneBatch ==
  /\ \A r \in queue : r < next /\ st[r] = "queued"
  /\ \A k \in Batches : \A r \in drs[k] : r < next /\ r \notin queue
  /\ \A j \in Batches, k \in Batches : j # k => drs[j] \intersect drs[k] = {}

\* successMask is empty while the sums still grow.
NoSuccessYet ==
  \A k \in Batches : phase[k] \in {"none", "prepare"} =>
    successMask[k] = {} /\ \A b \in Blobbers : seen[k][b] = {}

Paid(k, b) == paid[k][b] >= blobberMap[k][b]

\* Whoever is in successMask, or in a copy of it some goroutine is about to write back.
SuccessIsPaid ==
  \A k \in Batches :
    /\ \A c \in successMask[k] : Paid(k, c)
    /\ \A b \in Blobbers : \A c \in seen[k][b] : Paid(k, c)

\* SentIsPaid, and the batch has come to its end.
SentAtTheEnd ==
  ~free => \A k \in Batches : \A r \in drs[k] : st[r] = "sent" =>
    /\ phase[k] = "done"
    /\ Cardinality(mask[r]) >= DataShards
    /\ \A b \in mask[r] : Paid(k, b)

BInv == RequestTypes /\ OneBatch /\ NoSuccessYet /\ SuccessIsPaid /\ SentAtTheEnd

LEMMA BInit == Init => BInv
<1> SUFFICES ASSUME Init PROVE BInv OBVIOUS
<1> USE DEF Init
<1>1. seen = [k \in Batches |-> [b \in Blobbers |-> {}]] BY DEF Per
<1>2. RequestTypes BY <1>1 DEF RequestTypes, Places
<1>3. OneBatch BY DEF OneBatch
<1>4. NoSuccessYet BY <1>1 DEF NoSuccessYet
<1>5. SuccessIsPaid BY <1>1 DEF SuccessIsPaid
<1>6. SentAtTheEnd BY DEF SentAtTheEnd
<1> QED BY <1>2, <1>3, <1>4, <1>5, <1>6 DEF BInv

\* paid only grows, and the sums stay what they are, in every step of a goroutine.
LEMMA PaidStays ==
  ASSUME CInv, AInv, AInv', NEW k \in Batches, NEW b \in Blobbers, Submit(k, b)
  PROVE  /\ UNCHANGED <<reqVars, phase, blobberMap>>
         /\ \A j \in Batches, c \in Blobbers : paid'[j][c] >= paid[j][c]
<1> USE DEF reqVars, subVars, ctrVars, extVars
<1>1. UNCHANGED <<reqVars, phase, blobberMap>>
  BY DEF Submit, Attempt, BlobberAccepts, BlobberStale, BlobberRefuses, ConnectionClosed,
         NoResponse, HandleOK, HandleLateOK, HandleStale, HandleError, HandleDenied, HandleBusy,
         ReadSuccess, WriteSuccess
<1>2. paid' = paid \/ Redeem(k, b)
  BY DEF Submit, Attempt, BlobberAccepts, BlobberStale, BlobberRefuses, ConnectionClosed,
         NoResponse, HandleOK, HandleLateOK, HandleStale, HandleError, HandleDenied, HandleBusy,
         ReadSuccess, WriteSuccess
<1>3. /\ paid \in [Batches -> [Blobbers -> Nat]]
      /\ blobberMap[k][b] \in Nat
  BY DEF AInv, PayTypes, CInv, Types
<1>4. CASE paid' = paid BY <1>1, <1>3, <1>4
<1>5. CASE Redeem(k, b)
  <2>1. paid' = [paid EXCEPT ![k][b] = paid[k][b] + blobberMap[k][b]]
    BY <1>5 DEF Redeem, Set
  <2>2. ASSUME NEW j \in Batches, NEW c \in Blobbers PROVE paid'[j][c] >= paid[j][c]
    <3>1. CASE j = k /\ c = b
      <4>1. paid'[k][b] = paid[k][b] + blobberMap[k][b] /\ paid[k][b] \in Nat BY <2>1, <1>3
      <4> QED BY <4>1, <3>1, <1>3
    <3>2. CASE j # k \/ c # b
      <4>1. paid'[j][c] = paid[j][c] /\ paid[j][c] \in Nat BY <2>1, <1>3, <3>2
      <4> QED BY <4>1
    <3> QED BY <3>1, <3>2
  <2> QED BY <1>1, <2>2
<1> QED BY <1>2, <1>4, <1>5

\* Who was paid stays paid.
LEMMA PaidKept ==
  ASSUME CInv, AInv, AInv', blobberMap' = blobberMap,
         \A j \in Batches, c \in Blobbers : paid'[j][c] >= paid[j][c]
  PROVE  \A j \in Batches, c \in Blobbers : Paid(j, c) => Paid(j, c)'
<1> SUFFICES ASSUME NEW j \in Batches, NEW c \in Blobbers, Paid(j, c) PROVE Paid(j, c)'
  OBVIOUS
<1>1. paid[j][c] \in Nat /\ paid'[j][c] \in Nat /\ blobberMap[j][c] \in Nat
  BY DEF AInv, PayTypes, CInv, Types
<1>2. paid'[j][c] >= paid[j][c] OBVIOUS
<1> QED BY <1>1, <1>2 DEF Paid

LEMMA SubmitKeeps ==
  ASSUME CInv, AInv, AInv', BInv, NEW k \in Batches, NEW b \in Blobbers, Submit(k, b)
  PROVE  BInv'
<1>1. /\ UNCHANGED <<next, queue, st, mask, canceled, drs, free, phase, blobberMap>>
      /\ \A j \in Batches, c \in Blobbers : Paid(j, c) => Paid(j, c)'
  BY PaidStays, PaidKept DEF reqVars
<1>2. \/ UNCHANGED <<seen, successMask>>
      \/ /\ work[k][b] # "none" /\ successMask' = successMask
         /\ seen' = [seen EXCEPT ![k][b] = successMask[k]]
      \/ /\ work[k][b] = "or" /\ seen' = seen
         /\ successMask' = [successMask EXCEPT ![k] = seen[k][b] \union {b}]
  BY DEF Submit, Attempt, BlobberAccepts, BlobberStale, BlobberRefuses, ConnectionClosed,
         NoResponse, HandleOK, HandleLateOK, HandleStale, HandleError, HandleDenied, HandleBusy,
         ReadSuccess, WriteSuccess, subVars, Set
<1>3. work[k][b] # "none" => phase[k] \in {"submit", "done"} BY DEF CInv, SumsFixed
<1>4. work[k][b] = "or" => Paid(k, b) BY DEF AInv, Attempted, Paid
<1>5. /\ seen' \in [Batches -> [Blobbers -> SUBSET Blobbers]]
      /\ successMask' \in [Batches -> SUBSET Blobbers]
  <2>1. /\ seen \in [Batches -> [Blobbers -> SUBSET Blobbers]]
        /\ successMask \in [Batches -> SUBSET Blobbers]
    BY DEF BInv, RequestTypes
  <2>2. successMask[k] \in SUBSET Blobbers /\ seen[k][b] \union {b} \in SUBSET Blobbers
    <3>1. seen[k] \in [Blobbers -> SUBSET Blobbers] BY <2>1
    <3>2. seen[k][b] \in SUBSET Blobbers BY <3>1
    <3> QED BY <2>1, <3>2
  <2>3. [seen EXCEPT ![k][b] = successMask[k]] \in [Batches -> [Blobbers -> SUBSET Blobbers]]
    <3>1. [seen[k] EXCEPT ![b] = successMask[k]] \in [Blobbers -> SUBSET Blobbers]
      BY <2>1, <2>2
    <3> QED BY <2>1, <3>1
  <2>4. [successMask EXCEPT ![k] = seen[k][b] \union {b}] \in [Batches -> SUBSET Blobbers]
    BY <2>1, <2>2
  <2> QED BY <1>2, <2>1, <2>3, <2>4
<1>6. RequestTypes' BY <1>1, <1>5 DEF BInv, RequestTypes
<1>7. OneBatch' BY <1>1 DEF BInv, OneBatch
<1>8. NoSuccessYet' BY <1>1, <1>2, <1>3 DEF BInv, NoSuccessYet, RequestTypes
<1>9. SuccessIsPaid'
  <2>1. ASSUME NEW j \in Batches, NEW c \in successMask'[j] PROVE Paid(j, c)'
    <3>1. c \in Blobbers BY <1>5
    <3>2. c \in successMask[j] \/ (j = k /\ work[k][b] = "or" /\ c \in seen[k][b] \union {b})
      BY <1>2 DEF BInv, RequestTypes
    <3>3. Paid(j, c) BY <1>4, <3>2 DEF BInv, SuccessIsPaid
    <3> QED BY <1>1, <3>1, <3>3
  <2>2. ASSUME NEW j \in Batches, NEW d \in Blobbers, NEW c \in seen'[j][d] PROVE Paid(j, c)'
    <3>1. c \in Blobbers BY <1>5
    <3>2. c \in seen[j][d] \/ (j = k /\ c \in successMask[k])
      <4>1. seen \in [Batches -> [Blobbers -> SUBSET Blobbers]] BY DEF BInv, RequestTypes
      <4>2. CASE seen' = seen BY <4>2
      <4>3. CASE seen' = [seen EXCEPT ![k][b] = successMask[k]]
        <5>1. CASE j = k /\ d = b
          <6>1. seen'[j][d] = successMask[k] BY <4>1, <4>3, <5>1
          <6> QED BY <5>1, <6>1
        <5>2. CASE j # k \/ d # b
          <6>1. seen'[j][d] = seen[j][d] BY <4>1, <4>3, <5>2
          <6> QED BY <6>1
        <5> QED BY <5>1, <5>2
      <4> QED BY <1>2, <4>2, <4>3
    <3>3. Paid(j, c) BY <3>2 DEF BInv, SuccessIsPaid
    <3> QED BY <1>1, <3>1, <3>3
  <2> QED BY <2>1, <2>2 DEF SuccessIsPaid
<1>10. SentAtTheEnd'
  <2> SUFFICES ASSUME ~free, NEW j \in Batches, NEW r \in drs[j], st[r] = "sent"
               PROVE  /\ phase[j] = "done"
                      /\ Cardinality(mask[r]) >= DataShards
                      /\ \A c \in mask[r] : Paid(j, c)'
    BY <1>1 DEF SentAtTheEnd
  <2>1. mask[r] \subseteq Blobbers BY DEF BInv, RequestTypes
  <2> QED BY <1>1, <2>1 DEF BInv, SentAtTheEnd
<1> QED BY <1>6, <1>7, <1>8, <1>9, <1>10 DEF BInv

\* A step that moves requests but pays nobody and leaves successMask alone.
LEMMA RequestsMove ==
  ASSUME CInv, BInv, RequestTypes', OneBatch',
         UNCHANGED <<seen, successMask, paid, blobberMap, free>>,
         \A k \in Batches : phase'[k] \in {"none", "prepare"} => phase[k] \in {"none", "prepare"},
         SentAtTheEnd'
  PROVE  BInv'
<1>1. NoSuccessYet' BY DEF BInv, NoSuccessYet
<1>2. SuccessIsPaid' BY DEF BInv, SuccessIsPaid, Paid
<1> QED BY <1>1, <1>2 DEF BInv

LEMMA CallKeeps ==
  ASSUME CInv, CInv', BInv, NEW r \in Requests, Call(r) \/ Cancel(r)
  PROVE  BInv'
<1> USE DEF subVars, extVars
<1>1. next \in Int /\ r \in Int BY DEF CInv, Types, Requests
<1>2. ASSUME AddRequest(r) PROVE BInv'
  <2>1. /\ r = next /\ next' = next + 1
        /\ st' = [st EXCEPT ![r] = "queued"] /\ mask' = [mask EXCEPT ![r] = Blobbers]
        /\ UNCHANGED <<seen, successMask, paid, blobberMap, free>>
    BY <1>2 DEF AddRequest
  <2>2. /\ st'[r] = "queued" /\ \A q \in Requests : q # r => st'[q] = st[q] /\ mask'[q] = mask[q]
        /\ st' \in [Requests -> Places] /\ mask' \in [Requests -> SUBSET Blobbers]
    BY <2>1 DEF BInv, RequestTypes, Places
  <2>3. /\ \A q \in queue : q \in Requests /\ q < next /\ q # r /\ st[q] = "queued"
        /\ \A k \in Batches : \A q \in drs[k] : q \in Requests /\ q < next /\ q # r /\ q \notin queue
    BY <2>1, <1>1 DEF BInv, OneBatch, RequestTypes, Requests
  <2>4. CASE r \in Finals
    <3>1. /\ r \in Batches /\ drs' = [drs EXCEPT ![r] = queue \union {r}] /\ queue' = {}
          /\ phase' = [phase EXCEPT ![r] = "prepare"]
      BY <1>2, <2>4 DEF AddRequest, Batches
    <3>2. /\ drs' \in [Batches -> SUBSET Requests] /\ drs'[r] = queue \union {r}
          /\ \A k \in Batches : k # r => drs'[k] = drs[k]
      BY <3>1 DEF BInv, RequestTypes
    <3>3. phase[r] = "none" BY <3>1, <2>1, <1>1 DEF CInv, SumsFixed
    <3>4. /\ phase'[r] = "prepare" /\ \A k \in Batches : k # r => phase'[k] = phase[k]
      BY <3>1 DEF CInv, Types
    <3>5. RequestTypes' BY <2>1, <2>2, <3>1, <3>2 DEF BInv, RequestTypes
    <3>6. OneBatch'
      <4>1. ASSUME NEW k \in Batches, NEW q \in drs'[k] PROVE q < next' /\ q \notin queue'
        <5>1. q < next \/ q = r BY <2>3, <3>2
        <5>2. q \in Int BY <3>2 DEF Requests
        <5> QED BY <5>1, <5>2, <1>1, <2>1, <3>1
      <4>2. ASSUME NEW j \in Batches, NEW k \in Batches, j # k
            PROVE  drs'[j] \intersect drs'[k] = {}
        <5>1. CASE j # r /\ k # r BY <4>2, <5>1, <3>2 DEF BInv, OneBatch
        <5>2. CASE j = r BY <4>2, <5>2, <2>3, <3>2
        <5>3. CASE k = r BY <4>2, <5>3, <2>3, <3>2
        <5> QED BY <5>1, <5>2, <5>3
      <4> QED BY <3>1, <4>1, <4>2 DEF OneBatch
    <3>7. SentAtTheEnd'
      <4> SUFFICES ASSUME ~free, NEW k \in Batches, NEW q \in drs'[k], st'[q] = "sent"
                   PROVE  /\ phase'[k] = "done" /\ Cardinality(mask'[q]) >= DataShards
                          /\ \A b \in mask'[q] : Paid(k, b)'
        BY <2>1 DEF SentAtTheEnd
      <4>1. k # r
        <5>1. k = r => st'[q] = "queued" BY <2>2, <2>3, <3>2
        <5> QED BY <5>1
      <4>2. q \in drs[k] /\ q \in Requests /\ q # r /\ st[q] = "sent" /\ mask'[q] = mask[q]
        BY <2>2, <2>3, <3>2, <4>1
      <4> QED BY <2>1, <3>4, <4>1, <4>2 DEF BInv, SentAtTheEnd, Paid
    <3>8. \A k \in Batches : phase'[k] \in {"none", "prepare"} => phase[k] \in {"none", "prepare"}
      BY <3>3, <3>4
    <3> QED BY <2>1, <3>5, <3>6, <3>7, <3>8, RequestsMove
  <2>5. CASE r \notin Finals
    <3>1. queue' = queue \union {r} /\ UNCHANGED <<drs, phase>>
      BY <1>2, <2>5 DEF AddRequest
    <3>2. RequestTypes' BY <2>1, <2>2, <3>1 DEF BInv, RequestTypes
    <3>3. OneBatch'
      <4>1. ASSUME NEW q \in queue' PROVE q < next' /\ st'[q] = "queued"
        <5>1. CASE q = r BY <5>1, <1>1, <2>1, <2>2
        <5>2. CASE q \in queue
          <6>1. q \in Int BY <2>3, <5>2 DEF Requests
          <6> QED BY <5>2, <6>1, <1>1, <2>1, <2>2, <2>3
        <5> QED BY <3>1, <5>1, <5>2
      <4>2. ASSUME NEW k \in Batches, NEW q \in drs'[k] PROVE q < next' /\ q \notin queue'
        <5>1. q \in Requests /\ q < next /\ q # r /\ q \notin queue BY <2>3, <3>1
        <5>2. q \in Int BY <5>1 DEF Requests
        <5> QED BY <5>1, <5>2, <1>1, <2>1, <3>1
      <4> QED BY <3>1, <4>1, <4>2 DEF BInv, OneBatch
    <3>4. SentAtTheEnd'
      <4> SUFFICES ASSUME ~free, NEW k \in Batches, NEW q \in drs[k], st'[q] = "sent"
                   PROVE  /\ phase[k] = "done" /\ Cardinality(mask'[q]) >= DataShards
                          /\ \A b \in mask'[q] : Paid(k, b)'
        BY <2>1, <3>1 DEF SentAtTheEnd
      <4>1. q \in Requests /\ q # r /\ st[q] = "sent" /\ mask'[q] = mask[q] BY <2>2, <2>3
      <4> QED BY <2>1, <4>1 DEF BInv, SentAtTheEnd, Paid
    <3> QED BY <2>1, <3>1, <3>2, <3>3, <3>4, RequestsMove
  <2> QED BY <2>4, <2>5
<1>3. ASSUME RefuseRequest(r) PROVE BInv'
  <2>1. /\ r = next /\ next' = next + 1 /\ st' = [st EXCEPT ![r] = "refused"]
        /\ UNCHANGED <<queue, mask, drs, phase, seen, successMask, paid, blobberMap, free>>
    BY <1>3 DEF RefuseRequest
  <2>2. /\ st' \in [Requests -> Places] /\ st'[r] = "refused"
        /\ \A q \in Requests : q # r => st'[q] = st[q]
    BY <2>1 DEF BInv, RequestTypes, Places
  <2>3. /\ \A q \in queue : q \in Int /\ q \in Requests /\ q < next /\ q # r /\ st[q] = "queued"
        /\ \A k \in Batches : \A q \in drs[k] :
             q \in Int /\ q \in Requests /\ q < next /\ q # r /\ q \notin queue
    BY <2>1, <1>1 DEF BInv, OneBatch, RequestTypes, Requests
  <2>4. RequestTypes' BY <2>1, <2>2 DEF BInv, RequestTypes
  <2>5. OneBatch' BY <1>1, <2>1, <2>2, <2>3 DEF BInv, OneBatch
  <2>6. SentAtTheEnd' BY <2>1, <2>2, <2>3 DEF BInv, SentAtTheEnd, Paid
  <2> QED BY <2>1, <2>4, <2>5, <2>6, RequestsMove
<1>4. ASSUME Cancel(r) PROVE BInv'
  <2>1. UNCHANGED <<next, queue, st, mask, drs, phase, seen, successMask, paid, blobberMap, free>>
    BY <1>4 DEF Cancel
  <2>2. RequestTypes' /\ OneBatch' /\ SentAtTheEnd'
    BY <2>1 DEF BInv, RequestTypes, OneBatch, SentAtTheEnd, Paid
  <2> QED BY <2>1, <2>2, RequestsMove
<1> QED BY <1>2, <1>3, <1>4 DEF Call

\* Looking up the files of a batch, and starting its goroutines.
LEMMA PrepareKeeps ==
  ASSUME CInv, CInv', BInv, NEW k \in Batches, Prepare(k) \/ StartSubmitting(k)
  PROVE  BInv'
<1> USE DEF reqVars, subVars, ctrVars, extVars
<1>1. phase[k] = "prepare" BY DEF Prepare, PrepareFound, PrepareError, StartSubmitting, Prepared
<1>2. ASSUME NEW r \in Requests, PrepareFound(k, r) PROVE BInv'
  <2>1. /\ r \in drs[k] /\ st[r] = "queued" /\ st' = [st EXCEPT ![r] = "ready"]
        /\ UNCHANGED <<next, queue, drs, free, phase, seen, successMask, paid>>
    BY <1>2 DEF PrepareFound
  <2>2. PICK m \in SUBSET Blobbers : mask' = [mask EXCEPT ![r] = m]
    BY <1>2 DEF PrepareFound
  <2>3. \A j \in Batches, c \in Blobbers : j # k => blobberMap'[j][c] = blobberMap[j][c]
    BY <1>2 DEF PrepareFound, CInv, Types
  <2>4. /\ st' \in [Requests -> Places] /\ mask' \in [Requests -> SUBSET Blobbers]
        /\ st'[r] = "ready" /\ \A q \in Requests : q # r => st'[q] = st[q] /\ mask'[q] = mask[q]
    BY <2>1, <2>2 DEF BInv, RequestTypes, Places
  <2>5. r \notin queue BY <2>1 DEF BInv, OneBatch
  <2>6. RequestTypes' BY <2>1, <2>4 DEF BInv, RequestTypes
  <2>7. OneBatch'
    <3>1. \A q \in queue : q \in Requests /\ q # r BY <2>5 DEF BInv, RequestTypes
    <3> QED BY <2>1, <2>4, <3>1 DEF BInv, OneBatch
  <2>8. NoSuccessYet' BY <2>1 DEF BInv, NoSuccessYet
  <2>9. SuccessIsPaid'
    <3>1. successMask[k] = {} /\ \A b \in Blobbers : seen[k][b] = {}
      BY <1>1 DEF BInv, NoSuccessYet
    <3>2. \A j \in Batches, c \in Blobbers : j # k /\ Paid(j, c) => Paid(j, c)'
      BY <2>1, <2>3 DEF Paid
    <3>3. ASSUME NEW j \in Batches, NEW c \in successMask[j] PROVE Paid(j, c)'
      <4>1. j # k /\ c \in Blobbers /\ Paid(j, c)
        BY <3>1, <3>3 DEF BInv, RequestTypes, SuccessIsPaid
      <4> QED BY <3>2, <4>1
    <3>4. ASSUME NEW j \in Batches, NEW d \in Blobbers, NEW c \in seen[j][d] PROVE Paid(j, c)'
      <4>1. seen[j] \in [Blobbers -> SUBSET Blobbers] BY DEF BInv, RequestTypes
      <4>2. seen[j][d] \subseteq Blobbers BY <4>1
      <4>3. j # k /\ c \in Blobbers /\ Paid(j, c) BY <3>1, <3>4, <4>2 DEF BInv, SuccessIsPaid
      <4> QED BY <3>2, <4>3
    <3> QED BY <2>1, <3>3, <3>4 DEF SuccessIsPaid
  <2>10. SentAtTheEnd'
    <3> SUFFICES ASSUME ~free, NEW j \in Batches, NEW q \in drs[j], st'[q] = "sent"
                 PROVE  /\ phase[j] = "done" /\ Cardinality(mask'[q]) >= DataShards
                        /\ \A b \in mask'[q] : Paid(j, b)'
      BY <2>1 DEF SentAtTheEnd
    <3>1. q \in Requests /\ q # r /\ st[q] = "sent" /\ mask'[q] = mask[q]
      BY <2>4 DEF BInv, RequestTypes
    <3>2. phase[j] = "done" /\ mask[q] \subseteq Blobbers
      BY <3>1 DEF BInv, SentAtTheEnd, RequestTypes
    <3>3. j # k BY <1>1, <3>2
    <3> QED BY <2>1, <2>3, <3>1, <3>2, <3>3 DEF BInv, SentAtTheEnd, Paid
  <2> QED BY <2>6, <2>7, <2>8, <2>9, <2>10 DEF BInv
<1>3. ASSUME NEW r \in Requests, PrepareError(k, r) PROVE BInv'
  <2>1. /\ r \in drs[k] /\ st[r] = "queued" /\ st' = [st EXCEPT ![r] = "skipped"]
        /\ UNCHANGED <<next, queue, mask, drs, free, phase, seen, successMask, paid, blobberMap>>
    BY <1>3 DEF PrepareError
  <2>2. /\ st' \in [Requests -> Places]
        /\ st'[r] = "skipped" /\ \A q \in Requests : q # r => st'[q] = st[q]
    BY <2>1 DEF BInv, RequestTypes, Places
  <2>3. RequestTypes' BY <2>1, <2>2 DEF BInv, RequestTypes
  <2>4. OneBatch'
    <3>1. \A q \in queue : q \in Requests /\ q # r BY <2>1 DEF BInv, RequestTypes, OneBatch
    <3> QED BY <2>1, <2>2, <3>1 DEF BInv, OneBatch
  <2>5. SentAtTheEnd'
    <3>1. \A q \in Requests : st'[q] = "sent" => st[q] = "sent" BY <2>2
    <3>2. \A j \in Batches : drs[j] \subseteq Requests BY DEF BInv, RequestTypes
    <3> QED BY <2>1, <3>1, <3>2 DEF BInv, SentAtTheEnd, Paid
  <2> QED BY <2>1, <2>3, <2>4, <2>5, RequestsMove
<1>4. ASSUME StartSubmitting(k) PROVE BInv'
  <2>1. /\ UNCHANGED <<next, queue, st, mask, drs, free, seen, successMask, paid, blobberMap>>
        /\ phase' = [phase EXCEPT ![k] = "submit"]
    BY <1>4 DEF StartSubmitting
  <2>2. phase'[k] = "submit" /\ \A j \in Batches : j # k => phase'[j] = phase[j]
    BY <2>1 DEF CInv, Types
  <2>3. RequestTypes' /\ OneBatch' BY <2>1 DEF BInv, RequestTypes, OneBatch
  <2>4. SentAtTheEnd'
    <3> SUFFICES ASSUME ~free, NEW j \in Batches, NEW q \in drs[j], st[q] = "sent"
                 PROVE  /\ phase'[j] = "done" /\ Cardinality(mask[q]) >= DataShards
                        /\ \A b \in mask[q] : Paid(j, b)'
      BY <2>1 DEF SentAtTheEnd
    <3>1. phase[j] = "done" /\ j # k BY <1>1 DEF BInv, SentAtTheEnd
    <3> QED BY <2>1, <2>2, <3>1 DEF BInv, SentAtTheEnd, Paid
  <2>5. \A j \in Batches : phase'[j] \in {"none", "prepare"} => phase[j] \in {"none", "prepare"}
    BY <2>2
  <2> QED BY <2>1, <2>3, <2>4, <2>5, RequestsMove
<1> QED BY <1>2, <1>3, <1>4 DEF Prepare

\* The end of a batch: what is left of a request's mask has been paid.
LEMMA EndKeeps ==
  ASSUME CInv, BInv, NEW k \in Batches, SendFree(k) \/ Finish(k)
  PROVE  BInv'
<1> USE DEF subVars, extVars
<1>1. /\ UNCHANGED <<next, queue, drs, free, seen, successMask, paid, blobberMap>>
      /\ phase' = [phase EXCEPT ![k] = "done"]
  BY DEF SendFree, Finish
<1>2. phase'[k] = "done" /\ \A j \in Batches : j # k => phase'[j] = phase[j]
  BY <1>1 DEF CInv, Types
<1>3. \A j \in Batches : phase'[j] \in {"none", "prepare"} => phase[j] \in {"none", "prepare"}
  BY <1>2
<1>4. \A q \in queue : q \in Requests /\ q \notin Ready(k)
  BY DEF BInv, OneBatch, RequestTypes, Ready
<1>5. \A j \in Batches : drs[j] \subseteq Requests BY DEF BInv, RequestTypes
<1>6. CASE SendFree(k)
  <2>1. /\ free /\ mask' = mask
        /\ st' = [r \in Requests |-> IF r \in Ready(k) THEN "sent" ELSE st[r]]
    BY <1>6 DEF SendFree
  <2>2. st' \in [Requests -> Places] /\ \A q \in queue : st'[q] = st[q]
    BY <1>4, <2>1 DEF BInv, RequestTypes, Places
  <2>3. RequestTypes' BY <1>1, <2>1, <2>2 DEF BInv, RequestTypes
  <2>4. OneBatch' BY <1>1, <2>2 DEF BInv, OneBatch
  <2>5. SentAtTheEnd' BY <1>1, <2>1 DEF SentAtTheEnd
  <2> QED BY <1>1, <1>3, <2>3, <2>4, <2>5, RequestsMove
<1>7. CASE Finish(k)
  <2> DEFINE left(r) == mask[r] \intersect successMask[k]
  <2>1. /\ phase[k] = "submit"
        /\ mask' = [r \in Requests |-> IF r \in Ready(k) THEN left(r) ELSE mask[r]]
        /\ st' = [r \in Requests |-> IF r \notin Ready(k) THEN st[r]
                                     ELSE IF DataShards > Cardinality(left(r)) THEN "failed"
                                     ELSE "sent"]
    BY <1>7 DEF Finish
  <2>2. /\ \A r \in Requests : r \notin Ready(k) => st'[r] = st[r] /\ mask'[r] = mask[r]
        /\ \A r \in Requests : r \in Ready(k) => mask'[r] = left(r)
        /\ \A r \in Requests : r \in Ready(k) /\ DataShards > Cardinality(left(r)) =>
             st'[r] = "failed"
        /\ \A r \in Requests : r \in Ready(k) => st'[r] \in {"failed", "sent"}
    <3>1. ASSUME NEW r \in Requests, r \notin Ready(k) PROVE st'[r] = st[r] /\ mask'[r] = mask[r]
      BY <2>1, <3>1
    <3>2. ASSUME NEW r \in Requests, r \in Ready(k)
          PROVE  /\ mask'[r] = left(r)
                 /\ st'[r] = IF DataShards > Cardinality(left(r)) THEN "failed" ELSE "sent"
      BY <2>1, <3>2
    <3> HIDE DEF left
    <3> QED BY <3>1, <3>2
  <2>3. st' \in [Requests -> Places]
    <3>1. \A r \in Requests : st'[r] \in Places BY <2>2 DEF BInv, RequestTypes, Places
    <3>2. st' = [r \in Requests |-> st'[r]] BY <2>1
    <3> HIDE DEF left
    <3> QED BY <3>1, <3>2
  <2>4. mask' \in [Requests -> SUBSET Blobbers] BY <2>1 DEF BInv, RequestTypes
  <2>5. RequestTypes' BY <1>1, <2>3, <2>4 DEF BInv, RequestTypes
  <2>6. OneBatch' BY <1>1, <1>4, <2>2 DEF BInv, OneBatch
  <2>7. SentAtTheEnd'
    <3> SUFFICES ASSUME ~free, NEW j \in Batches, NEW q \in drs[j], st'[q] = "sent"
                 PROVE  /\ phase'[j] = "done" /\ Cardinality(mask'[q]) >= DataShards
                        /\ \A b \in mask'[q] : Paid(j, b)'
      BY <1>1 DEF SentAtTheEnd
    <3>1. q \in Requests BY <1>5
    <3>2. CASE q \in Ready(k)
      <4>1. j = k BY <3>2 DEF Ready, BInv, OneBatch
      <4>2. mask'[q] = left(q) /\ ~(DataShards > Cardinality(left(q))) BY <2>2, <3>1, <3>2
      <4>3. Cardinality(left(q)) \in Nat /\ DataShards \in Int
        <5>1. IsFiniteSet(Blobbers) /\ Cardinality(Blobbers) \in Nat /\ DataShards \in Int
          BY ReadMarkerConstants, FS_CardinalityType
        <5>2. left(q) \subseteq Blobbers BY <3>1 DEF BInv, RequestTypes
        <5>3. IsFiniteSet(left(q)) BY <5>1, <5>2, FS_Subset
        <5> QED BY <5>1, <5>3, FS_CardinalityType
      <4>4. Cardinality(mask'[q]) >= DataShards BY <4>2, <4>3
      <4>5. \A b \in mask'[q] : Paid(j, b)'
        BY <1>1, <4>1, <4>2 DEF BInv, SuccessIsPaid, Paid
      <4> QED BY <1>2, <4>1, <4>4, <4>5
    <3>3. CASE q \notin Ready(k)
      <4>1. st[q] = "sent" /\ mask'[q] = mask[q] BY <2>2, <3>1, <3>3
      <4>2. phase[j] = "done" /\ j # k BY <2>1, <4>1 DEF BInv, SentAtTheEnd
      <4> QED BY <1>1, <1>2, <4>1, <4>2 DEF BInv, SentAtTheEnd, Paid
    <3> QED BY <3>2, <3>3
  <2> QED BY <1>1, <1>3, <2>5, <2>6, <2>7, RequestsMove
<1> QED BY <1>6, <1>7

LEMMA BAlways == Spec => []BInv
<1>1. CInv /\ CInv' /\ AInv /\ AInv' /\ BInv /\ [Next]_vars => BInv'
  <2> SUFFICES ASSUME CInv, CInv', AInv, AInv', BInv, [Next]_vars PROVE BInv' OBVIOUS
  <2>1. ASSUME (\E b \in Blobbers : OtherProcess(b)) \/ UNCHANGED vars PROVE BInv'
    <3>1. UNCHANGED <<next, queue, st, mask, drs, free, phase, seen, successMask, paid,
                      blobberMap>>
      BY <2>1 DEF OtherProcess, vars, reqVars, subVars, extVars
    <3>2. RequestTypes' /\ OneBatch' /\ SentAtTheEnd'
      BY <3>1 DEF BInv, RequestTypes, OneBatch, SentAtTheEnd, Paid
    <3> QED BY <3>1, <3>2, RequestsMove
  <2> QED BY <2>1, CallKeeps, PrepareKeeps, EndKeeps, SubmitKeeps DEF Next, Process
<1> QED BY <1>1, BInit, CAlways, AAlways, PTL DEF Spec

\* processReadMarker: although the goroutines of a batch overwrite each other's bits of
\* successMask, no request reaches downloadChan with fewer blobbers than it needs or with
\* one that was not paid for the batch.
THEOREM OnlyPaidIsSent == Spec => []SentIsPaid
<1>1. BInv => SentIsPaid BY DEF BInv, SentAtTheEnd, Paid, SentIsPaid
<1> QED BY <1>1, BAlways, PTL

\* How a blobber is lost from successMask: whoever another goroutine did not see, or
\* will not see when it writes its copy back, overlapped with it.
Marked(k) == {b \in Blobbers : work[k][b] = "done"}

LostHaveRaced(k) ==
  /\ \A b \in InOr(k), c \in InOr(k) : b # c => b \in raced[k]
  /\ Marked(k) \ successMask[k] \subseteq raced[k]
  /\ \A c \in InOr(k) : Marked(k) \ seen[k][c] \subseteq raced[k]

RInv == raced \in [Batches -> SUBSET Blobbers] /\ \A k \in Batches : LostHaveRaced(k)

LEMMA RInit == Init => RInv
<1> SUFFICES ASSUME Init PROVE RInv OBVIOUS
<1>1. work = [k \in Batches |-> [b \in Blobbers |-> "none"]] BY DEF Init, Per
<1>2. \A k \in Batches : InOr(k) = {} /\ Marked(k) = {} BY <1>1 DEF InOr, Marked
<1> QED BY <1>2 DEF Init, RInv, LostHaveRaced

\* A step in which no goroutine enters or leaves its update.
LEMMA NoUpdate ==
  ASSUME RInv, UNCHANGED <<seen, successMask, raced>>,
         \A j \in Batches, c \in Blobbers :
           \/ work'[j][c] = work[j][c]
           \/ {work[j][c], work'[j][c]} \intersect {"or", "done"} = {}
  PROVE  RInv'
<1>1. \A j \in Batches : InOr(j)' = InOr(j) /\ Marked(j)' = Marked(j)
  BY DEF InOr, Marked
<1> QED BY <1>1 DEF RInv, LostHaveRaced

\* The work of another goroutine is not touched.
LEMMA OneWork ==
  ASSUME CInv, NEW k \in Batches, NEW b \in Blobbers, NEW w \in Works,
         work' = Set(work, k, b, w)
  PROVE  /\ work'[k][b] = w
         /\ \A j \in Batches, c \in Blobbers : (j # k \/ c # b) => work'[j][c] = work[j][c]
BY DEF CInv, Types, Set

LEMMA SubmitRaces ==
  ASSUME CInv, BInv, RInv, NEW k \in Batches, NEW b \in Blobbers, Submit(k, b)
  PROVE  RInv'
<1> USE DEF subVars, ctrVars
<1>1. ASSUME UNCHANGED <<seen, successMask, raced>>,
             work' = work \/ \E w \in {"try", "sent", "accepted", "failed"} :
               work' = Set(work, k, b, w) /\ work[k][b] \in {"try", "sent"}
      PROVE  RInv'
  <2>1. CASE work' = work BY <1>1, <2>1, NoUpdate
  <2>2. ASSUME NEW w \in {"try", "sent", "accepted", "failed"},
               work' = Set(work, k, b, w), work[k][b] \in {"try", "sent"}
        PROVE  RInv'
    <3>1. w \in Works BY DEF Works
    <3>2. \A j \in Batches, c \in Blobbers :
           \/ work'[j][c] = work[j][c]
           \/ {work[j][c], work'[j][c]} \intersect {"or", "done"} = {}
      BY <2>2, <3>1, OneWork
    <3> QED BY <1>1, <3>2, NoUpdate
  <2> QED BY <1>1, <2>1, <2>2
<1>2. CASE Attempt(k, b) BY <1>1, <1>2 DEF Attempt
<1>3. CASE \/ BlobberAccepts(k, b) \/ BlobberStale(k, b) \/ BlobberRefuses(k, b)
           \/ ConnectionClosed(k, b) \/ NoResponse(k, b)
  BY <1>1, <1>3 DEF BlobberAccepts, BlobberStale, BlobberRefuses, ConnectionClosed, NoResponse
<1>4. CASE \/ HandleOK(k, b) \/ HandleLateOK(k, b) \/ HandleStale(k, b)
           \/ HandleError(k, b) \/ HandleDenied(k, b) \/ HandleBusy(k, b)
  <2>1. answer[k][b] # NoAnswer
    BY <1>4 DEF HandleOK, HandleLateOK, HandleStale, HandleError, HandleDenied, HandleBusy,
                NoAnswer
  <2>2. work[k][b] = "sent" BY <2>1 DEF CInv, InFlightHolds
  <2> QED
    BY <1>1, <1>4, <2>2 DEF HandleOK, HandleLateOK, HandleStale, HandleError, HandleDenied,
                            HandleBusy, FailedTry, Return
<1>5. CASE ReadSuccess(k, b)
  <2>1. /\ work[k][b] = "accepted" /\ work' = Set(work, k, b, "or") /\ "or" \in Works
        /\ seen' = Set(seen, k, b, successMask[k]) /\ successMask' = successMask
        /\ raced' = [raced EXCEPT ![k] =
             @ \union IF InOr(k) = {} THEN {} ELSE InOr(k) \union {b}]
    BY <1>5 DEF ReadSuccess, Works
  <2>2. /\ work'[k][b] = "or"
        /\ \A j \in Batches, c \in Blobbers : (j # k \/ c # b) => work'[j][c] = work[j][c]
    BY <2>1, OneWork
  <2>3. /\ InOr(k)' = InOr(k) \union {b} /\ \A j \in Batches : Marked(j)' = Marked(j)
        /\ \A j \in Batches : j # k => InOr(j)' = InOr(j)
    BY <2>1, <2>2 DEF InOr, Marked
  <2>4. /\ raced' \in [Batches -> SUBSET Blobbers] /\ raced[k] \subseteq raced'[k]
        /\ InOr(k) # {} => InOr(k) \union {b} \subseteq raced'[k]
        /\ \A j \in Batches : j # k => raced'[j] = raced[j]
    <3>1. InOr(k) \subseteq Blobbers BY DEF InOr
    <3> QED BY <2>1, <3>1 DEF RInv
  <2>5. /\ seen'[k][b] = successMask[k]
        /\ \A j \in Batches, c \in Blobbers : (j # k \/ c # b) => seen'[j][c] = seen[j][c]
    BY <2>1 DEF BInv, RequestTypes, Set
  <2>6. ASSUME NEW j \in Batches, j # k PROVE LostHaveRaced(j)'
    <3>1. InOr(j) \subseteq Blobbers BY DEF InOr
    <3> QED BY <2>1, <2>3, <2>4, <2>5, <2>6, <3>1 DEF RInv, LostHaveRaced
  <2>7. LostHaveRaced(k)'
    <3>1. InOr(k) \subseteq Blobbers BY DEF InOr
    <3>2. ASSUME NEW c \in InOr(k)', NEW d \in InOr(k)', c # d PROVE c \in raced'[k]
      BY <2>3, <2>4, <3>2
    <3>3. Marked(k)' \ successMask'[k] \subseteq raced'[k]
      BY <2>1, <2>3, <2>4 DEF RInv, LostHaveRaced
    <3>4. ASSUME NEW c \in InOr(k)' PROVE Marked(k)' \ seen'[k][c] \subseteq raced'[k]
      <4>1. CASE c = b BY <4>1, <2>3, <2>4, <2>5 DEF RInv, LostHaveRaced
      <4>2. CASE c # b BY <4>2, <3>1, <3>4, <2>3, <2>4, <2>5 DEF RInv, LostHaveRaced
      <4> QED BY <4>1, <4>2
    <3> QED BY <3>2, <3>3, <3>4 DEF LostHaveRaced
  <2> QED BY <2>4, <2>6, <2>7 DEF RInv
<1>6. CASE WriteSuccess(k, b)
  <2>1. /\ work[k][b] = "or" /\ work' = Set(work, k, b, "done") /\ "done" \in Works
        /\ successMask' = [successMask EXCEPT ![k] = seen[k][b] \union {b}]
        /\ UNCHANGED <<seen, raced>>
    BY <1>6 DEF WriteSuccess, Works
  <2>2. /\ work'[k][b] = "done"
        /\ \A j \in Batches, c \in Blobbers : (j # k \/ c # b) => work'[j][c] = work[j][c]
    BY <2>1, OneWork
  <2>3. /\ b \in InOr(k) /\ InOr(k)' = InOr(k) \ {b} /\ Marked(k)' = Marked(k) \union {b}
        /\ \A j \in Batches : j # k => InOr(j)' = InOr(j) /\ Marked(j)' = Marked(j)
    BY <2>1, <2>2 DEF InOr, Marked
  <2>4. /\ successMask'[k] = seen[k][b] \union {b}
        /\ \A j \in Batches : j # k => successMask'[j] = successMask[j]
    BY <2>1 DEF BInv, RequestTypes
  <2>5. ASSUME NEW j \in Batches, j # k PROVE LostHaveRaced(j)'
    BY <2>1, <2>3, <2>4, <2>5 DEF RInv, LostHaveRaced
  <2>6. LostHaveRaced(k)'
    <3>1. Marked(k)' \ successMask'[k] \subseteq raced[k]
      BY <2>3, <2>4 DEF RInv, LostHaveRaced
    <3>2. ASSUME NEW c \in InOr(k)' PROVE Marked(k)' \ seen[k][c] \subseteq raced[k]
      <4>1. c \in InOr(k) /\ c # b BY <2>3, <3>2
      <4>2. b \in raced[k] BY <4>1, <2>3 DEF RInv, LostHaveRaced
      <4> QED BY <4>1, <4>2, <2>3 DEF RInv, LostHaveRaced
    <3>3. ASSUME NEW c \in InOr(k)', NEW d \in InOr(k)', c # d PROVE c \in raced[k]
      BY <2>3, <3>3 DEF RInv, LostHaveRaced
    <3> QED BY <2>1, <3>1, <3>2, <3>3 DEF LostHaveRaced
  <2> QED BY <2>1, <2>5, <2>6 DEF RInv
<1> QED BY <1>2, <1>3, <1>4, <1>5, <1>6 DEF Submit

LEMMA RAlways == Spec => []RInv
<1>1. CInv /\ BInv /\ RInv /\ [Next]_vars => RInv'
  <2> SUFFICES ASSUME CInv, BInv, RInv, [Next]_vars PROVE RInv' OBVIOUS
  <2> USE DEF vars, reqVars, subVars, ctrVars, extVars
  <2>1. ASSUME UNCHANGED <<work, seen, successMask, raced>> PROVE RInv' BY <2>1, NoUpdate
  <2>2. ASSUME NEW r \in Requests, Call(r) \/ Cancel(r) PROVE RInv'
    BY <2>1, <2>2 DEF Call, AddRequest, RefuseRequest, Cancel
  <2>3. ASSUME NEW k \in Batches, Prepare(k) \/ SendFree(k) \/ Finish(k) PROVE RInv'
    BY <2>1, <2>3 DEF Prepare, PrepareFound, PrepareError, SendFree, Finish
  <2>4. ASSUME NEW k \in Batches, StartSubmitting(k) PROVE RInv'
    <3>1. /\ phase[k] = "prepare" /\ UNCHANGED <<seen, successMask, raced>>
          /\ work' = [work EXCEPT ![k] =
               [b \in Blobbers |-> IF blobberMap[k][b] > 0 THEN "try" ELSE "none"]]
      BY <2>4 DEF StartSubmitting, Prepared
    <3>2. \A b \in Blobbers : work[k][b] = "none" BY <3>1 DEF CInv, SumsFixed
    <3>3. /\ \A b \in Blobbers : work'[k][b] \in {"try", "none"}
          /\ \A j \in Batches : j # k => work'[j] = work[j]
      BY <3>1 DEF CInv, Types
    <3>4. \A j \in Batches, c \in Blobbers :
            \/ work'[j][c] = work[j][c]
            \/ {work[j][c], work'[j][c]} \intersect {"or", "done"} = {}
      BY <3>2, <3>3
    <3> QED BY <3>1, <3>4, NoUpdate
  <2>5. ASSUME NEW b \in Blobbers, OtherProcess(b) PROVE RInv' BY <2>1, <2>5 DEF OtherProcess
  <2>6. CASE UNCHANGED vars BY <2>1, <2>6
  <2> QED BY <2>2, <2>3, <2>4, <2>5, <2>6, SubmitRaces DEF Next, Process
<1> QED BY <1>1, RInit, CAlways, BAlways, PTL DEF Spec

\* Who is kept is in successMask when the batch ends.
LEMMA FinishKeepsPaid ==
  ASSUME BInv, RInv, NEW k \in Batches, NEW r \in drs[k], NEW j \in Batches,
         SendFree(j) \/ Finish(j), st[r] = "ready", st'[r] \in {"sent", "failed"}
  PROVE  /\ mask[r] \intersect Kept(k) \subseteq mask'[r]
         /\ st'[r] = "failed" => Cardinality(mask[r] \intersect Kept(k)) < DataShards
<1>1. r \in Requests BY DEF BInv, RequestTypes
<1>2. CASE SendFree(j) BY <1>1, <1>2 DEF SendFree
<1>3. CASE Finish(j)
  <2> DEFINE left(q) == mask[q] \intersect successMask[j]
  <2>1. /\ mask' = [q \in Requests |-> IF q \in Ready(j) THEN left(q) ELSE mask[q]]
        /\ st' = [q \in Requests |-> IF q \notin Ready(j) THEN st[q]
                                     ELSE IF DataShards > Cardinality(left(q)) THEN "failed"
                                     ELSE "sent"]
    BY <1>3 DEF Finish
  <2>2. r \in Ready(j) BY <1>1, <2>1
  <2>3. j = k BY <2>2 DEF Ready, BInv, OneBatch
  <2>4. Kept(k) \subseteq successMask[k] BY DEF RInv, LostHaveRaced, Kept, Marked
  <2>5. mask[r] \intersect Kept(k) \subseteq left(r) BY <2>3, <2>4
  <2>6. mask'[r] = left(r) BY <1>1, <2>1, <2>2
  <2>7. st'[r] = "failed" => DataShards > Cardinality(left(r)) BY <1>1, <2>1, <2>2
  <2>8. Cardinality(mask[r] \intersect Kept(k)) <= Cardinality(left(r))
        /\ Cardinality(mask[r] \intersect Kept(k)) \in Int /\ Cardinality(left(r)) \in Int
        /\ DataShards \in Int
    <3>1. IsFiniteSet(Blobbers) /\ Cardinality(Blobbers) \in Nat /\ DataShards \in Int
      BY ReadMarkerConstants, FS_CardinalityType
    <3>2. left(r) \subseteq Blobbers BY <1>1 DEF BInv, RequestTypes
    <3>3. IsFiniteSet(left(r)) BY <3>1, <3>2, FS_Subset
    <3> HIDE DEF left
    <3>4. /\ IsFiniteSet(mask[r] \intersect Kept(k))
          /\ Cardinality(mask[r] \intersect Kept(k)) <= Cardinality(left(r))
      BY <2>5, <3>3, FS_Subset
    <3> QED BY <3>1, <3>3, <3>4, FS_CardinalityType
  <2> HIDE DEF left
  <2> QED BY <2>5, <2>6, <2>7, <2>8
<1> QED BY <1>2, <1>3

\* processReadMarker: a blobber that was paid is lost to a download only when another
\* goroutine updated successMask at the same time.
THEOREM PaidIsNotLost == Spec => PaidIsKept
<1>1. BInv /\ RInv /\ [Next]_vars =>
        [\A k \in Batches : \A r \in drs[k] :
           st[r] = "ready" /\ st'[r] \in {"sent", "failed"} =>
             /\ mask[r] \intersect Kept(k) \subseteq mask'[r]
             /\ st'[r] = "failed" =>
                  Cardinality(mask[r] \intersect Kept(k)) < DataShards]_vars
  <2> SUFFICES ASSUME BInv, RInv, Next, NEW k \in Batches, NEW r \in drs[k],
                      st[r] = "ready", st'[r] \in {"sent", "failed"}
               PROVE  /\ mask[r] \intersect Kept(k) \subseteq mask'[r]
                      /\ st'[r] = "failed" =>
                           Cardinality(mask[r] \intersect Kept(k)) < DataShards
    OBVIOUS
  <2>1. st' # st /\ r \in Requests /\ st \in [Requests -> Places]
    BY DEF BInv, RequestTypes
  <2>2. \E j \in Batches : SendFree(j) \/ Finish(j)
    <3>1. ASSUME NEW q \in Requests, Call(q) \/ Cancel(q) PROVE FALSE
      BY <2>1, <3>1 DEF Call, AddRequest, RefuseRequest, Cancel
    <3>2. ASSUME NEW j \in Batches, Prepare(j) \/ StartSubmitting(j) PROVE FALSE
      BY <2>1, <3>2 DEF Prepare, PrepareFound, PrepareError, StartSubmitting, reqVars
    <3>3. ASSUME NEW j \in Batches, NEW b \in Blobbers, Submit(j, b) PROVE FALSE
      BY <2>1, <3>3 DEF Submit, Attempt, BlobberAccepts, BlobberStale, BlobberRefuses,
           ConnectionClosed, NoResponse, HandleOK, HandleLateOK, HandleStale, HandleError,
           HandleDenied, HandleBusy, ReadSuccess, WriteSuccess, reqVars
    <3>4. ASSUME NEW b \in Blobbers, OtherProcess(b) PROVE FALSE
      BY <2>1, <3>4 DEF OtherProcess, reqVars
    <3> QED BY <3>1, <3>2, <3>3, <3>4 DEF Next, Process
  <2> QED BY <2>2, FinishKeepsPaid
<1> QED BY <1>1, BAlways, RAlways, PTL DEF Spec, PaidIsKept

-----------------------------------------------------------------------------
(* Transactions: the invariants                                             *)

Labels == {"idle", "nonce", "sign", "submit", "verify", "done"}
Statuses == {"ok", "refused"}
Reports == {"auth_error", "error", "success"}

TypeInv ==
  /\ kind \in [Txns -> {"sdk", "zcn", "auth"}] /\ inTurn \in BOOLEAN
  /\ cache \in Int /\ pc \in [Txns -> Labels] /\ nonce \in [Txns -> Int]
  /\ asked \in [Txns -> SUBSET Miners] /\ took \in [Txns -> SUBSET Miners]
  /\ failed \in [Txns -> Nat] /\ failC \in [Txns -> BOOLEAN]
  /\ resultC \in [Txns -> Seq(Statuses)] /\ calls \in [Txns -> Seq(Reports)]
  /\ pool \subseteq Txns /\ expired \subseteq Txns /\ included \subseteq Txns
  /\ chain \in Nat /\ failures \in Nat

\* No miner was asked, or every one of them is asked, failed or took it.
Unsent(t) ==
  asked[t] = {} /\ took[t] = {} /\ failed[t] = 0 /\ ~failC[t] /\ resultC[t] = <<>>
AllAccounted(t) ==
  failed[t] + Cardinality(asked[t]) + Cardinality(took[t]) = Cardinality(Miners)
NoneTook(t) == asked[t] = {} /\ took[t] = {}
\* Every "ok" in the channel has a miner behind it; failC and a refusal come only when the
\* last miner has failed.
Counts(t) ==
  /\ asked[t] \cap took[t] = {}
  /\ Unsent(t) \/ AllAccounted(t)
  /\ failC[t] => NoneTook(t)
  /\ \A n \in 1 .. Len(resultC[t]) :
       IF resultC[t][n] = "ok" THEN took[t] # {} ELSE NoneTook(t)
\* Nothing is sent before it is signed, nothing verified before a miner has answered.
Progress(t) ==
  /\ pc[t] \in {"idle", "nonce", "sign"} => Unsent(t) /\ calls[t] = <<>>
  /\ pc[t] = "verify" => asked[t] # Miners
\* The callback of "zcn" was called at most once, with what the miners said.
Honest(t) ==
  kind[t] = "zcn" =>
    /\ pc[t] = "submit" => calls[t] = <<>>
    /\ Len(calls[t]) \in 0 .. 1
    /\ Len(calls[t]) = 1 => /\ calls[t][1] = "success" => took[t] # {}
                            /\ calls[t][1] = "error" => NoneTook(t)
AnswersInv == \A t \in Txns : Counts(t) /\ Progress(t) /\ Honest(t)

\* A transaction that holds a nonce and has not ended.
Live(t) == pc[t] \in {"sign", "submit", "verify"}
BeforeSubmit == {"idle", "nonce", "sign"}
\* The chain knows only what was submitted, and used up the nonces it has included.
ChainInv ==
  /\ \A t \in Txns : pc[t] \in BeforeSubmit => t \notin pool /\ t \notin expired /\ t \notin included
  /\ \A t \in included : nonce[t] <= chain
\* A sequential wallet has one live transaction, and the cache holds its nonce.
OrderInv == inTurn => \A s, t \in Txns : s < t /\ pc[t] # "idle" => pc[s] = "done"
CacheInv == inTurn => \A t \in Txns : Live(t) => cache = nonce[t]
TurnInv == ChainInv /\ OrderInv /\ CacheInv

\* The transactions that were lost for good.
Lost == {t \in Txns : pc[t] = "done" /\ t \notin included}
\* Nothing keeps the chain from including the live transaction.
OnTrack(t) ==
  /\ nonce[t] = chain + 1 /\ failed[t] = 0 /\ t \notin expired
  /\ pc[t] = "submit" => asked[t] = Miners \/ t \in pool
  /\ pc[t] = "verify" => t \in pool
\* The wallet and the chain agree on the next nonce: the live transaction is on its way, or
\* the next one will get the right nonce.
Even ==
  \/ \E t \in Txns : Live(t) /\ t \notin included /\ OnTrack(t)
  \/ cache \in {Absent, chain} /\ \A t \in Txns : Live(t) => t \in included
\* A fault costs at most two transactions: the one it hits, and the next one when it left
\* the cache wrong, a debt that the next transaction pays by evicting the nonce.
Debt == IF Even THEN 0 ELSE 1
RecoverInv == inTurn => Cardinality(Lost) + Debt <= 2 * failures

-----------------------------------------------------------------------------
(* Transactions: types                                                      *)

LEMMA InitTypes == TxnInit => TypeInv
<1> SUFFICES ASSUME TxnInit PROVE TypeInv
  OBVIOUS
<1>1. PICK k \in [Txns -> DOMAIN Kinds] : kind = [t \in Txns |-> Kinds[k[t]]]
  BY DEF TxnInit
<1>2. \A t \in Txns : Kinds[k[t]] \in {"sdk", "zcn", "auth"}
  BY <1>1 DEF Kinds
<1> QED BY <1>1, <1>2 DEF TxnInit, TypeInv, Labels, Absent

LEMMA CountFailureTypes ==
  ASSUME TypeInv, NEW t \in Txns, NEW c \in BOOLEAN, CountFailure(t, c)
  PROVE  /\ failed' \in [Txns -> Nat] /\ failC' \in [Txns -> BOOLEAN]
         /\ resultC' \in [Txns -> Seq(Statuses)]
  BY DEF TypeInv, CountFailure, Statuses

LEMMA StepTypes ==
  ASSUME TypeInv, NEW t \in Txns, Step(t) PROVE TypeInv'
<1> UNCHANGED <<kind, inTurn>>
  BY DEF Step
<1> USE DEF TypeInv, Labels, network
<1>1. CASE Start(t) BY <1>1 DEF Start, Goto
<1>2. CASE GetNextNonce(t)
  <2>1. cache' \in Int BY <1>2 DEF GetNextNonce
  <2>2. failures' \in Nat BY <1>2 DEF GetNextNonce, FromSharders, Fault
  <2> QED BY <1>2, <2>1, <2>2 DEF GetNextNonce, Goto
<1>3. CASE Sign(t) BY <1>3 DEF Sign, Send, Goto
<1>4. CASE AuthFails(t) BY <1>4 DEF AuthFails, Goto, completeTxn, Fault, Reports
<1>5. CASE SignFails(t)
  <2>1. \A x : completeTxn(t, x) /\ x \in Reports => calls' \in [Txns -> Seq(Reports)]
    BY DEF completeTxn
  <2>2. <<"error", "error">> \in Seq(Reports) BY DEF Reports
  <2>3. calls[t] \o <<"error", "error">> \in Seq(Reports) BY <2>2
  <2>4. calls' \in [Txns -> Seq(Reports)]
    <3>1. CASE completeTxn(t, "error") BY <3>1, <2>1 DEF Reports
    <3>2. CASE calls' = [calls EXCEPT ![t] = @ \o <<"error", "error">>] BY <3>2, <2>3
    <3> QED BY <1>5, <3>1, <3>2 DEF SignFails
  <2>5. cache' \in Int BY <1>5 DEF SignFails, Evict, Absent
  <2>6. pc' \in [Txns -> Labels] BY <1>5 DEF SignFails, Goto, Send
  <2>7. asked' \in [Txns -> SUBSET Miners] BY <1>5 DEF SignFails, Send
  <2>8. failures' \in Nat BY <1>5 DEF SignFails, Fault
  <2>9. UNCHANGED <<nonce, failed, resultC, failC, took, network>> BY <1>5 DEF SignFails
  <2> QED BY <2>4, <2>5, <2>6, <2>7, <2>8, <2>9
<1>6. ASSUME NEW m \in Miners, MinerAnswers(t, m) PROVE TypeInv'
  <2>1. failures' \in Nat
    <3>1. CASE Fault BY <3>1 DEF Fault
    <3> QED BY <1>6, <3>1 DEF MinerAnswers
  <2>2. /\ failed' \in [Txns -> Nat] /\ failC' \in [Txns -> BOOLEAN]
        /\ resultC' \in [Txns -> Seq(Statuses)]
    <3>1. CASE CountFailure(t, TRUE) \/ CountFailure(t, FALSE)
      BY <3>1, CountFailureTypes
    <3>2. CASE resultC' = [resultC EXCEPT ![t] = Append(@, "ok")] /\ UNCHANGED <<failed, failC>>
      BY <3>2 DEF Statuses
    <3> QED BY <1>6, <3>1, <3>2 DEF MinerAnswers
  <2>3. asked' \in [Txns -> SUBSET Miners] BY <1>6 DEF MinerAnswers
  <2>4. took' \in [Txns -> SUBSET Miners]
    <3>1. CASE took' = [took EXCEPT ![t] = @ \cup {m}] BY <3>1
    <3> QED BY <1>6, <3>1 DEF MinerAnswers
  <2>5. pool' \subseteq Txns BY <1>6 DEF MinerAnswers, MinerTakes
  <2>6. UNCHANGED <<cache, pc, nonce, calls, expired, included, chain>> BY <1>6 DEF MinerAnswers
  <2> QED BY <2>1, <2>2, <2>3, <2>4, <2>5, <2>6
<1>7. CASE Sent(t) BY <1>7 DEF Sent, Goto
<1>8. CASE Submitted(t)
  <2>1. \A x \in Reports : completeTxn(t, x) => calls' \in [Txns -> Seq(Reports)]
    BY DEF completeTxn
  <2>2. calls' \in [Txns -> Seq(Reports)] BY <1>8, <2>1 DEF Submitted, Reports
  <2>3. resultC[t] # <<>> => Tail(resultC[t]) \in Seq(Statuses) OBVIOUS
  <2>4. resultC' \in [Txns -> Seq(Statuses)] BY <1>8, <2>3 DEF Submitted
  <2>5. cache' \in Int BY <1>8 DEF Submitted, Evict, Absent
  <2>6. pc' \in [Txns -> Labels] BY <1>8 DEF Submitted, Goto
  <2>7. UNCHANGED <<nonce, asked, failed, failC, took, network, failures>> BY <1>8 DEF Submitted
  <2> QED BY <2>2, <2>4, <2>5, <2>6, <2>7
<1>9. CASE Confirmed(t) BY <1>9 DEF Confirmed, Goto, Fault, Evict, Absent
<1>10. CASE Unconfirmed(t) BY <1>10 DEF Unconfirmed, Goto, Fault, Evict, Absent
<1>11. CASE Include(t) BY <1>11 DEF Include, client
<1>12. CASE Expire(t) BY <1>12 DEF Expire, client
<1> QED BY <1>1, <1>2, <1>3, <1>4, <1>5, <1>6, <1>7, <1>8, <1>9, <1>10, <1>11, <1>12 DEF Step

-----------------------------------------------------------------------------
(* Transactions: what the miners said                                       *)

\* A step of one transaction leaves the answers to the others alone.
LEMMA OthersKeep ==
  ASSUME TypeInv, NEW t \in Txns, Step(t), NEW s \in Txns \ {t}
  PROVE  /\ pc'[s] = pc[s] /\ nonce'[s] = nonce[s] /\ asked'[s] = asked[s]
         /\ failed'[s] = failed[s] /\ resultC'[s] = resultC[s] /\ failC'[s] = failC[s]
         /\ calls'[s] = calls[s] /\ took'[s] = took[s]
<1> USE DEF TypeInv, Goto, completeTxn, Send
<1>1. CASE Start(t) BY <1>1 DEF Start
<1>2. CASE GetNextNonce(t) BY <1>2 DEF GetNextNonce
<1>3. CASE Sign(t) BY <1>3 DEF Sign
<1>4. CASE AuthFails(t) BY <1>4 DEF AuthFails
<1>5. CASE SignFails(t)
  <2>1. UNCHANGED <<nonce, failed, resultC, failC, took>> BY <1>5 DEF SignFails
  <2>2. pc'[s] = pc[s] /\ asked'[s] = asked[s] BY <1>5 DEF SignFails
  <2>3. calls'[s] = calls[s] BY <1>5 DEF SignFails
  <2> QED BY <2>1, <2>2, <2>3
<1>6. ASSUME NEW m \in Miners, MinerAnswers(t, m)
      PROVE  /\ pc'[s] = pc[s] /\ nonce'[s] = nonce[s] /\ asked'[s] = asked[s]
             /\ failed'[s] = failed[s] /\ resultC'[s] = resultC[s] /\ failC'[s] = failC[s]
             /\ calls'[s] = calls[s] /\ took'[s] = took[s]
  <2>1. UNCHANGED <<pc, nonce, calls>> /\ asked'[s] = asked[s] BY <1>6 DEF MinerAnswers
  <2>2. took'[s] = took[s] BY <1>6 DEF MinerAnswers
  <2>3. failed'[s] = failed[s] /\ resultC'[s] = resultC[s] /\ failC'[s] = failC[s]
    <3>1. CASE CountFailure(t, TRUE) BY <3>1 DEF CountFailure
    <3>2. CASE CountFailure(t, FALSE) BY <3>2 DEF CountFailure
    <3> QED BY <1>6, <3>1, <3>2 DEF MinerAnswers
  <2> QED BY <2>1, <2>2, <2>3
<1>7. CASE Sent(t) BY <1>7 DEF Sent
<1>8. CASE Submitted(t)
  <2>1. UNCHANGED <<nonce, asked, failed, failC, took>> BY <1>8 DEF Submitted
  <2>2. pc'[s] = pc[s] BY <1>8 DEF Submitted
  <2>3. calls'[s] = calls[s] BY <1>8 DEF Submitted
  <2>4. resultC'[s] = resultC[s] BY <1>8 DEF Submitted
  <2> QED BY <2>1, <2>2, <2>3, <2>4
<1>9. CASE Confirmed(t) BY <1>9 DEF Confirmed
<1>10. CASE Unconfirmed(t) BY <1>10 DEF Unconfirmed
<1>11. CASE Include(t) BY <1>11 DEF Include, client
<1>12. CASE Expire(t) BY <1>12 DEF Expire, client
<1> QED BY <1>1, <1>2, <1>3, <1>4, <1>5, <1>6, <1>7, <1>8, <1>9, <1>10, <1>11, <1>12 DEF Step

LEMMA MinerSets ==
  ASSUME TypeInv, NEW t \in Txns
  PROVE  /\ IsFiniteSet(asked[t]) /\ IsFiniteSet(took[t])
         /\ Cardinality(asked[t]) \in Nat /\ Cardinality(took[t]) \in Nat
         /\ Cardinality(Miners) \in Nat
         /\ Cardinality(asked[t]) = 0 <=> asked[t] = {}
         /\ Cardinality(took[t]) = 0 <=> took[t] = {}
<1>1. asked[t] \in SUBSET Miners /\ took[t] \in SUBSET Miners BY DEF TypeInv
<1>2. IsFiniteSet(Miners) BY TxnConstants
<1>3. IsFiniteSet(asked[t]) /\ IsFiniteSet(took[t]) BY <1>1, <1>2, FS_Subset
<1> QED BY <1>2, <1>3, FS_CardinalityType, FS_EmptySet

\* An answer is counted once: as a failure or among those that took the transaction.
LEMMA AnswerCounts ==
  ASSUME TypeInv, AnswersInv, NEW t \in Txns, NEW m \in Miners, MinerAnswers(t, m)
  PROVE  Counts(t)'
<1>a. m \in asked[t] /\ asked'[t] = asked[t] \ {m}
  BY DEF MinerAnswers, TypeInv
<1>b. ~NoneTook(t) /\ ~Unsent(t) BY <1>a DEF NoneTook, Unsent
<1>c. AllAccounted(t) /\ ~failC[t] /\ (asked[t] \cap took[t] = {})
  BY <1>b DEF AnswersInv, Counts
<1>d. /\ Cardinality(asked[t]) \in Nat /\ Cardinality(took[t]) \in Nat /\ Cardinality(Miners) \in Nat
      /\ IsFiniteSet(asked[t]) /\ IsFiniteSet(took[t])
  BY MinerSets
<1>e. Cardinality(asked'[t]) = Cardinality(asked[t]) - 1
  BY <1>a, <1>d, FS_RemoveElement
<1>f. /\ failed[t] \in Nat /\ failC[t] \in BOOLEAN /\ resultC[t] \in Seq(Statuses)
      /\ took[t] \in SUBSET Miners
  BY DEF TypeInv
<1>g. \A n \in 1 .. Len(resultC[t]) : resultC[t][n] = "ok" /\ took[t] # {}
  BY <1>b DEF AnswersInv, Counts
<1>1. CASE /\ took' = [took EXCEPT ![t] = @ \cup {m}]
           /\ resultC' = [resultC EXCEPT ![t] = Append(@, "ok")]
           /\ UNCHANGED <<failed, failC>>
  <2>1. took'[t] = took[t] \cup {m} /\ resultC'[t] = Append(resultC[t], "ok")
    BY <1>1 DEF TypeInv
  <2>2. Cardinality(took'[t]) = Cardinality(took[t]) + 1
    BY <2>1, <1>a, <1>c, <1>d, FS_AddElement
  <2>3. AllAccounted(t)'
    <3>1. failed'[t] = failed[t] BY <1>1
    <3> QED BY <3>1, <1>c, <1>d, <1>e, <1>f, <2>2 DEF AllAccounted
  <2>4. asked'[t] \cap took'[t] = {} BY <2>1, <1>a, <1>c
  <2>5. ~failC'[t] BY <1>1, <1>c
  <2>6. \A n \in 1 .. Len(resultC'[t]) : resultC'[t][n] = "ok" BY <2>1, <1>f, <1>g
  <2>7. took'[t] # {} BY <2>1
  <2> QED BY <2>3, <2>4, <2>5, <2>6, <2>7 DEF Counts
<1>2. ASSUME NEW c \in BOOLEAN, CountFailure(t, c), UNCHANGED took PROVE Counts(t)'
  <2> DEFINE last == failed[t] + 1 = Cardinality(Miners)
  <2>1. /\ failed'[t] = failed[t] + 1
        /\ failC'[t] = (failC[t] \/ (last /\ c))
        /\ resultC'[t] = IF last /\ ~c THEN Append(resultC[t], "refused") ELSE resultC[t]
    BY <1>2 DEF CountFailure, TypeInv
  <2>2. AllAccounted(t)' BY <1>2, <2>1, <1>c, <1>d, <1>e, <1>f DEF AllAccounted
  <2>3. last => NoneTook(t)'
    <3> SUFFICES ASSUME last PROVE NoneTook(t)'
      OBVIOUS
    <3>1. Cardinality(asked[t]) + Cardinality(took[t]) = 1
      BY <1>c, <1>d, <1>f DEF AllAccounted
    <3>2. Cardinality(asked[t]) # 0 BY MinerSets, <1>a
    <3>3. Cardinality(took[t]) = 0 /\ Cardinality(asked[t]) = 1 BY <3>1, <3>2, <1>d
    <3>4. took[t] = {} BY <3>3, MinerSets
    <3>5. IsFiniteSet(asked'[t]) /\ Cardinality(asked'[t]) = 0
      BY <3>3, <1>a, <1>d, <1>e, FS_Subset
    <3>6. asked'[t] = {} BY <3>5, FS_EmptySet
    <3> QED BY <3>4, <3>6, <1>2 DEF NoneTook
  <2>4. asked'[t] \cap took'[t] = {} BY <1>2, <1>a, <1>c
  <2>5. failC'[t] => NoneTook(t)' BY <2>1, <2>3, <1>c
  <2>6. \A n \in 1 .. Len(resultC'[t]) :
          IF resultC'[t][n] = "ok" THEN took'[t] # {} ELSE NoneTook(t)'
    <3>1. CASE last /\ ~c
      <4>1. resultC'[t] = Append(resultC[t], "refused") BY <2>1, <3>1
      <4>2. Len(resultC[t]) = 0
        <5>1. took[t] = {} BY <2>3, <3>1, <1>2 DEF NoneTook
        <5>2. ASSUME Len(resultC[t]) # 0 PROVE FALSE
          BY <5>1, <5>2, <1>f, <1>g
        <5> QED BY <5>2
      <4>3. \A n \in 1 .. Len(resultC'[t]) : resultC'[t][n] = "refused"
        BY <4>1, <4>2, <1>f
      <4> QED BY <4>3, <2>3, <3>1
    <3>2. CASE ~(last /\ ~c) BY <3>2, <2>1, <1>g, <1>2
    <3> QED BY <3>1, <3>2
  <2> QED BY <2>2, <2>4, <2>5, <2>6 DEF Counts
<1> QED BY <1>1, <1>2 DEF MinerAnswers

\* The requests of a transaction that was not sent are sent to all miners.
LEMMA SendCounts ==
  ASSUME TypeInv, NEW t \in Txns, Unsent(t), asked'[t] = Miners,
         UNCHANGED <<failed, resultC, failC, took>>
  PROVE  Counts(t)'
<1>1. /\ took'[t] = {} /\ failed'[t] = 0 /\ ~failC'[t] /\ resultC'[t] = <<>>
  BY DEF Unsent
<1>2. Cardinality(took'[t]) = 0 /\ Cardinality(Miners) \in Nat
  BY <1>1, TxnConstants, FS_EmptySet, FS_CardinalityType
<1>3. AllAccounted(t)' BY <1>1, <1>2 DEF AllAccounted
<1> QED BY <1>1, <1>3 DEF Counts

\* The select reads one answer.
LEMMA SubmittedReads ==
  ASSUME TypeInv, AnswersInv, NEW t \in Txns, Submitted(t), UNCHANGED kind
  PROVE  /\ Counts(t)' /\ pc'[t] \in {"verify", "done"}
         /\ pc'[t] = "verify" => asked'[t] # Miners
         /\ Honest(t)'
<1> USE DEF TypeInv
<1>1. UNCHANGED <<asked, failed, failC, took>>
  BY DEF Submitted
<1>2. resultC[t] \in Seq(Statuses) /\ calls[t] \in Seq(Reports) OBVIOUS
<1>3. pc'[t] \in {"verify", "done"} BY DEF Submitted, Goto
<1>4. ASSUME resultC[t] # <<>>, resultC'[t] = Tail(resultC[t])
      PROVE  \A n \in 1 .. Len(resultC'[t]) : n + 1 \in 1 .. Len(resultC[t])
                                                /\ resultC'[t][n] = resultC[t][n + 1]
  BY <1>2, <1>4
<1>5. \A n \in 1 .. Len(resultC'[t]) :
        IF resultC'[t][n] = "ok" THEN took'[t] # {} ELSE NoneTook(t)'
  <2>1. CASE UNCHANGED resultC BY <2>1, <1>1 DEF AnswersInv, Counts, NoneTook
  <2>2. CASE resultC[t] # <<>> /\ resultC' = [resultC EXCEPT ![t] = Tail(@)]
    <3>1. resultC'[t] = Tail(resultC[t]) BY <2>2
    <3> QED BY <2>2, <3>1, <1>1, <1>4 DEF AnswersInv, Counts, NoneTook
  <2> QED BY <2>1, <2>2 DEF Submitted
<1>6. (Unsent(t) \/ AllAccounted(t))'
  <2>1. CASE AllAccounted(t) BY <2>1, <1>1 DEF AllAccounted
  <2>2. CASE Unsent(t)
    <3>1. FALSE BY <2>2 DEF Unsent, Submitted
    <3> QED BY <3>1
  <2> QED BY <2>1, <2>2 DEF AnswersInv, Counts
<1>7. Counts(t)' BY <1>1, <1>5, <1>6 DEF AnswersInv, Counts, NoneTook
<1>8. ASSUME resultC[t] # <<>> PROVE 1 \in 1 .. Len(resultC[t]) /\ Head(resultC[t]) = resultC[t][1]
  BY <1>2, <1>8
<1>9. pc'[t] = "verify" => asked'[t] # Miners
  <2>1. CASE resultC[t] # <<>> /\ Head(resultC[t]) = "ok"
    <3>1. took[t] # {} BY <2>1, <1>8 DEF AnswersInv, Counts
    <3>2. asked[t] \cap took[t] = {} /\ took[t] \subseteq Miners BY DEF AnswersInv, Counts
    <3> QED BY <3>1, <3>2, <1>1
  <2>2. CASE ~(resultC[t] # <<>> /\ Head(resultC[t]) = "ok")
    BY <2>2 DEF Submitted, Goto
  <2> QED BY <2>1, <2>2
<1>10. ASSUME kind[t] = "zcn"
       PROVE  /\ Len(calls'[t]) = 1
              /\ calls'[t][1] = "success" => took'[t] # {}
              /\ calls'[t][1] = "error" => NoneTook(t)'
  <2>1. calls[t] = <<>> BY <1>10 DEF AnswersInv, Honest, Submitted
  <2>2. \A x : completeTxn(t, x) => calls'[t] = <<x>> BY <2>1 DEF completeTxn
  <2>3. ASSUME NoneTook(t), completeTxn(t, "error") PROVE Len(calls'[t]) = 1 /\ NoneTook(t)' /\ calls'[t][1] = "error"
    <3>1. calls'[t] = <<"error">> BY <2>2, <2>3
    <3> QED BY <3>1, <2>3, <1>1 DEF NoneTook
  <2>4. ASSUME took[t] # {}, completeTxn(t, "success") PROVE Len(calls'[t]) = 1 /\ took'[t] # {} /\ calls'[t][1] = "success"
    <3>1. calls'[t] = <<"success">> BY <2>2, <2>4
    <3> QED BY <3>1, <2>4, <1>1
  <2>5. failC[t] => NoneTook(t) BY DEF AnswersInv, Counts
  <2>6. resultC[t] # <<>> => IF Head(resultC[t]) = "ok" THEN took[t] # {} ELSE NoneTook(t)
    BY <1>8 DEF AnswersInv, Counts
  <2>7. \/ NoneTook(t) /\ completeTxn(t, "error")
        \/ took[t] # {} /\ completeTxn(t, "success")
    BY <2>5, <2>6 DEF Submitted
  <2> QED BY <2>3, <2>4, <2>7
<1>11. pc'[t] # "submit" BY <1>3
<1>12. Honest(t)' BY <1>10, <1>11 DEF Honest
<1> QED BY <1>3, <1>7, <1>9, <1>12

LEMMA StepAnswers ==
  ASSUME TypeInv, AnswersInv, NEW t \in Txns, Step(t) PROVE AnswersInv'
<1> UNCHANGED <<kind, inTurn>>
  BY DEF Step
<1>1. ASSUME NEW s \in Txns \ {t} PROVE (Counts(s) /\ Progress(s) /\ Honest(s))'
  <2>1. Counts(s) /\ Progress(s) /\ Honest(s) BY DEF AnswersInv
  <2> QED BY <2>1, OthersKeep
       DEF Counts, Progress, Honest, Unsent, AllAccounted, NoneTook
<1>2. Counts(t) /\ Progress(t) /\ Honest(t) BY DEF AnswersInv
<1> DEFINE Goal == (Counts(t) /\ Progress(t) /\ Honest(t))'
<1>3. ASSUME UNCHANGED <<asked, failed, resultC, failC, took>>
      PROVE  Counts(t)' /\ (Unsent(t) => Unsent(t)') /\ (NoneTook(t) => NoneTook(t)')
  BY <1>2, <1>3 DEF Counts, Unsent, AllAccounted, NoneTook
<1>4. ASSUME UNCHANGED <<asked, failed, resultC, failC, calls, took>>,
             \/ pc[t] \in {"idle", "nonce", "sign"} /\ pc'[t] \in {"nonce", "sign", "done"}
             \/ pc'[t] = "verify" /\ asked[t] # Miners
             \/ pc'[t] = "done"
      PROVE  Goal
  <2>1. Counts(t)' /\ (Unsent(t) => Unsent(t)') /\ (NoneTook(t) => NoneTook(t)') BY <1>3, <1>4
  <2>2. Progress(t)' BY <1>2, <1>4, <2>1 DEF Progress
  <2>3. Honest(t)' BY <1>2, <1>4, <2>1 DEF Honest
  <2> QED BY <2>1, <2>2, <2>3
<1> USE DEF TypeInv
<1>5. ASSUME pc[t] = "sign", Send(t), UNCHANGED <<failed, resultC, failC, took>>,
             kind[t] = "zcn" => UNCHANGED calls
      PROVE  Goal
  <2>1. pc'[t] = "submit" /\ asked'[t] = Miners BY <1>5 DEF Send, Goto
  <2>2. Unsent(t) /\ calls[t] = <<>> BY <1>5, <1>2 DEF Progress
  <2>3. Counts(t)' BY <1>5, <2>1, <2>2, SendCounts
  <2>4. Honest(t)' BY <2>1, <2>2, <1>5 DEF Honest
  <2> QED BY <2>1, <2>3, <2>4 DEF Progress
<1>6. ASSUME pc[t] = "sign", Goto(t, "done"), UNCHANGED <<asked, failed, resultC, failC, took>>,
             kind[t] = "zcn" => completeTxn(t, "error")
      PROVE  Goal
  <2>1. pc'[t] = "done" BY <1>6 DEF Goto
  <2>2. Unsent(t) /\ calls[t] = <<>> BY <1>6, <1>2 DEF Progress
  <2>3. Counts(t)' BY <1>6, <1>3
  <2>4. NoneTook(t)' BY <2>2, <1>6 DEF Unsent, NoneTook
  <2>5. kind[t] = "zcn" => calls'[t] = <<"error">> BY <2>2, <1>6 DEF completeTxn
  <2>6. ASSUME kind[t] = "zcn" PROVE Len(calls'[t]) = 1 /\ calls'[t][1] = "error"
    <3>1. calls'[t] = <<"error">> BY <2>5, <2>6
    <3> QED BY <3>1
  <2>7. Honest(t)' BY <2>1, <2>4, <2>6 DEF Honest
  <2> QED BY <2>1, <2>3, <2>7 DEF Progress
<1>11. ASSUME Start(t) PROVE Goal BY <1>11, <1>4 DEF Start, Goto
<1>12. ASSUME GetNextNonce(t) PROVE Goal BY <1>12, <1>4 DEF GetNextNonce, Goto
<1>13. ASSUME Sign(t) PROVE Goal BY <1>13, <1>5 DEF Sign
<1>14. ASSUME AuthFails(t) PROVE Goal BY <1>14, <1>6 DEF AuthFails
<1>15. ASSUME SignFails(t) PROVE Goal BY <1>15, <1>5, <1>6 DEF SignFails
<1>16. ASSUME NEW m \in Miners, MinerAnswers(t, m) PROVE Goal
  <2>1. Counts(t)' BY <1>16, AnswerCounts
  <2>2. m \in asked[t] /\ asked'[t] = asked[t] \ {m} /\ UNCHANGED <<pc, calls>>
    BY <1>16 DEF MinerAnswers
  <2>3. pc[t] \notin {"idle", "nonce", "sign"} BY <1>2, <2>2 DEF Progress, Unsent
  <2>4. Progress(t)' BY <2>2, <2>3 DEF Progress
  <2>5. ~NoneTook(t) BY <2>2 DEF NoneTook
  <2>6. took[t] # {} => took'[t] # {} BY <1>16 DEF MinerAnswers
  <2>7. Honest(t)' BY <1>2, <2>2, <2>5, <2>6 DEF Honest
  <2> QED BY <2>1, <2>4, <2>7
<1>17. ASSUME Sent(t) PROVE Goal
  <2>1. asked[t] # Miners BY <1>17, TxnConstants DEF Sent
  <2> QED BY <1>17, <2>1, <1>4 DEF Sent, Goto
<1>18. ASSUME Submitted(t) PROVE Goal BY <1>18, SubmittedReads DEF Progress
<1>19. ASSUME Confirmed(t) PROVE Goal BY <1>19, <1>4 DEF Confirmed, Goto
<1>20. ASSUME Unconfirmed(t) PROVE Goal BY <1>20, <1>4 DEF Unconfirmed, Goto
<1>21. ASSUME UNCHANGED client PROVE Goal
  BY <1>2, <1>3, <1>21 DEF client, Progress, Honest
<1>22. ASSUME Include(t) PROVE Goal BY <1>22, <1>21 DEF Include
<1>23. ASSUME Expire(t) PROVE Goal BY <1>23, <1>21 DEF Expire
<1>24. Goal
  BY <1>11, <1>12, <1>13, <1>14, <1>15, <1>16, <1>17, <1>18, <1>19, <1>20, <1>22, <1>23 DEF Step
<1> QED BY <1>1, <1>24 DEF AnswersInv

LEMMA StutterAnswers ==
  ASSUME TypeInv, AnswersInv, UNCHANGED txnVars PROVE TypeInv' /\ AnswersInv'
<1>1. TypeInv' BY DEF txnVars, client, network, TypeInv
<1>2. AnswersInv'
  BY DEF txnVars, client, AnswersInv, Counts, Progress, Honest, Unsent, AllAccounted, NoneTook
<1> QED BY <1>1, <1>2

LEMMA AnswersAlways == TxnSpec => [](TypeInv /\ AnswersInv)
<1>1. TxnInit => TypeInv /\ AnswersInv
  <2> SUFFICES ASSUME TxnInit PROVE TypeInv /\ AnswersInv
    OBVIOUS
  <2>1. TypeInv BY InitTypes
  <2> QED BY <2>1 DEF TxnInit, AnswersInv, Counts, Progress, Honest, Unsent, NoneTook
<1>2. TypeInv /\ AnswersInv /\ [TxnNext]_txnVars => (TypeInv /\ AnswersInv)'
  BY StepTypes, StepAnswers, StutterAnswers DEF TxnNext
<1> QED BY <1>1, <1>2, PTL DEF TxnSpec

\* submitTxn reports a failure only when every miner failed and a success only when one
\* answered 200, for any number of transactions, miners and failures.
THEOREM ReportsAreHonest == TxnSpec => []ReportsWhatMinersSaid
<1>1. TypeInv /\ AnswersInv => ReportsWhatMinersSaid
  <2> SUFFICES ASSUME TypeInv, AnswersInv, NEW t \in Txns, kind[t] = "zcn", calls[t] # <<>>
               PROVE  /\ Last(calls[t]) = "success" => took[t] # {}
                      /\ Last(calls[t]) = "error" => took[t] = {}
    BY DEF ReportsWhatMinersSaid
  <2>1. calls[t] \in Seq(Reports) BY DEF TypeInv
  <2>2. Honest(t) BY DEF AnswersInv
  <2>a. Len(calls[t]) \in Nat /\ Len(calls[t]) # 0 BY <2>1
  <2>b. Len(calls[t]) \in 0 .. 1 BY <2>2 DEF Honest
  <2>3. Len(calls[t]) = 1 BY <2>a, <2>b
  <2>4. Last(calls[t]) = calls[t][1] BY <2>3 DEF Last
  <2> QED BY <2>2, <2>3, <2>4 DEF Honest, NoneTook
<1> QED BY <1>1, AnswersAlways, PTL

-----------------------------------------------------------------------------
(* Transactions: the wallet recovers                                        *)

Successors(l) ==
  CASE l = "idle" -> {"nonce"} [] l = "nonce" -> {"sign"} [] l = "sign" -> {"submit", "done"}
    [] l = "submit" -> {"verify", "done"} [] l = "verify" -> {"done"} [] OTHER -> {}

\* The course of a transaction; it has its nonce for good once it asked for it.
LEMMA Course ==
  ASSUME TypeInv, NEW t \in Txns, Step(t)
  PROVE  /\ pc'[t] = pc[t] \/ pc'[t] \in Successors(pc[t])
         /\ pc[t] = "idle" /\ inTurn /\ t > 1 => pc'[t] = "idle" \/ pc[t-1] = "done"
         /\ pc[t] # "nonce" => UNCHANGED nonce
<1> USE DEF TypeInv, Labels, Goto, Successors
<1>1. CASE Start(t) BY <1>1 DEF Start
<1>2. CASE GetNextNonce(t) BY <1>2 DEF GetNextNonce
<1>3. CASE Sign(t) BY <1>3 DEF Sign, Send
<1>4. CASE AuthFails(t) BY <1>4 DEF AuthFails
<1>5. CASE SignFails(t) BY <1>5 DEF SignFails, Send
<1>6. CASE \E m \in Miners : MinerAnswers(t, m) BY <1>6 DEF MinerAnswers
<1>7. CASE Sent(t) BY <1>7 DEF Sent
<1>8. CASE Submitted(t) BY <1>8 DEF Submitted
<1>9. CASE Confirmed(t) BY <1>9 DEF Confirmed
<1>10. CASE Unconfirmed(t) BY <1>10 DEF Unconfirmed
<1>11. CASE Include(t) BY <1>11 DEF Include, client
<1>12. CASE Expire(t) BY <1>12 DEF Expire, client
<1> QED BY <1>1, <1>2, <1>3, <1>4, <1>5, <1>6, <1>7, <1>8, <1>9, <1>10, <1>11, <1>12 DEF Step

\* One transaction at a time is under way.
LEMMA StepOrder ==
  ASSUME TypeInv, OrderInv, NEW t \in Txns, Step(t) PROVE OrderInv'
<1> UNCHANGED inTurn
  BY DEF Step
<1> SUFFICES ASSUME inTurn, NEW s \in Txns, NEW u \in Txns, s < u, pc'[u] # "idle"
             PROVE  pc'[s] = "done"
  BY DEF OrderInv
<1>0. t \in Nat /\ s \in Nat /\ u \in Nat /\ s >= 1 BY DEF Txns
<1>1. \A r \in Txns : r # t => pc'[r] = pc[r] BY OthersKeep
<1>2. CASE u # t
  <2>1. pc[s] = "done" BY <1>1, <1>2 DEF OrderInv
  <2>2. s = t => pc'[s] = pc[s] BY <2>1, Course DEF Successors
  <2> QED BY <2>1, <2>2, <1>1
<1>3. CASE u = t /\ pc[u] # "idle" BY <1>1, <1>3, <1>0 DEF OrderInv
<1>4. CASE u = t /\ pc[u] = "idle"
  <2>1. t - 1 \in Txns /\ t > 1 BY <1>0, <1>4, TxnConstants DEF Txns
  <2>2. pc[t-1] = "done" BY <2>1, <1>4, Course
  <2>3. CASE s = t - 1 BY <2>2, <2>3, <1>0, <1>1
  <2>4. CASE s < t - 1
    <3>1. pc[s] = "done" BY <2>1, <2>2, <2>4 DEF OrderInv
    <3> QED BY <3>1, <1>0, <1>1, <1>4
  <2> QED BY <2>3, <2>4, <1>0, <1>4
<1> QED BY <1>2, <1>3, <1>4

LEMMA OneAtATime ==
  ASSUME TypeInv, OrderInv, inTurn, NEW t \in Txns, pc[t] \notin {"idle", "done"},
         NEW s \in Txns \ {t}
  PROVE  pc[s] \in {"idle", "done"}
  BY DEF OrderInv, Txns

LEMMA StepChain ==
  ASSUME TypeInv, AnswersInv, ChainInv, NEW t \in Txns, Step(t) PROVE ChainInv'
<1> USE DEF TypeInv
<1>1. \A s \in Txns : s # t => pc'[s] = pc[s] /\ nonce'[s] = nonce[s] BY OthersKeep
<1>2. pc'[t] \in BeforeSubmit => pc[t] \in BeforeSubmit BY Course DEF BeforeSubmit, Successors
<1>3. t \in included => nonce'[t] = nonce[t]
  <2>1. t \in included => pc[t] \notin BeforeSubmit BY DEF ChainInv
  <2> QED BY <2>1, Course DEF BeforeSubmit
<1>4. ASSUME UNCHANGED network PROVE ChainInv'
  BY <1>1, <1>2, <1>3, <1>4 DEF ChainInv, network
<1>5. ASSUME NEW m \in Miners, MinerAnswers(t, m) PROVE ChainInv'
  <2>1. UNCHANGED <<pc, expired, included, chain, nonce>> /\ m \in asked[t] BY <1>5 DEF MinerAnswers
  <2>2. pc[t] \notin BeforeSubmit BY <2>1 DEF AnswersInv, Progress, Unsent, BeforeSubmit
  <2>3. pool' \subseteq pool \cup {t} BY <1>5 DEF MinerAnswers, MinerTakes
  <2> QED BY <2>1, <2>2, <2>3 DEF ChainInv
<1>6. CASE Include(t)
  <2>1. t \in pool /\ nonce[t] = chain + 1 BY <1>6 DEF Include
  <2>2. pc[t] \notin BeforeSubmit BY <2>1 DEF ChainInv
  <2>3. /\ chain' = chain + 1 /\ included' = included \cup {t} /\ pool' = pool \ {t}
        /\ UNCHANGED <<expired, pc, nonce>>
    BY <1>6 DEF Include, client
  <2>4. \A s \in included' : nonce[s] <= chain + 1 BY <2>1, <2>3 DEF ChainInv
  <2> QED BY <2>2, <2>3, <2>4 DEF ChainInv
<1>7. CASE Expire(t)
  BY <1>7 DEF Expire, client, ChainInv, BeforeSubmit
<1> QED
  BY <1>4, <1>5, <1>6, <1>7
     DEF Step, Start, GetNextNonce, Sign, AuthFails, SignFails, Sent, Submitted, Confirmed, Unconfirmed

LEMMA StepCache ==
  ASSUME TypeInv, AnswersInv, TurnInv, NEW t \in Txns, Step(t) PROVE CacheInv'
<1> USE DEF TypeInv
<1> UNCHANGED inTurn
  BY DEF Step
<1> SUFFICES ASSUME inTurn PROVE \A s \in Txns : Live(s)' => cache' = nonce'[s]
  BY DEF CacheInv
<1>1. \A s \in Txns : s # t => pc'[s] = pc[s] /\ nonce'[s] = nonce[s] BY OthersKeep
<1>2. ASSUME pc[t] \notin {"idle", "done"}, Live(t)' => cache' = nonce'[t]
      PROVE  \A s \in Txns : Live(s)' => cache' = nonce'[s]
  <2>1. \A s \in Txns \ {t} : ~Live(s) BY <1>2, OneAtATime DEF TurnInv, Live
  <2> QED BY <1>1, <1>2, <2>1 DEF Live
<1>3. ASSUME UNCHANGED cache, Live(t)' => Live(t) /\ nonce'[t] = nonce[t]
      PROVE  \A s \in Txns : Live(s)' => cache' = nonce'[s]
  <2>1. ASSUME NEW s \in Txns, Live(s)' PROVE cache' = nonce'[s]
    <3>1. CASE s = t BY <1>3, <2>1, <3>1 DEF TurnInv, CacheInv
    <3>2. CASE s # t
      <4>1. Live(s) BY <1>1, <2>1, <3>2 DEF Live
      <4> QED BY <1>1, <1>3, <3>2, <4>1 DEF TurnInv, CacheInv
    <3> QED BY <3>1, <3>2
  <2> QED BY <2>1
<1>10. CASE GetNextNonce(t)
  <2>1. pc[t] = "nonce" /\ nonce'[t] = cache' BY <1>10 DEF GetNextNonce
  <2> QED BY <2>1, <1>2
<1>11. CASE Start(t)
  <2>1. pc'[t] = "nonce" /\ UNCHANGED cache BY <1>11 DEF Start, Goto
  <2> QED BY <2>1, <1>3 DEF Live
<1>12. ASSUME pc[t] # "nonce", pc'[t] \in {pc[t], "submit", "verify"}, UNCHANGED cache,
              pc'[t] # pc[t] => Live(t)
       PROVE  \A s \in Txns : Live(s)' => cache' = nonce'[s]
  <2>1. UNCHANGED nonce BY <1>12, Course
  <2> QED BY <2>1, <1>12, <1>3 DEF Live
<1>13. ASSUME pc[t] \notin {"idle", "done"}, Goto(t, "done")
       PROVE  \A s \in Txns : Live(s)' => cache' = nonce'[s]
  <2>1. pc'[t] = "done" BY <1>13 DEF Goto
  <2> QED BY <2>1, <1>2, <1>13 DEF Live
<1>14. CASE Sign(t) BY <1>14, <1>12 DEF Sign, Send, Goto, Live
<1>15. CASE AuthFails(t) BY <1>15, <1>13 DEF AuthFails
<1>16. CASE SignFails(t)
  <2>1. CASE Send(t) /\ UNCHANGED cache
    <3>1. pc[t] = "sign" /\ pc'[t] = "submit" BY <1>16, <2>1 DEF SignFails, Send, Goto
    <3> QED BY <3>1, <2>1, <1>12 DEF Live
  <2>2. CASE Goto(t, "done") BY <1>16, <2>2, <1>13 DEF SignFails
  <2> QED BY <1>16, <2>1, <2>2 DEF SignFails
<1>17. CASE \E m \in Miners : MinerAnswers(t, m)
  <2>1. UNCHANGED <<pc, nonce, cache>> BY <1>17 DEF MinerAnswers
  <2> QED BY <2>1, <1>3 DEF Live
<1>18. CASE Sent(t)
  <2>1. pc[t] = "submit" /\ pc'[t] = "verify" /\ UNCHANGED cache BY <1>18 DEF Sent, Goto
  <2> QED BY <2>1, <1>12 DEF Live
<1>19. CASE Submitted(t)
  <2>1. pc[t] = "submit" BY <1>19 DEF Submitted
  <2>2. CASE Goto(t, "done") BY <2>1, <2>2, <1>13
  <2>3. CASE Goto(t, "verify") /\ UNCHANGED cache
    <3>1. pc'[t] = "verify" BY <2>3 DEF Goto
    <3> QED BY <3>1, <2>1, <2>3, <1>12 DEF Live
  <2> QED BY <1>19, <2>2, <2>3 DEF Submitted
<1>20. CASE Confirmed(t) BY <1>20, <1>13 DEF Confirmed
<1>21. CASE Unconfirmed(t) BY <1>21, <1>13 DEF Unconfirmed
<1>22. CASE Include(t) \/ Expire(t)
  <2>1. UNCHANGED <<pc, nonce, cache>> BY <1>22 DEF Include, Expire, client
  <2> QED BY <2>1, <1>3 DEF Live
<1> QED BY <1>10, <1>11, <1>14, <1>15, <1>16, <1>17, <1>18, <1>19, <1>20, <1>21, <1>22 DEF Step

LEMMA LostFinite ==
  ASSUME TypeInv PROVE IsFiniteSet(Lost) /\ Cardinality(Lost) \in Nat
<1>1. IsFiniteSet(Txns) BY TxnConstants, FS_Interval DEF Txns
<1> QED BY <1>1, FS_Subset, FS_CardinalityType DEF Lost

\* The transaction of a step is the only one that can be lost by it.
LEMMA LostGrows ==
  ASSUME TypeInv, TypeInv', NEW t \in Txns, Step(t), included \subseteq included'
  PROVE  /\ Cardinality(Lost) \in Nat /\ Cardinality(Lost') \in Nat
         /\ Cardinality(Lost') <= Cardinality(Lost) + 1
         /\ (pc'[t] = "done" => pc[t] = "done" \/ t \in included')
              => Cardinality(Lost') <= Cardinality(Lost)
<1>1. Lost' \subseteq Lost \cup {t} BY OthersKeep DEF Lost
<1>2. IsFiniteSet(Lost) /\ Cardinality(Lost) \in Nat BY LostFinite
<1>3. /\ IsFiniteSet(Lost \cup {t}) /\ Cardinality(Lost \cup {t}) <= Cardinality(Lost) + 1
      /\ Cardinality(Lost \cup {t}) \in Nat
  BY <1>2, FS_AddElement, FS_CardinalityType
<1>4. Cardinality(Lost') <= Cardinality(Lost \cup {t}) /\ Cardinality(Lost') \in Nat
  BY <1>1, <1>3, FS_Subset, FS_CardinalityType
<1>5. ASSUME pc'[t] = "done" => pc[t] = "done" \/ t \in included'
      PROVE  Cardinality(Lost') <= Cardinality(Lost)
  <2>1. Lost' \subseteq Lost BY <1>1, <1>5 DEF Lost
  <2> QED BY <2>1, <1>2, FS_Subset
<1> QED BY <1>2, <1>3, <1>4, <1>5

\* A fault pays for the transaction it hits and for a wrong nonce.
LEMMA FaultPays ==
  ASSUME TypeInv, TypeInv', RecoverInv, inTurn, NEW t \in Txns, Step(t), included' = included, Fault
  PROVE  RecoverInv'
<1>1. Cardinality(Lost') <= Cardinality(Lost) + 1 BY LostGrows
<1>2. Cardinality(Lost) \in Nat /\ Cardinality(Lost') \in Nat BY LostGrows
<1>3. failures' = failures + 1 /\ failures \in Nat BY DEF Fault, TypeInv
<1>4. Cardinality(Lost) <= 2 * failures
  <2>1. Cardinality(Lost) + Debt <= 2 * failures BY DEF RecoverInv
  <2>2. Debt \in {0, 1} BY DEF Debt
  <2> QED BY <1>2, <1>3, <2>1, <2>2
<1>5. Debt' \in {0, 1} BY DEF Debt
<1>6. Cardinality(Lost') + Debt' <= 2 * failures' BY <1>1, <1>2, <1>3, <1>4, <1>5
<1> QED BY <1>6 DEF RecoverInv

\* A step that loses nothing and keeps the wallet even.
LEMMA EvenStep ==
  ASSUME TypeInv, TypeInv', RecoverInv, inTurn, NEW t \in Txns, Step(t), included \subseteq included',
         pc'[t] = "done" => pc[t] = "done" \/ t \in included',
         Even => Even', UNCHANGED failures
  PROVE  RecoverInv'
<1>1. Cardinality(Lost') <= Cardinality(Lost) BY LostGrows
<1>2. Cardinality(Lost) \in Nat /\ Cardinality(Lost') \in Nat /\ failures \in Nat
  BY LostGrows DEF TypeInv
<1>3. Debt \in {0, 1} /\ Debt' \in {0, 1} /\ Debt' <= Debt BY DEF Debt
<1>4. Cardinality(Lost) + Debt <= 2 * failures BY DEF RecoverInv
<1>5. Cardinality(Lost') + Debt' <= 2 * failures' BY <1>1, <1>2, <1>3, <1>4
<1> QED BY <1>5 DEF RecoverInv

\* A transaction that had a wrong nonce is lost, and its nonce evicted.
LEMMA OddStep ==
  ASSUME TypeInv, TypeInv', RecoverInv, inTurn, NEW t \in Txns, Step(t), UNCHANGED included,
         ~Even, Even', UNCHANGED failures
  PROVE  RecoverInv'
<1>1. Cardinality(Lost') <= Cardinality(Lost) + 1 BY LostGrows
<1>2. Cardinality(Lost) \in Nat /\ Cardinality(Lost') \in Nat /\ failures \in Nat
  BY LostGrows DEF TypeInv
<1>3. Debt = 1 /\ Debt' = 0 BY DEF Debt
<1>4. Cardinality(Lost) + Debt <= 2 * failures BY DEF RecoverInv
<1>5. Cardinality(Lost') + Debt' <= 2 * failures' BY <1>1, <1>2, <1>3, <1>4
<1> QED BY <1>5 DEF RecoverInv

LEMMA StepRecover ==
  ASSUME TypeInv, TypeInv', AnswersInv, AnswersInv', TurnInv, TurnInv', RecoverInv, NEW t \in Txns, Step(t)
  PROVE  RecoverInv'
<1> USE DEF TypeInv
<1> UNCHANGED <<kind, inTurn>>
  BY DEF Step
<1> SUFFICES ASSUME inTurn PROVE RecoverInv'
  BY DEF RecoverInv
<1>1. \A s \in Txns : s # t => /\ pc'[s] = pc[s] /\ nonce'[s] = nonce[s] /\ asked'[s] = asked[s]
                              /\ failed'[s] = failed[s]
  BY OthersKeep
<1>2. ASSUME pc[t] \notin {"idle", "done"}
      PROVE  \A s \in Txns : s # t => ~Live(s) /\ ~Live(s)'
  BY <1>1, <1>2, OneAtATime DEF TurnInv, Live
\* After the only one under way is done, it is the cache that counts.
<1>3. ASSUME pc[t] \notin {"idle", "done"}, Evict, Goto(t, "done") PROVE Even'
  <2>1. pc'[t] = "done" /\ cache' = Absent BY <1>3 DEF Evict, Goto
  <2> QED BY <2>1, <1>2, <1>3 DEF Even, Live
<1>4. ASSUME Live(t), t \notin included, ~OnTrack(t) PROVE ~Even
  BY <1>2, <1>4 DEF Even, Live
<1>10. CASE Start(t)
  <2>1. /\ pc[t] = "idle" /\ pc'[t] = "nonce"
        /\ UNCHANGED <<cache, nonce, asked, failed, pool, expired, included, chain, failures>>
    BY <1>10 DEF Start, Goto, network
  <2>2. Even => Even' BY <2>1, <1>1 DEF Even, Live, OnTrack
  <2> QED BY <2>1, <2>2, EvenStep
<1>11. CASE GetNextNonce(t)
  <2>1. /\ pc[t] = "nonce" /\ pc'[t] = "sign" /\ nonce'[t] = cache'
        /\ UNCHANGED <<asked, failed, pool, expired, included, chain>>
    BY <1>11 DEF GetNextNonce, Goto, network
  <2>2. CASE Fault BY <2>1, <2>2, FaultPays
  <2>3. CASE ~Fault
    <3>1. UNCHANGED failures BY <1>11, <2>3 DEF GetNextNonce, FromSharders
    <3>2. Even => Even'
      <4> SUFFICES ASSUME Even PROVE Even'
        OBVIOUS
      <4>1. \A s \in Txns : ~Live(s) BY <2>1, <1>2 DEF Live
      <4>2. cache \in {Absent, chain} BY <4>1 DEF Even
      <4>3. cache' = chain + 1 BY <1>11, <2>3, <4>2 DEF GetNextNonce, FromSharders, Absent
      <4>4. t \notin included /\ t \notin expired /\ failed[t] = 0
        BY <2>1 DEF TurnInv, ChainInv, BeforeSubmit, AnswersInv, Progress, Unsent
      <4>5. Live(t)' /\ t \notin included' BY <2>1, <4>4 DEF Live
      <4>6. OnTrack(t)' BY <2>1, <4>3, <4>4 DEF OnTrack
      <4> QED BY <4>5, <4>6 DEF Even
    <3> QED BY <2>1, <3>1, <3>2, EvenStep
  <2> QED BY <2>2, <2>3
<1>12. CASE Sign(t)
  <2>1. /\ pc[t] = "sign" /\ pc'[t] = "submit" /\ asked'[t] = Miners
        /\ UNCHANGED <<cache, nonce, failed, pool, expired, included, chain, failures>>
    BY <1>12 DEF Sign, Send, Goto, network
  <2>2. Live(t) /\ Live(t)' BY <2>1 DEF Live
  <2>3. t \notin included BY <2>1 DEF TurnInv, ChainInv, BeforeSubmit
  <2>4. Even => OnTrack(t) BY <1>4, <2>2, <2>3
  <2>5. OnTrack(t) => OnTrack(t)' BY <2>1 DEF OnTrack
  <2>6. Even => Even' BY <2>1, <2>2, <2>3, <2>4, <2>5 DEF Even
  <2> QED BY <2>1, <2>6, EvenStep
<1>13. CASE AuthFails(t) BY <1>13, FaultPays DEF AuthFails, network
<1>14. CASE SignFails(t) BY <1>14, FaultPays DEF SignFails, network
<1>15. ASSUME NEW m \in Miners, MinerAnswers(t, m) PROVE RecoverInv'
  <2>1. UNCHANGED <<cache, pc, nonce, expired, included, chain>> /\ m \in asked[t]
    BY <1>15 DEF MinerAnswers
  <2>2. CASE Fault BY <2>1, <2>2, FaultPays, <1>15 DEF Step
  <2>3. CASE ~Fault
    <3>1. UNCHANGED failures BY <1>15, <2>3 DEF MinerAnswers
    <3>2. \/ nonce[t] > chain /\ pool' = pool \cup {t} /\ UNCHANGED failed
          \/ nonce[t] <= chain /\ UNCHANGED pool
      BY <1>15, <2>3 DEF MinerAnswers, MinerTakes
    <3>3. nonce[t] <= chain => ~OnTrack(t) BY DEF OnTrack
    <3>4. OnTrack(t) => OnTrack(t)' BY <2>1, <3>2, <3>3 DEF OnTrack
    <3>5. \A s \in Txns : s # t /\ OnTrack(s) => OnTrack(s)'
      BY <2>1, <3>2, <1>1 DEF OnTrack
    <3>6. Even => Even' BY <2>1, <3>4, <3>5 DEF Even, Live
    <3> QED BY <2>1, <3>1, <3>6, EvenStep
  <2> QED BY <2>2, <2>3
<1>16. CASE Sent(t)
  <2>1. /\ pc[t] = "submit" /\ pc'[t] = "verify" /\ asked[t] = {}
        /\ UNCHANGED <<cache, nonce, asked, failed, pool, expired, included, chain, failures>>
    BY <1>16 DEF Sent, Goto, network
  <2>2. OnTrack(t) => OnTrack(t)' BY <2>1, TxnConstants DEF OnTrack
  <2>3. Live(t) /\ Live(t)' BY <2>1 DEF Live
  <2>4. \A s \in Txns : s # t => ~Live(s) /\ ~Live(s)' BY <2>1, <1>2
  <2>5. Even => Even' BY <2>1, <2>2, <2>3, <2>4 DEF Even
  <2> QED BY <2>1, <2>5, EvenStep
<1>17. CASE Submitted(t)
  <2>1. pc[t] = "submit" /\ UNCHANGED <<nonce, asked, failed, failC, took, pool, expired, included, chain, failures>>
    BY <1>17 DEF Submitted, network
  <2>2. Live(t) /\ \A s \in Txns : s # t => ~Live(s) /\ ~Live(s)' BY <2>1, <1>2 DEF Live
  <2>3. CASE Goto(t, "verify") /\ UNCHANGED cache
    <3>1. pc'[t] = "verify" /\ Live(t)' BY <2>3 DEF Goto, Live
    <3>2. asked'[t] # Miners BY <3>1 DEF AnswersInv, Progress
    <3>3. OnTrack(t) => OnTrack(t)' BY <2>1, <3>1, <3>2 DEF OnTrack
    <3>4. Even => Even' BY <2>1, <2>2, <2>3, <3>1, <3>3 DEF Even
    <3> QED BY <2>1, <3>1, <3>4, EvenStep
  <2>4. CASE Goto(t, "done") /\ Evict /\ (failC[t] \/ (resultC[t] # <<>> /\ Head(resultC[t]) = "refused"))
    <3>1. pc'[t] = "done" BY <2>4 DEF Goto
    <3>2. Even' BY <2>1, <2>4, <1>3
    <3>3. failed[t] # 0
      <4>1. Counts(t) /\ resultC[t] \in Seq(Statuses) BY DEF AnswersInv
      <4>2. NoneTook(t)
        <5>1. CASE failC[t] BY <4>1, <5>1 DEF Counts
        <5>2. CASE resultC[t] # <<>> /\ Head(resultC[t]) = "refused"
          <6>1. 1 \in 1 .. Len(resultC[t]) /\ resultC[t][1] = "refused" BY <4>1, <5>2
          <6> QED BY <4>1, <6>1 DEF Counts
        <5> QED BY <2>4, <5>1, <5>2
      <4>3. ~Unsent(t) BY <2>4 DEF Unsent
      <4>4. AllAccounted(t) BY <4>1, <4>3 DEF Counts
      <4>5. Cardinality(asked[t]) = 0 /\ Cardinality(took[t]) = 0 BY <4>2, MinerSets DEF NoneTook
      <4>6. Cardinality(Miners) # 0 BY TxnConstants, FS_EmptySet
      <4> QED BY <4>4, <4>5, <4>6 DEF AllAccounted
    <3>4. CASE t \in included BY <2>1, <3>2, <3>4, EvenStep
    <3>5. CASE t \notin included
      <4>1. ~OnTrack(t) BY <3>3 DEF OnTrack
      <4> QED BY <2>1, <2>2, <3>2, <3>5, <4>1, <1>4, OddStep
    <3> QED BY <3>4, <3>5
  <2> QED BY <1>17, <2>3, <2>4 DEF Submitted
<1>18. CASE Confirmed(t)
  <2>1. /\ pc[t] = "verify" /\ pc'[t] = "done" /\ t \in included
        /\ UNCHANGED <<nonce, asked, failed, pool, expired, included, chain>>
    BY <1>18 DEF Confirmed, Goto, network
  <2>2. CASE Fault BY <2>1, <2>2, FaultPays
  <2>3. CASE ~Fault
    <3>1. UNCHANGED <<cache, failures>> BY <1>18, <2>3 DEF Confirmed
    <3>2. \A s \in Txns : s # t => ~Live(s) /\ ~Live(s)' BY <2>1, <1>2
    <3>3. Even => Even' BY <2>1, <3>1, <3>2 DEF Even, Live
    <3> QED BY <2>1, <3>1, <3>3, EvenStep
  <2> QED BY <2>2, <2>3
<1>19. CASE Unconfirmed(t)
  <2>1. /\ pc[t] = "verify" /\ Evict /\ Goto(t, "done")
        /\ UNCHANGED <<nonce, asked, failed, pool, expired, included, chain>>
    BY <1>19 DEF Unconfirmed, network
  <2>2. CASE Fault BY <2>1, <2>2, FaultPays
  <2>3. CASE ~Fault
    <3>1. t \notin included /\ t \in expired /\ UNCHANGED failures BY <1>19, <2>3 DEF Unconfirmed
    <3>2. ~Even BY <2>1, <3>1, <1>4 DEF OnTrack, Live
    <3>3. Even' BY <2>1, <1>3
    <3> QED BY <2>1, <3>1, <3>2, <3>3, OddStep
  <2> QED BY <2>2, <2>3
<1>20. CASE Include(t)
  <2>1. /\ t \in pool /\ nonce[t] = chain + 1 /\ chain' = chain + 1 /\ included' = included \cup {t}
        /\ UNCHANGED <<cache, pc, nonce, failures>>
    BY <1>20 DEF Include, client
  <2>2. t \notin included BY <2>1 DEF TurnInv, ChainInv
  <2>3. pc[t] \notin BeforeSubmit BY <2>1 DEF TurnInv, ChainInv
  <2>4. CASE pc[t] = "done"
    <3>1. t \in Lost /\ Lost' = Lost \ {t} BY <2>1, <2>2, <2>4 DEF Lost
    <3>2. IsFiniteSet(Lost) /\ Cardinality(Lost) \in Nat BY LostFinite
    <3>3. Cardinality(Lost') = Cardinality(Lost) - 1 BY <3>1, <3>2, FS_RemoveElement
    <3>4. Debt \in {0, 1} /\ Debt' \in {0, 1} BY DEF Debt
    <3>5. Cardinality(Lost) + Debt <= 2 * failures BY DEF RecoverInv
    <3>6. Cardinality(Lost') + Debt' <= 2 * failures' BY <2>1, <3>2, <3>3, <3>4, <3>5
    <3> QED BY <3>6 DEF RecoverInv
  <2>5. CASE pc[t] # "done"
    <3>1. Live(t) BY <2>3, <2>5 DEF Live, BeforeSubmit, Labels
    <3>2. cache' = chain' BY <2>1, <3>1 DEF TurnInv, CacheInv
    <3>3. \A s \in Txns : s # t => ~Live(s)' BY <3>1, <1>2 DEF Live
    <3>4. Even' BY <2>1, <3>2, <3>3 DEF Even
    <3> QED BY <2>1, <2>5, <3>4, EvenStep
  <2> QED BY <2>4, <2>5
<1>21. CASE Expire(t)
  <2>1. /\ pc[t] = "verify" /\ (t \in pool => nonce[t] # chain + 1)
        /\ UNCHANGED <<cache, pc, nonce, asked, failed, included, chain, failures>>
    BY <1>21 DEF Expire, client
  <2>2. Live(t) /\ ~OnTrack(t) BY <2>1 DEF Live, OnTrack
  <2>3. Even => Even' BY <2>1, <2>2, <1>2 DEF Even, Live
  <2> QED BY <2>1, <2>3, EvenStep
<1> QED
  BY <1>10, <1>11, <1>12, <1>13, <1>14, <1>15, <1>16, <1>17, <1>18, <1>19, <1>20, <1>21 DEF Step

LEMMA WalletAlways == TxnSpec => [](TypeInv /\ AnswersInv /\ TurnInv /\ RecoverInv)
<1> DEFINE Inv == TypeInv /\ AnswersInv /\ TurnInv /\ RecoverInv
<1>1. TxnInit => TurnInv /\ RecoverInv
  <2> SUFFICES ASSUME TxnInit PROVE TurnInv /\ RecoverInv
    OBVIOUS
  <2>1. TurnInv BY DEF TxnInit, TurnInv, ChainInv, OrderInv, CacheInv, Live
  <2>2. Lost = {} BY DEF TxnInit, Lost
  <2>3. Even BY DEF TxnInit, Even, Live, Absent
  <2>4. Cardinality(Lost) = 0 /\ Debt = 0 /\ failures = 0 BY <2>2, <2>3, FS_EmptySet DEF Debt, TxnInit
  <2> QED BY <2>1, <2>4 DEF RecoverInv
<1>2. TypeInv /\ AnswersInv /\ TypeInv' /\ AnswersInv' /\ TurnInv /\ RecoverInv /\ [TxnNext]_txnVars
        => TurnInv' /\ RecoverInv'
  <2> SUFFICES ASSUME TypeInv, AnswersInv, TypeInv', AnswersInv', TurnInv, RecoverInv, [TxnNext]_txnVars
               PROVE  TurnInv' /\ RecoverInv'
    OBVIOUS
  <2>1. CASE UNCHANGED txnVars
    BY <2>1 DEF txnVars, client, network, TurnInv, ChainInv, OrderInv, CacheInv, Live, RecoverInv,
                Lost, Debt, Even, OnTrack
  <2>2. CASE TxnNext
    <3>1. PICK t \in Txns : Step(t) BY <2>2 DEF TxnNext
    <3>2. TurnInv' BY <3>1, StepOrder, StepChain, StepCache DEF TurnInv
    <3> QED BY <3>1, <3>2, StepRecover
  <2> QED BY <2>1, <2>2
<1> QED BY <1>1, <1>2, AnswersAlways, PTL DEF TxnSpec

\* A fault costs a sequential wallet at most the transaction it hits and the next one: the
\* failure of that one evicts the cached nonce (cache.go:39-64), for any number of
\* transactions, miners and faults, whichever way each transaction is sent.
THEOREM FaultsAreOutlived == TxnSpec => []WalletRecovers
<1>1. TypeInv /\ RecoverInv => WalletRecovers
  <2> SUFFICES ASSUME TypeInv, RecoverInv, Done, inTurn
               PROVE  Cardinality(Txns \ included) <= 2 * failures
    BY DEF WalletRecovers
  <2>1. Txns \ included = Lost BY DEF Lost, Done
  <2>2. Cardinality(Lost) + Debt <= 2 * failures BY DEF RecoverInv
  <2>3. Cardinality(Lost) \in Nat /\ Debt \in {0, 1} /\ failures \in Nat
    BY LostFinite DEF Debt, TypeInv
  <2>4. Cardinality(Lost) <= 2 * failures BY <2>2, <2>3
  <2> QED BY <2>1, <2>4
<1> QED BY <1>1, WalletAlways, PTL
=============================================================================
