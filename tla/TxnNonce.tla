------------------------------- MODULE TxnNonce -------------------------------
(***************************************************************************)
(* The nonces of a wallet's transactions: the process-wide NonceCache of   *)
(* core/transaction and the three ways to send a transaction that share    *)
(* it: "sdk", smartContractTxnValueFee (zboxcore/sdk); "zcn", setNonce,    *)
(* submitTxn and Verify (zcncore); "auth", TransactionWithAuth.submitTxn.  *)
(*                                                                         *)
(* The transactions are sent one after the other by one goroutine, or each *)
(* by a goroutine of its own.  The chain is external: it includes the      *)
(* pooled transaction whose nonce is next, a transaction it has not        *)
(* included is dropped when it expires.  Clock, fees and signatures are    *)
(* left out; a signature that cannot be made is a fault.                   *)
(***************************************************************************)
EXTENDS Integers, Sequences, FiniteSets, SequencesExt

CONSTANTS
  NTxns,        \* transactions of the wallet sent in turn
  Width,        \* or at the same time
  Miners,       \* the stable miners
  MaxFailures     \* bound: failing requests, stale answers, early timeouts

Txns == 1 .. NTxns
Kinds == <<"sdk", "zcn", "auth">>
Absent == -1

ASSUME TxnConstants ==
  NTxns \in Nat \ {0} /\ Width \in 1 .. NTxns /\ MaxFailures \in Nat
  /\ IsFiniteSet(Miners) /\ Miners # {}

VARIABLES
  kind,      \* the way each transaction is sent
  inTurn,    \* one goroutine sends them one after the other
  cache,     \* NonceCache.cache[ClientID], Absent when there is none
  pc,        \* of a transaction: "idle", "nonce", "sign", "submit", "verify", "done"
  nonce,     \* TransactionNonce
  asked,     \* miners that have not answered yet
  failed,    \* failedCount
  resultC,   \* what the miners' goroutines sent: status codes "ok" and "refused"
  failC,     \* failC is closed
  calls,     \* the statuses OnTransactionComplete was called with
  pool,      \* transactions a miner has (external)
  took,      \* history: miners that answered 200
  expired,   \* transactions past their time
  included,  \* transactions in a block
  chain,     \* the wallet's nonce on the chain
  failures

client == <<pc, nonce, asked, failed, resultC, failC, calls, took>>
network == <<pool, expired, included, chain>>
txnVars == <<kind, inTurn, cache, client, network, failures>>

\* Which of the transactions sent at the same time is which makes no difference.
TxnInit ==
  /\ inTurn \in BOOLEAN
  /\ \E k \in [Txns -> DOMAIN Kinds] :
       /\ inTurn \/ \A t \in 2 .. NTxns : k[t] >= k[t-1] /\ (t > Width => k[t] = k[t-1])
       /\ kind = [t \in Txns |-> Kinds[k[t]]]
  /\ cache = Absent
  /\ pc = [t \in Txns |-> "idle"] /\ nonce = [t \in Txns |-> 0]
  /\ asked = [t \in Txns |-> {}] /\ failed = [t \in Txns |-> 0]
  /\ resultC = [t \in Txns |-> <<>>] /\ failC = [t \in Txns |-> FALSE]
  /\ calls = [t \in Txns |-> <<>>] /\ took = [t \in Txns |-> {}]
  /\ pool = {} /\ expired = {} /\ included = {} /\ chain = 0
  /\ failures = 0

Fault == failures < MaxFailures /\ failures' = failures + 1
Goto(t, l) == pc' = [pc EXCEPT ![t] = l]

-----------------------------------------------------------------------------
(* NonceCache                                                              *)

\* The nonce of the chain; an older one from the sharders that lag (a quarter of the
\* sharders is a consensus), or 0 when too few answer.
FromSharders(v) ==
  \/ v = chain /\ UNCHANGED failures
  \/ v \in 0 .. chain - 1 /\ Fault

GetNextNonce(t) ==
  /\ pc[t] = "nonce"
  /\ \/ cache # Absent /\ cache' = cache + 1 /\ UNCHANGED failures
     \/ cache = Absent /\ \E v \in 0 .. chain : FromSharders(v) /\ cache' = v + 1
  /\ nonce' = [nonce EXCEPT ![t] = cache']
  /\ Goto(t, "sign")
  /\ UNCHANGED <<asked, failed, resultC, failC, calls, took, network>>

\* Mutant: a failed transaction keeps the cached nonce.
EvictNothing == UNCHANGED cache
Evict == cache' = Absent

-----------------------------------------------------------------------------
(* Sending                                                                 *)

\* A goroutine begins, or goes on to its next transaction.
Start(t) ==
  /\ pc[t] = "idle"
  /\ IF inTurn THEN t > 1 => pc[t-1] = "done" ELSE t <= Width
  /\ Goto(t, "nonce")
  /\ UNCHANGED <<cache, nonce, asked, failed, resultC, failC, calls, took, network, failures>>

completeTxn(t, status) == calls' = [calls EXCEPT ![t] = Append(@, status)]

\* The requests to the miners are sent.
Send(t) ==
  /\ Goto(t, "submit")
  /\ asked' = [asked EXCEPT ![t] = Miners]

\* The hash is computed and signed; the user has authorised an "auth" transaction.
Sign(t) ==
  /\ pc[t] = "sign"
  /\ Send(t)
  /\ UNCHANGED <<cache, nonce, failed, resultC, failC, calls, took, network, failures>>

\* No authorisation: the nonce stays used.
AuthFails(t) ==
  /\ pc[t] = "sign" /\ kind[t] = "auth" /\ Fault
  /\ completeTxn(t, "auth_error")
  /\ Goto(t, "done")
  /\ UNCHANGED <<cache, nonce, asked, failed, resultC, failC, took, network>>

\* A signature that cannot be made: "sdk" returns the error and keeps the nonce used,
\* "zcn" evicts it, "auth" reports the error and submits the transaction all the same:
\* submitTxn signs it alone, or fails too.
SignFails(t) ==
  /\ pc[t] = "sign" /\ Fault
  /\ \/ kind[t] = "sdk" /\ Goto(t, "done") /\ UNCHANGED <<cache, calls, asked>>
     \/ /\ kind[t] = "zcn"
        /\ completeTxn(t, "error") /\ Evict /\ Goto(t, "done") /\ UNCHANGED asked
     \/ /\ kind[t] = "auth"
        /\ completeTxn(t, "error") /\ Send(t) /\ UNCHANGED cache
     \/ /\ kind[t] = "auth"
        /\ calls' = [calls EXCEPT ![t] = @ \o <<"error", "error">>]
        /\ Evict /\ Goto(t, "done") /\ UNCHANGED asked
  /\ UNCHANGED <<nonce, failed, resultC, failC, took, network>>

\* A miner takes a transaction whose nonce is not used up.
MinerTakes(t) == pool' = pool \cup {t}

\* Mutant: the first failure ends the submission.
CountFirstFailure(t, closes) ==
  /\ failed' = [failed EXCEPT ![t] = @ + 1]
  /\ failC' = [failC EXCEPT ![t] = @ \/ closes]
  /\ resultC' = [resultC EXCEPT ![t] = IF ~closes THEN Append(@, "refused") ELSE @]
\* Mutant: the last failure is missed.
CountFailureLate(t, closes) ==
  LET last == failed[t] = Cardinality(Miners)
  IN  /\ failed' = [failed EXCEPT ![t] = @ + 1]
      /\ failC' = [failC EXCEPT ![t] = @ \/ (last /\ closes)]
      /\ resultC' = [resultC EXCEPT ![t] = IF last /\ ~closes THEN Append(@, "refused") ELSE @]
\* The last of the failures closes failC or sends its answer.
CountFailure(t, closes) ==
  LET last == failed[t] + 1 = Cardinality(Miners)
  IN  /\ failed' = [failed EXCEPT ![t] = @ + 1]
      /\ failC' = [failC EXCEPT ![t] = @ \/ (last /\ closes)]
      /\ resultC' = [resultC EXCEPT ![t] = IF last /\ ~closes THEN Append(@, "refused") ELSE @]

\* The goroutine of one miner's request: 200, another status (the nonce is used up, or
\* a fault), or no answer, after which the miner may have the transaction.
MinerAnswers(t, m) ==
  /\ m \in asked[t]
  /\ asked' = [asked EXCEPT ![t] = @ \ {m}]
  /\ \/ /\ nonce[t] > chain
        /\ MinerTakes(t)
        /\ took' = [took EXCEPT ![t] = @ \cup {m}]
        /\ resultC' = [resultC EXCEPT ![t] = Append(@, "ok")]
        /\ UNCHANGED <<failed, failC, failures>>
     \/ /\ IF nonce[t] <= chain THEN UNCHANGED failures ELSE Fault
        /\ CountFailure(t, FALSE)
        /\ UNCHANGED <<pool, took>>
     \/ /\ Fault
        /\ MinerTakes(t) \/ UNCHANGED pool
        /\ CountFailure(t, TRUE)
        /\ UNCHANGED took
  /\ UNCHANGED <<cache, pc, nonce, calls, expired, included, chain>>

\* SendTransactionSync has waited for all miners, whatever they answered.
Sent(t) ==
  /\ pc[t] = "submit" /\ kind[t] = "sdk" /\ asked[t] = {}
  /\ Goto(t, "verify")
  /\ UNCHANGED <<cache, nonce, asked, failed, resultC, failC, calls, took, network, failures>>

\* The select of submitTxn.  The callback of a transaction that was taken calls Verify.
Submitted(t) ==
  /\ pc[t] = "submit" /\ kind[t] # "sdk"
  /\ \/ /\ failC[t]
        /\ completeTxn(t, "error") /\ Evict /\ Goto(t, "done")
        /\ UNCHANGED resultC
     \/ /\ resultC[t] # <<>>
        /\ resultC' = [resultC EXCEPT ![t] = Tail(@)]
        /\ \/ /\ Head(resultC[t]) = "ok"
              /\ completeTxn(t, "success") /\ Goto(t, "verify") /\ UNCHANGED cache
           \/ /\ Head(resultC[t]) = "refused"
              /\ completeTxn(t, "error") /\ Evict /\ Goto(t, "done")
  /\ UNCHANGED <<nonce, asked, failed, failC, took, network, failures>>

\* The sharders confirm the transaction, in a block that extends the chain.  A status that is neither success nor a
\* chargeable error makes "zcn" evict a nonce that was used.
Confirmed(t) ==
  /\ pc[t] = "verify" /\ t \in included
  /\ \/ UNCHANGED <<cache, failures>>
     \/ kind[t] # "sdk" /\ Fault /\ Evict
  /\ Goto(t, "done")
  /\ UNCHANGED <<nonce, asked, failed, resultC, failC, calls, took, network>>

\* No confirmation: "zcn" asks until the transaction has expired, "sdk" a number of
\* times; sharders that do not answer are a fault.
Unconfirmed(t) ==
  /\ pc[t] = "verify"
  /\ IF t \notin included /\ t \in expired THEN UNCHANGED failures ELSE Fault
  /\ kind[t] # "sdk" => t \in expired
  /\ Evict
  /\ Goto(t, "done")
  /\ UNCHANGED <<nonce, asked, failed, resultC, failC, calls, took, network>>

-----------------------------------------------------------------------------
(* The chain (external)                                                    *)

Include(t) ==
  /\ t \in pool /\ t \notin expired /\ nonce[t] = chain + 1
  /\ chain' = chain + 1 /\ included' = included \cup {t} /\ pool' = pool \ {t}
  /\ UNCHANGED <<cache, client, expired, failures>>

\* Time passes: a transaction that cannot be included now is dropped in the end.
Expire(t) ==
  /\ t \notin expired /\ pc[t] = "verify"
  /\ t \in pool => nonce[t] # chain + 1
  /\ expired' = expired \cup {t} /\ pool' = pool \ {t}
  /\ UNCHANGED <<cache, client, included, chain, failures>>

Step(t) ==
  /\ \/ Start(t) \/ GetNextNonce(t) \/ Sign(t) \/ AuthFails(t) \/ SignFails(t)
     \/ \E m \in Miners : MinerAnswers(t, m)
     \/ Sent(t) \/ Submitted(t) \/ Confirmed(t) \/ Unconfirmed(t)
     \/ Include(t) \/ Expire(t)
  /\ UNCHANGED <<kind, inTurn>>
TxnNext == \E t \in Txns : Step(t)
TxnSpec == TxnInit /\ [][TxnNext]_txnVars

\* Goroutines go on, requests end (they have timeouts), blocks are made.
TxnFairSpec == TxnSpec /\ \A t \in Txns : WF_txnVars(Step(t))

-----------------------------------------------------------------------------
(* Properties                                                              *)

TxnTypeOK ==
  /\ cache \in {Absent} \cup 1 .. NTxns
  /\ kind \in [Txns -> Range(Kinds)] /\ inTurn \in BOOLEAN
  /\ pc \in [Txns -> {"idle", "nonce", "sign", "submit", "verify", "done"}]
  /\ nonce \in [Txns -> 0 .. NTxns]
  /\ asked \in [Txns -> SUBSET Miners] /\ took \in [Txns -> SUBSET Miners]
  /\ failed \in [Txns -> 0 .. Cardinality(Miners)] /\ failC \in [Txns -> BOOLEAN]
  /\ pool \subseteq Txns /\ expired \subseteq Txns /\ included \subseteq Txns
  /\ chain = Cardinality(included) /\ failures <= MaxFailures

\* submitTxn of zcncore ("zcn") reports a failure only when every miner failed, whatever
\* the order of the answers, and a success only when one answered 200
\* (transaction_base.go:347-398).  smartContractTxnValueFee reports no answers of miners,
\* and TransactionWithAuth may report an error of its signature before them.
ReportsWhatMinersSaid ==
  \A t \in Txns : kind[t] = "zcn" /\ calls[t] # <<>> =>
    /\ Last(calls[t]) = "success" => took[t] # {}
    /\ Last(calls[t]) = "error" => took[t] = {}

\* A nonce that was skipped, used twice or read from a sharder that lags does not block
\* the wallet: the transactions that fail for it evict the nonce, so that a fault costs
\* a sequential wallet at most the transaction it hits and the next one (cache.go:39-64).
Done == \A t \in Txns : pc[t] = "done" \/ (~inTurn /\ t > Width)
WalletRecovers == Done /\ inTurn => Cardinality(Txns \ included) <= 2 * failures

\* Every transaction comes to its end: the last failing goroutine wakes the select of
\* submitTxn (transaction_base.go:367), and verification ends.  The end is that of the
\* goroutine: the two returns of Verify without a callback (transaction.go:1023-1031) are
\* ends, and a block that never extends the chain, for which validateChain asks on
\* (transaction_base.go:718), is outside the model.
AllAnswered == <>Done

=============================================================================
