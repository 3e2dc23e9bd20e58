----------------------------- MODULE MCTxnNonce -----------------------------
(* Model checking of TxnNonce.                                             *)
EXTENDS TxnNonce
=============================================================================
