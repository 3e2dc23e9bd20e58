------------------------------ MODULE MCFileOps ------------------------------
(* FileOps on a small allocation: every worker, called either way.          *)
EXTENDS FileOps
=============================================================================
