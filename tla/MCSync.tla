-------------------------------- MODULE MCSync --------------------------------
(* Model checking of Sync.                                                 *)
EXTENDS Sync
\* A directory with two files.
TwoDirs == {<<1>>}
TwoFiles == {<<1, 1>>, <<1, 2>>}
Root == <<>>
=============================================================================
