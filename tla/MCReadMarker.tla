---------------------------- MODULE MCReadMarker ----------------------------
(* ReadMarker on a small instance: request r asks for r blocks.             *)
EXTENDS ReadMarker

Lengths == [r \in Requests |-> r]
\* Two cases: all three files are on one blobber, where the two batches meet; or the
\* first two files are on every blobber, and their batch is the only one.
One == {CHOOSE b \in Blobbers : TRUE}
FilesOn == {[r \in Requests |-> One], [r \in Requests |-> IF r = 3 THEN {} ELSE Blobbers]}
=============================================================================
