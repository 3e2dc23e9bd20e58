------------------------------- MODULE MCBatch -------------------------------
(* Operation lists for Batch.  The allocation begins with the files /d/f and *)
(* /g in the directory /d.                                                   *)
EXTENDS Batch

Op(k, p, d, c) == [kind |-> k, path |-> p, dest |-> d, conn |-> c]
D == <<"d">>
F == <<"d", "f">>
G == <<"g">>
H == <<"d", "g">>
K == <<"k">>
MCStart == {D, F, G}

Insert(p) == Op("insert", p, p, 0)
Resume(p, c) == Op("insert", p, p, c)
Delete(p) == Op("delete", p, p, 0)
MkDir(p) == Op("dir", p, p, 0)
Copy(p, d) == Op("copy", p, d, 0)
Move(p, d) == Op("move", p, d, 0)

\* The path of the second operation is that of the first or an ancestor of it.
MCConflicting == {<<Delete(F), Delete(D), MkDir(D)>>, <<Insert(K), Move(K, H), Insert(K)>>,
                  <<Copy(G, K), Delete(G)>>}
\* Independent operations, which share a batch.
MCIndependent == {<<Insert(K), Insert(H)>>, <<Delete(F), Copy(G, K)>>, <<Move(G, K), Insert(H), Delete(F)>>}
\* Uploads that continue saved ones, and directories that exist or not.
MCResuming == {<<Resume(K, 1), Insert(H), Resume(<<"m">>, 2)>>, <<Insert(K), Resume(H, 1), Delete(H)>>,
               <<Insert(K), MkDir(D), Resume(H, 1)>>, <<MkDir(K), Insert(H)>>}
\* The second operation is about what the first one creates, or has nothing to do.
MCOther == {<<Copy(G, H), Delete(H)>>, <<Insert(H), Insert(K), MkDir(D)>>}
MCLists == MCConflicting \cup MCIndependent \cup MCResuming \cup MCOther
=============================================================================
