------------------------------ MODULE MCRefTree ------------------------------
(* Model checking of RefTree: all trees of two names and two levels.       *)
EXTENDS RefTree

File(p) == [type |-> "f", size |-> 1, id |-> <<0>> \o p]
Dir(p) == [type |-> "d", size |-> 0, id |-> IF p = <<>> THEN NoId ELSE <<0>> \o p]
Level(n) == {p \in SeqOf({1, 2}, 2) : Len(p) = n}
\* A tree is the set of its directories and the set of its files.
TreeOf(ds, fs) == [p \in ds \cup fs |-> IF p \in ds THEN Dir(p) ELSE File(p)]
AllTrees ==
  {TreeOf(ds \cup {<<>>}, fs) : <<ds, fs>> \in
     {x \in (SUBSET (Level(1) \cup Level(2))) \X (SUBSET (Level(1) \cup Level(2))) :
        /\ x[1] \cap x[2] = {}
        /\ \A p \in x[1] \cup x[2] : Len(p) = 2 => Front(p) \in x[1]}}
=============================================================================
