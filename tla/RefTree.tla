------------------------------- MODULE RefTree -------------------------------
(***************************************************************************)
(* The tree a commit signs.  processCommit (commitworker.go) asks one      *)
(* blobber for the part of its reference tree that the changes touch,      *)
(* checks its root against the latest write marker, applies the changes    *)
(* (allocationchange) to that partial tree (fileref) and signs the new     *)
(* root and the size difference.  The blobber recomputes the root over its *)
(* whole tree and refuses another one.                                     *)
(*                                                                         *)
(* The client's tree is a Ref with its Children; a directory it has not    *)
(* loaded is a leaf that keeps the hash it came with.  A hash is the       *)
(* structure it was computed from.  The blobber's tree is a function from  *)
(* paths to entries, changed by what an operation means (Apply).  A path   *)
(* is the sequence of its names, a file's contents are its size, and an id *)
(* is the chain of names it was derived from.                              *)
(***************************************************************************)
EXTENDS Integers, Sequences, FiniteSets, SequencesExt, TLC

CONSTANTS
  Names,        \* names, ordered as integers
  Trees,        \* the trees to begin with
  MaxDepth,     \* bound: names in a path
  MaxOps        \* bound: operations of all batches

Paths == SeqOf(Names, MaxDepth)
NoId == <<>>

ASSUME RefTreeConstants ==
  /\ Names \subseteq Nat /\ {MaxDepth, MaxOps} \subseteq Nat \ {0}
  /\ \A d \in Trees : \A p \in DOMAIN d : p # <<>> => Front(p) \in DOMAIN d /\ d[Front(p)].type = "d"

VARIABLES
  disk,      \* the blobber's tree: path -> [type, size, id]
  wm,        \* its latest write marker: [root, size of all markers so far]; root <<>> is none
  changes,   \* the batch: operations with the object tree fetched for each
  ops,       \* operations so far
  result,    \* of the last commit
  clashed    \* history: a batch had operations on the same objects, or renamed a directory

vars == <<disk, wm, changes, ops, result, clashed>>

-----------------------------------------------------------------------------
(* The blobber (external)                                                  *)

Dirs(p) == {SubSeq(p, 1, n) : n \in 0 .. Len(p)}
Under(d, p) == {q \in DOMAIN d : IsPrefix(p, q)}
Kids(d, p) == {q \in DOMAIN d : q # <<>> /\ Front(q) = p}
IsDir(d, p) == p \in DOMAIN d /\ d[p].type = "d"
\* strings.Compare of two paths whose names are single characters.
Less(p, q) ==
  \E k \in 1 .. Len(q) :
    /\ Len(p) >= k - 1 /\ SubSeq(p, 1, k - 1) = SubSeq(q, 1, k - 1)
    /\ Len(p) = k - 1 \/ p[k] < q[k]
Listed(d, p) == SetToSortSeq(Kids(d, p), Less)

SizeOf(d, p) ==
  FoldSet(LAMBDA q, s : s + d[q].size, 0, {q \in Under(d, p) : d[q].type = "f"})
RECURSIVE RefHash(_, _)
RefHash(d, p) ==
  IF d[p].type = "f" THEN <<Last(p), p, d[p].size, d[p].id>>
  ELSE LET ks == Listed(d, p) IN <<p, d[p].id, [k \in DOMAIN ks |-> RefHash(d, ks[k])]>>

FreshDirs(d, p, meta) ==
  [q \in Dirs(p) \ DOMAIN d |->
     [type |-> "d", size |-> 0, id |-> IF q \in DOMAIN meta THEN meta[q] ELSE NoId]]
Without(d, p) == [q \in DOMAIN d \ Under(d, p) |-> d[q]]
Rebased(from, to, q) == to \o SubSeq(q, Len(from) + 1, Len(q))
\* The entries at and under from, at and under to.
Moved(d, from, to) ==
  [q \in {Rebased(from, to, r) : r \in Under(d, from)} |-> d[Rebased(to, from, q)]]
Renumbered(e, meta) == [q \in DOMAIN e |-> [e[q] EXCEPT !.id = IF q \in DOMAIN meta THEN meta[q] ELSE NoId]]

\* Where the object of an operation ends up.
Target(o) ==
  CASE o.kind = "rename" -> Append(Front(o.path), o.name)
    [] o.kind \in {"move", "copy"} -> Append(o.to, Last(o.path))
    [] OTHER -> o.path

\* What an operation does to the tree; the client chose the ids of new objects.
Apply(o, d, meta) ==
  CASE o.kind = "new" ->
         d @@ (o.path :> [type |-> "f", size |-> o.size, id |-> meta[o.path]])
           @@ FreshDirs(d, Front(o.path), meta)
    [] o.kind = "update" -> [d EXCEPT ![o.path].size = o.size]
    [] o.kind = "delete" -> IF o.path = <<>> THEN [q \in {<<>>} |-> d[q]] ELSE Without(d, o.path)
    [] o.kind = "rename" -> Without(d, o.path) @@ Moved(d, o.path, Target(o))
    [] o.kind = "move" ->
         Without(d, o.path) @@ Moved(d, o.path, Target(o)) @@ FreshDirs(d, o.to, meta)
    [] o.kind = "copy" ->
         d @@ Renumbered(Moved(d, o.path, Target(o)), meta) @@ FreshDirs(d, o.to, meta)
    [] o.kind = "mkdir" -> d @@ FreshDirs(d, o.path, meta)

\* The requests a blobber accepts.
NoFileOnTheWay(d, p) == \A q \in Dirs(p) : q \in DOMAIN d => d[q].type = "d"
Accepts(o, d) ==
  CASE o.kind = "new" -> o.path \notin DOMAIN d /\ NoFileOnTheWay(d, Front(o.path))
    [] o.kind = "mkdir" -> o.path \notin DOMAIN d /\ NoFileOnTheWay(d, o.path)
    [] o.kind = "update" -> o.path \in DOMAIN d /\ d[o.path].type = "f"
    [] o.kind = "delete" -> o.path \in DOMAIN d /\ DOMAIN d # {<<>>}
    [] o.kind = "rename" ->
         o.path \in DOMAIN d /\ Target(o) \notin DOMAIN d
    [] o.kind \in {"move", "copy"} ->
         /\ o.path \in DOMAIN d /\ NoFileOnTheWay(d, o.to)
         /\ ~IsPrefix(o.path, o.to) /\ Target(o) \notin DOMAIN d
         /\ \A q \in Under(d, o.path) : Len(Rebased(o.path, Target(o), q)) <= MaxDepth

-----------------------------------------------------------------------------
(* fileref: a Ref and its hash                                             *)

NewRef(p, id) ==
  [type |-> "d", name |-> IF p = <<>> THEN 0 ELSE Last(p), path |-> p, size |-> 0, id |-> id, hash |-> <<>>,
   compute |-> FALSE, loaded |-> FALSE, children |-> <<>>]
FileRef(p, size) == [NewRef(p, NoId) EXCEPT !.type = "f", !.size = size]

SumOf(s) == FoldLeft(LAMBDA a, x : a + x, 0, s)

RECURSIVE CalculateHash(_)
CalculateHash(r) ==
  IF r.type = "f" THEN [r EXCEPT !.hash = <<r.name, r.path, r.size, r.id>>]
  ELSE IF r.children = <<>> /\ ~r.loaded /\ ~r.compute THEN r
  ELSE LET cs == [k \in DOMAIN r.children |-> CalculateHash(r.children[k])]
       IN  [r EXCEPT !.children = cs,
                     !.hash = <<r.path, r.id, [k \in DOMAIN cs |-> cs[k].hash]>>,
                     !.size = SumOf([k \in DOMAIN cs |-> cs[k].size])]

\* Mutant: children in the order they were added.
AppendChild(r, child) == [r EXCEPT !.children = Append(@, child), !.loaded = TRUE]
AddChild(r, child) ==
  LET i == SelectInSeq(r.children, LAMBDA c : Less(child.path, c.path))
  IN  [r EXCEPT !.children = IF i = 0 THEN Append(@, child) ELSE InsertAt(@, i, child),
                !.loaded = TRUE]
RemoveChild(r, i) == [r EXCEPT !.children = RemoveAt(@, i)]

\* The children of the directories in open are loaded, the other directories are
\* leaves with the blobber's hash and size.
RECURSIVE PopulateChildren(_, _, _)
PopulateChildren(d, p, open) ==
  LET ref == [NewRef(p, d[p].id) EXCEPT !.type = d[p].type, !.size = SizeOf(d, p), !.hash = RefHash(d, p)]
  IN  IF d[p].type = "f" \/ p \notin open THEN ref
      ELSE FoldLeft(AddChild, ref, [k \in DOMAIN Listed(d, p) |->
                                      PopulateChildren(d, Listed(d, p)[k], open)])
\* The reference path of some paths: they and the directories above them are loaded.
GetDirTree(d, paths) == PopulateChildren(d, <<>>, UNION {Dirs(p) : p \in paths})
GetRefFromObjectTree(d, p) == PopulateChildren(d, p, DOMAIN d)

-----------------------------------------------------------------------------
(* Positions in the client's tree                                          *)

Named(r, name) == SelectInSeq(r.children, LAMBDA c : c.name = name)
At(root, p) == FoldLeft(LAMBDA r, name : r.children[Named(r, name)], root, p)
\* root with the Ref at p replaced.
Put(root, p, ref) ==
  FoldLeft(LAMBDA s, k : LET r == At(root, SubSeq(p, 1, k - 1))
                         IN  [r EXCEPT !.children[Named(r, p[k])] = s],
           ref, [j \in 1 .. Len(p) |-> Len(p) + 1 - j])
Marked(r) == [r EXCEPT !.compute = TRUE]

-----------------------------------------------------------------------------
(* allocationchange: the state of processCommit is [root, meta, size, res],*)
(* a change carries its uuid.                                              *)

Stop(s, why) == [s EXCEPT !.res = why]
\* Mutant: every id is derived from the uuid of the operation.
UnchainedUuid(uid, name) == <<uid[1], name>>
GetSHA1Uuid(uid, name) == Append(uid, name)

\* The walk to a directory that new, move, copy and mkdir make: what is missing is
\* created.  A move creates directories without an id.  An unchecked assertion of
\* copy panics on a file.
Reach(s, kind, fields) ==
  LET Step(t, i) ==
        LET here == SubSeq(fields, 1, i - 1)
            next == SubSeq(fields, 1, i)
            dir  == At(t.root, here)
            k    == Named(dir, fields[i])
            id   == IF kind = "move" THEN NoId ELSE GetSHA1Uuid(t.uid, fields[i])
        IN  IF t.res # "ok" THEN t
            ELSE IF k = 0
              THEN [t EXCEPT !.root = Put(t.root, here, AddChild(dir, Marked(NewRef(next, id)))),
                             !.uid = IF kind = "move" THEN @ ELSE id,
                             !.meta = IF kind = "move" THEN @ ELSE (next :> id) @@ @]
            ELSE IF dir.children[k].type = "f"
              THEN Stop(t, IF kind = "copy" THEN "panic" ELSE "error")
            ELSE IF kind = "mkdir" THEN t
              ELSE [t EXCEPT !.root = Put(t.root, next, Marked(dir.children[k]))]
      begin == IF kind = "mkdir" THEN s ELSE [s EXCEPT !.root = Marked(@)]
  IN  FoldLeft(Step, begin, [i \in DOMAIN fields |-> i])

\* The walk to a directory that must be there: "error" when it is not; a file on the
\* way is an error to update and a panic to delete, rename and move.
Find(s, kind, fields) ==
  LET Step(t, i) ==
        LET dir == At(t.root, SubSeq(fields, 1, i - 1))
            k   == Named(dir, fields[i])
        IN  IF t.res # "ok" THEN t
            ELSE IF k = 0 THEN Stop(t, "error")
            ELSE IF dir.children[k].type = "f"
              THEN Stop(t, IF kind = "update" THEN "error" ELSE "panic")
            ELSE IF kind \in {"update", "move"}
              THEN [t EXCEPT !.root = Put(t.root, SubSeq(fields, 1, i), Marked(dir.children[k]))]
              ELSE t
      begin == IF kind = "update" THEN [s EXCEPT !.root = Marked(@)] ELSE s
  IN  FoldLeft(Step, begin, [i \in DOMAIN fields |-> i])

\* Mutant: the whole size of the new version is charged.
GetSizeCharged(c, old) ==
  CASE c.kind \in {"new", "update"} -> c.size
    [] c.kind = "delete" -> -c.tree.size
    [] c.kind = "copy" -> c.tree.size
    [] OTHER -> 0
\* old is the size of the file an update replaces.
GetSize(c, old) ==
  CASE c.kind = "new" -> c.size
    [] c.kind = "update" -> c.size - old
    [] c.kind = "delete" -> -c.tree.size
    [] c.kind = "copy" -> c.tree.size
    [] OTHER -> 0
Finish(s, delta) == [s EXCEPT !.root = CalculateHash(@), !.size = @ + delta]

NewFileChange(s, c) ==
  LET t == Reach(s, "new", Front(c.path))
      id == GetSHA1Uuid(t.uid, Last(c.path))
      file == [Marked(FileRef(c.path, c.size)) EXCEPT !.id = id]
      dir == Front(c.path)
  IN  IF t.res # "ok" THEN t
      ELSE Finish([t EXCEPT !.root = Put(@, dir, AddChild(At(@, dir), file)),
                            !.meta = (c.path :> id) @@ @], GetSize(c, 0))

UpdateFileChange(s, c) ==
  LET t == Find(s, "update", Front(c.path))
      dir == At(t.root, Front(c.path))
      k == SelectInSeq(dir.children, LAMBDA x : x.type = "f" /\ x.path = c.path)
      file == [Marked(FileRef(c.path, c.size)) EXCEPT !.id = dir.children[k].id]
  IN  IF t.res # "ok" THEN t ELSE IF k = 0 THEN Stop(t, "error")
      ELSE Finish([t EXCEPT !.root = Put(@, Front(c.path), [dir EXCEPT !.children[k] = file])],
                  GetSize(c, dir.children[k].size))

DeleteFileChange(s, c) ==
  LET t == Find(s, "delete", Front(c.path))
      dir == At(t.root, Front(c.path))
      k == Named(dir, Last(c.path))
  IN  IF c.path = <<>> THEN Finish([s EXCEPT !.root.children = <<>>], GetSize(c, 0))
      ELSE IF t.res # "ok" THEN t ELSE IF k = 0 THEN Stop(t, "error")
      ELSE Finish([t EXCEPT !.root = Put(@, Front(c.path), RemoveChild(dir, k))], GetSize(c, 0))

\* An object that is not a file gets an error and, without a return, a use of the nil
\* affectedRef.
RenameFileChange(s, c) ==
  LET t == Find(s, "rename", Front(c.path))
      dir == At(t.root, Front(c.path))
      k == SelectInSeq(dir.children, LAMBDA x : x.path = c.path)
      file == [c.tree EXCEPT !.path = Target(c), !.name = c.name]
  IN  IF t.res # "ok" THEN t ELSE IF k = 0 THEN Stop(t, "error")
      ELSE IF c.tree.type # "f" THEN Stop(t, "panic")
      ELSE Finish([t EXCEPT !.root = Put(@, Front(c.path), AddChild(RemoveChild(dir, k), file))], GetSize(c, 0))

\* processChildren of a move: new paths, and every directory is hashed again.
RECURSIVE MoveChildren(_, _)
MoveChildren(r, p) ==
  LET q == [r EXCEPT !.path = p,
                     !.children = [k \in DOMAIN @ |-> MoveChildren(@[k], Append(p, @[k].name))]]
  IN  IF r.type = "f" THEN q ELSE [q EXCEPT !.compute = TRUE, !.loaded = TRUE]

MoveFileChange(s, c) ==
  LET t == Reach(s, "move", c.to)
      u == Find([t EXCEPT !.root = Put(@, c.to, AddChild(At(@, c.to), MoveChildren(c.tree, Target(c))))],
                "move", Front(c.path))
      old == At(u.root, Front(c.path))
      k == Named(old, Last(c.path))
  IN  IF t.res # "ok" THEN t ELSE IF u.res # "ok" THEN u ELSE IF k = 0 THEN Stop(u, "error")
      ELSE Finish([u EXCEPT !.root = Put(@, Front(c.path), RemoveChild(old, k))], GetSize(c, 0))

\* processChildren of a copy, in its order: [ref, uid, meta] with the path and a fresh
\* id for r and all below it.
RECURSIVE CopyChildren(_, _, _, _)
CopyChildren(r, p, uid, meta) ==
  LET id == GetSHA1Uuid(uid, r.name)
      Step(a, child) ==
        LET b == CopyChildren(child, Append(p, child.name), a.uid, a.meta)
        IN  [ref |-> [a.ref EXCEPT !.children = Append(@, b.ref)], uid |-> b.uid, meta |-> b.meta]
  IN  FoldLeft(Step, [ref |-> [r EXCEPT !.path = p, !.id = id, !.compute = TRUE, !.children = <<>>],
                      uid |-> id, meta |-> (p :> id) @@ meta], r.children)

CopyFileChange(s, c) ==
  LET t == Reach(s, "copy", c.to)
      copied == CopyChildren(c.tree, Target(c), t.uid, t.meta)
  IN  IF t.res # "ok" THEN t
      ELSE Finish([t EXCEPT !.root = Put(@, c.to, AddChild(At(@, c.to), copied.ref)),
                            !.meta = copied.meta], GetSize(c, 0))

DirCreateChange(s, c) == LET t == Reach(s, "mkdir", c.path) IN IF t.res # "ok" THEN t ELSE Finish(t, GetSize(c, 0))

ProcessChange(s, c) ==
  LET t == [s EXCEPT !.uid = c.uid]
  IN  CASE s.res # "ok" -> s
        [] s.res = "ok" /\ c.kind = "new" -> NewFileChange(t, c)
        [] s.res = "ok" /\ c.kind = "update" -> UpdateFileChange(t, c)
        [] s.res = "ok" /\ c.kind = "delete" -> DeleteFileChange(t, c)
        [] s.res = "ok" /\ c.kind = "rename" -> RenameFileChange(t, c)
        [] s.res = "ok" /\ c.kind = "move" -> MoveFileChange(t, c)
        [] s.res = "ok" /\ c.kind = "copy" -> CopyFileChange(t, c)
        [] s.res = "ok" /\ c.kind = "mkdir" -> DirCreateChange(t, c)

GetAffectedPath(c) ==
  CASE c.kind = "move" -> {c.to, Front(c.path)}
    [] c.kind = "copy" -> {c.to}
    [] OTHER -> {c.path}

-----------------------------------------------------------------------------
(* processCommit                                                           *)

Init ==
  /\ disk \in Trees
  /\ wm = [root |-> IF DOMAIN disk = {<<>>} THEN <<>> ELSE RefHash(disk, <<>>), size |-> SizeOf(disk, <<>>)]
  /\ changes = <<>> /\ ops = 0 /\ result = "none" /\ clashed = FALSE

Touched(o) == {o.path, Target(o)}
Independent(o, p) == \A x \in Touched(o), y \in Touched(p) : ~IsPrefix(x, y) /\ ~IsPrefix(y, x)
\* DoMultiOperation ends a batch before an operation on the path, or a parent of the path,
\* of one in it; the destinations of copies and moves are not looked at.
Conflict(o) == \E k \in DOMAIN changes : IsPrefix(o.path, changes[k].path)

Operation(kind, path, to, name, size) ==
  [kind |-> kind, path |-> path, to |-> to, name |-> name, size |-> size]
Below == Paths \ {<<>>}
Operations ==
  {o \in {Operation(k, p, <<>>, 0, 2) : k \in {"new", "update"}, p \in Below}
         \cup {Operation("mkdir", p, <<>>, 0, 0) : p \in Below}
         \cup {Operation("delete", p, <<>>, 0, 0) : p \in Paths}
         \cup {Operation("rename", p, <<>>, n, 0) : p \in Below, n \in Names}
         \cup {Operation(k, p, to, 0, 0) : k \in {"move", "copy"}, p \in Below, to \in Paths} :
     Len(Target(o)) <= MaxDepth}

\* The blobber accepts the request of an operation, and the object tree it returns is
\* kept with the change.  uuid.New() gives each operation an id of its own.
Stage ==
  /\ result \in {"none", "committed"} /\ ops < MaxOps
  /\ \E o \in Operations :
       /\ Accepts(o, disk) /\ ~Conflict(o)
       /\ clashed' = (\/ clashed
                      \/ o.kind = "rename" /\ disk[o.path].type = "d"
                      \/ \E k \in DOMAIN changes : ~Independent(o, changes[k]))
       /\ changes' = Append(changes,
            o @@ [uid |-> <<ops + 1>>,
                  tree |-> IF o.path \in DOMAIN disk THEN GetRefFromObjectTree(disk, o.path) ELSE <<>>])
  /\ ops' = ops + 1
  /\ UNCHANGED <<disk, wm, result>>

\* The reference path, its root against the latest write marker, the changes, and the
\* new root against the blobber's.
processCommit ==
  /\ changes # <<>>
  /\ \E ref \in {CalculateHash(GetDirTree(disk, UNION {GetAffectedPath(changes[k]) : k \in DOMAIN changes}))} :
     \E end \in {FoldLeft(ProcessChange, [root |-> ref, meta |-> <<>>, size |-> 0, res |-> "ok", uid |-> NoId],
                         changes)} :
     \E after \in {IF end.res = "ok" THEN FoldLeft(LAMBDA d, c : Apply(c, d, end.meta), disk, changes) ELSE disk} :
       /\ result' = IF wm.root # <<>> /\ ref.hash # wm.root THEN "root_mismatch"
                    ELSE IF end.res # "ok" THEN end.res
                    ELSE IF end.root.hash # RefHash(after, <<>>) THEN "refused" ELSE "committed"
       /\ IF result' = "committed"
            THEN disk' = after /\ wm' = [root |-> end.root.hash, size |-> wm.size + end.size]
            ELSE UNCHANGED <<disk, wm>>
  /\ changes' = <<>> /\ UNCHANGED <<ops, clashed>>

Next == Stage \/ processCommit
Spec == Init /\ [][Next]_vars
-----------------------------------------------------------------------------
(* Properties                                                              *)

\* The blobber's tree is a tree and the client has not lost track of the commits.
TypeOK ==
  /\ IsDir(disk, <<>>)
  /\ \A p \in DOMAIN disk : /\ p \in Paths
                            /\ p # <<>> => IsDir(disk, Front(p))
                            /\ disk[p].type \in {"f", "d"} /\ disk[p].size \in Nat
  /\ wm.size \in Nat /\ Len(changes) <= ops /\ ops <= MaxOps /\ clashed \in BOOLEAN
  /\ result \in {"none", "committed", "root_mismatch", "refused", "error", "panic"}

\* The root the client computes from a partial tree, with the hashes it kept and the
\* ids it chose, is the one the blobber computes over its whole tree: no commit of
\* accepted operations is refused, by the client (commitworker.go:162) or the blobber,
\* unless operations of the batch touch the same objects, which a copy or a move to a
\* path an earlier one created does, or a directory is renamed, which panics.
CommitAccepted == ~clashed => result \in {"none", "committed"}

\* The sizes signed so far (GetSize of every change) add up to what the blobber stores,
\* which is what the allocation is charged for.
SizeAgrees == ~clashed => wm.size = SizeOf(disk, <<>>)

\* No two objects share an id: the chains of GetSHA1Uuid that new, copy and mkdir
\* derive ids from never repeat one.  (A directory a move creates has none.)
DistinctIds == \A p, q \in DOMAIN disk : p # q /\ disk[p].id # NoId => disk[p].id # disk[q].id
=============================================================================
