-------------------------------- MODULE Sync --------------------------------
(***************************************************************************)
(* Synchronising a local folder with a remote one (sync.go): an            *)
(* application calls GetAllocationDiff, carries the operations out one     *)
(* after the other and calls SaveRemoteSnapshot, while the user edits the  *)
(* local folder and other clients edit the allocation.                     *)
(*                                                                         *)
(* A path is a sequence of names; the version of a file stands for its     *)
(* hash, 0 when it is not there, directories have version 1.  Filters,     *)
(* excluded paths and sizes are left out, the walk over the local folder   *)
(* is one step.                                                            *)
(***************************************************************************)
EXTENDS Integers, Sequences, FiniteSets, SequencesExt

CONSTANTS
  Dirs, Files,   \* remote paths
  RemotePath,    \* the remote folder, <<>> for "/"
  MaxEdits,      \* bound: edits of the user and of other clients
  MaxOutages     \* bound: lists that are returned empty, local paths that cannot be
                 \* read, snapshots that cannot be written

Below(p, d) == IsPrefix(d, p)
Remote == Dirs \cup Files
Strip(p) == SubSeq(p, Len(RemotePath) + 1, Len(p))
Abs(q) == RemotePath \o q
Synced == {p \in Remote : Below(p, RemotePath) /\ p # RemotePath}
Paths == {Strip(p) : p \in Synced}          \* paths of the local folder
Keys == Remote \cup Paths                   \* keys of the maps

ASSUME SyncConstants ==
  /\ Dirs \cap Files = {} /\ IsFiniteSet(Remote)
  /\ \A p \in Remote : p \in Seq(Nat) /\ Len(p) > 0 /\ \A n \in 1 .. Len(p)-1 : SubSeq(p, 1, n) \in Dirs
  /\ RemotePath \in Dirs \cup {<<>>} /\ MaxEdits \in Nat /\ MaxOutages \in Nat

VARIABLES
  remote, local,  \* the two folders
  prev, corrupt,  \* the snapshot that SaveRemoteSnapshot wrote; it is not valid JSON
  pc,             \* of the application: "idle", "diff", "save", "apply"
  rMap, queue,    \* of GetRemoteFileMap: what it has found, the directories to list
  diff,           \* the operations that are left; their order is that of the paths
  edits, outages,
  base,           \* history: the local folder and the remote one at the last snapshot, the
                  \* conflicts of that sync, and whether it was calm
  at,             \* history: when the difference was made, the files that one side had
                  \* deleted since the snapshot and the other had left alone, and the
                  \* conflicts
  calm            \* history: since GetAllocationDiff was called nothing was edited,
                  \* no list was short and no local path unreadable

folders == <<remote, local, edits>>
syncVars == <<remote, local, prev, corrupt, pc, rMap, queue, diff, edits, outages, base, at,
              calm>>
snapshot == <<prev, corrupt>>

Nothing == [k \in Keys |-> 0]
NoBase == LET none == [q \in Paths |-> 0]
          IN  [local |-> none, remote |-> none, conflicts |-> {}, calm |-> FALSE]
SyncInit ==
  /\ remote = [p \in Remote |-> 0] /\ local = [q \in Paths |-> 0]
  /\ prev = Nothing /\ corrupt = FALSE /\ pc = "idle" /\ rMap = Nothing /\ queue = <<>> /\ diff = {}
  /\ edits = 0 /\ outages = 0
  /\ base = NoBase /\ at = [deleted |-> {}, conflicts |-> {}]
  /\ calm = TRUE

-----------------------------------------------------------------------------
(* The two folders (external)                                              *)

\* The directories above a path are made with it.
With(t, p, v) == [x \in DOMAIN t |-> IF x = p THEN v ELSE IF Below(p, x) THEN 1 ELSE t[x]]
Without(t, p) == [x \in DOMAIN t |-> IF Below(x, p) THEN 0 ELSE t[x]]

Edit ==
  /\ edits < MaxEdits /\ edits' = edits + 1 /\ calm' = FALSE
  /\ UNCHANGED <<snapshot, pc, rMap, queue, diff, outages, base, at>>

EditLocal ==
  /\ Edit /\ UNCHANGED remote
  /\ \E q \in Paths :
       \/ Abs(q) \in Files /\ local' = With(local, q, edits + 1)
       \/ local[q] # 0 /\ local' = Without(local, q)
EditRemote ==
  /\ Edit /\ UNCHANGED local
  /\ \E p \in Remote :
       \/ remote' = With(remote, p, IF p \in Files THEN edits + 1 ELSE 1)
       \/ remote[p] # 0 /\ remote' = Without(remote, p)

-----------------------------------------------------------------------------
(* GetRemoteFileMap                                                        *)

Children(d) == {p \in Remote : remote[p] # 0 /\ p # d /\ Below(p, d) /\ Len(p) = Len(d) + 1}

\* The directory is not there: the error of ListDir ends the call.
ListDirFails ==
  /\ queue # <<>> /\ Head(queue) \in Dirs /\ remote[Head(queue)] = 0
  /\ pc' = "idle" /\ queue' = <<>>
  /\ UNCHANGED <<folders, snapshot, rMap, diff, outages, base, at, calm>>

\* The keys are relative to the folder that is listed.
Relative(p) == IF pc = "save" THEN p ELSE Strip(p)
ListDir ==
  /\ queue # <<>>
  /\ Head(queue) \in Dirs => remote[Head(queue)] # 0
  /\ LET kids == Children(Head(queue))
     IN  /\ rMap' = [k \in Keys |-> LET from == {p \in kids : Relative(p) = k}
                                    IN  IF from = {} THEN rMap[k]
                                        ELSE remote[CHOOSE p \in from : TRUE]]
         /\ queue' = Tail(queue) \o SetToSeq(kids \cap Dirs)
  /\ UNCHANGED <<folders, snapshot, pc, diff, outages, base, at, calm>>

\* Too few blobbers answer: GetListFromBlobbers returns a directory without children.
ListDirEmpty ==
  /\ queue # <<>> /\ outages < MaxOutages /\ outages' = outages + 1
  /\ queue' = Tail(queue) /\ calm' = FALSE
  /\ UNCHANGED <<folders, snapshot, pc, rMap, diff, base, at>>

-----------------------------------------------------------------------------
(* findDelta                                                               *)

In(t) == {x \in DOMAIN t : t[x] # 0}
rMod(r, p) == {x \in In(r) \cap In(p) : p[x] # r[x]}
\* "Local file existed in previous sync also": the map that is looked up is the remote one.
lMod(r, l) == {x \in In(l) \cap In(r) : r[x] # l[x]}

IsDir(x) == Abs(x) \in Dirs
Conflicts(r, l, p) == lMod(r, l) \cap rMod(r, p)
Updates(r, l, p) == lMod(r, l) \ rMod(r, p)
\* Mutant: a file that was deleted locally is left alone.
DeletesNone(r, l, p) == {}
\* Mutant: a file that is not modified is deleted although it is there.
DeletesUnmodified(r, l, p) == (In(r) \ lMod(r, l)) \cap In(p)
Deletes(r, l, p) == (In(r) \ In(l)) \cap In(p)
\* Mutant: new files of other clients are left out.
DownloadsNone(r, l, p) == {}
Downloads(r, l, p) == (In(r) \ In(l)) \ In(p)
LocalDeletes(r, l, p) == (In(l) \ In(r)) \cap In(p)
Uploads(r, l, p) == (In(l) \ In(r)) \ In(p)

\* isParentFolderExists: what is below a path that is deleted goes with it.
Topmost(S) == {x \in S : ~ \E d \in S : d # x /\ Below(x, d)}

\* Only files but for the deletions.
findDelta(r, l, p) ==
  LET del == Topmost(Deletes(r, l, p) \cup LocalDeletes(r, l, p))
      files(S) == {x \in S : ~IsDir(x)}
      ops(S, o) == {[op |-> o, path |-> x] : x \in S}
  IN  ops(files(Conflicts(r, l, p)), "Conflict")
      \cup ops(files(Updates(r, l, p)), "Update")
      \cup ops(files(Downloads(r, l, p)), "Download")
      \cup ops(files(Uploads(r, l, p)), "Upload")
      \cup ops(del \cap Deletes(r, l, p), "Delete")
      \cup ops(del \cap LocalDeletes(r, l, p), "LocalDelete")

-----------------------------------------------------------------------------
(* GetAllocationDiff, the application and SaveRemoteSnapshot               *)

GetAllocationDiff ==
  /\ pc = "idle" /\ ~corrupt /\ pc' = "diff"
  /\ rMap' = Nothing /\ queue' = <<RemotePath>> /\ calm' = TRUE
  /\ UNCHANGED <<folders, snapshot, diff, outages, base, at>>

\* "invalid cache content", at every call until the user removes the file (external).
InvalidCache ==
  /\ pc = "idle" /\ corrupt /\ corrupt' = FALSE
  /\ UNCHANGED <<folders, prev, pc, rMap, queue, diff, outages, base, at, calm>>

\* The walk leaves out the paths U that cannot be read, with what is below them.
getLocalFileMap(U) == [q \in Paths |-> IF \E u \in U : Below(q, u) THEN 0 ELSE local[q]]
Outages(n) == outages' = outages + n /\ outages' <= MaxOutages
RemoteFolder == [q \in Paths |-> remote[Abs(q)]]

\* The remote list is complete: the walk over the local folder, and the difference.
GetDiff ==
  /\ pc = "diff" /\ queue = <<>>
  /\ \E U \in SUBSET ({<<>>} \cup In(local)) :
       LET rel(t) == [q \in Paths |-> t[q]]
       IN  /\ Outages(Cardinality(U)) /\ calm' = (calm /\ U = {})
           /\ diff' = findDelta(rel(rMap), getLocalFileMap(U), rel(prev))
  /\ at' = [deleted |-> {q \in Paths : /\ ~IsDir(q) /\ base.local[q] # 0
                                      /\ base.local[q] = base.remote[q]
                                      /\ {local[q], RemoteFolder[q]} = {0, base.local[q]}},
            conflicts |-> {x.path : x \in {y \in diff' : y.op = "Conflict"}}]
  /\ pc' = "apply"
  /\ UNCHANGED <<folders, snapshot, rMap, queue, base>>

\* log.Fatal: the process ends.
calcFileHashFails ==
  /\ pc = "diff" /\ queue = <<>> /\ \E q \in In(local) : ~IsDir(q)
  /\ Outages(1) /\ pc' = "idle"
  /\ UNCHANGED <<folders, snapshot, rMap, queue, diff, base, at, calm>>

\* The order in which the operations are sorted.
Before(a, b) ==
  \/ IsPrefix(a, b) /\ a # b
  \/ \E i \in 1 .. Len(a) : i <= Len(b) /\ a[i] < b[i] /\ \A j \in 1 .. i - 1 : a[j] = b[j]

\* The application (external) carries out the first operation; a conflict is left to the
\* user.
Perform(o, q) ==
  \/ /\ o = "Download" /\ remote[Abs(q)] # 0
     /\ local' = With(local, q, remote[Abs(q)]) /\ UNCHANGED remote
  \/ /\ o \in {"Upload", "Update"} /\ local[q] # 0
     /\ remote' = With(remote, Abs(q), local[q]) /\ UNCHANGED local
  \/ o = "Delete" /\ remote' = Without(remote, Abs(q)) /\ UNCHANGED local
  \/ o = "LocalDelete" /\ local' = Without(local, q) /\ UNCHANGED remote
  \/ /\ \/ o = "Conflict"
        \/ o = "Download" /\ remote[Abs(q)] = 0
        \/ o \in {"Upload", "Update"} /\ local[q] = 0
     /\ UNCHANGED <<local, remote>>
Apply ==
  /\ pc = "apply"
  /\ \E x \in diff :
       /\ \A y \in diff : ~Before(y.path, x.path)
       /\ Perform(x.op, x.path)
       /\ diff' = diff \ {x}
  /\ UNCHANGED <<snapshot, pc, rMap, queue, edits, outages, base, at, calm>>

SaveRemoteSnapshot ==
  /\ pc = "apply" /\ diff = {} /\ pc' = "save"
  /\ rMap' = Nothing /\ queue' = << <<>> >>
  /\ UNCHANGED <<folders, snapshot, diff, outages, base, at, calm>>

Saved ==
  /\ pc = "save" /\ queue = <<>>
  /\ prev' = rMap
  /\ base' = [local |-> local, remote |-> RemoteFolder, conflicts |-> at.conflicts,
              calm |-> calm]
  /\ pc' = "idle"
  /\ UNCHANGED <<folders, corrupt, rMap, queue, diff, outages, at, calm>>

\* The old snapshot cannot be removed and stays, or the new one is not written after that,
\* or only in part.
SaveFails ==
  /\ pc = "save" /\ queue = <<>> /\ Outages(1) /\ pc' = "idle"
  /\ \/ UNCHANGED <<prev, corrupt, base>>
     \/ prev' = Nothing /\ base' = NoBase /\ corrupt' \in BOOLEAN
  /\ UNCHANGED <<folders, rMap, queue, diff, at, calm>>

SyncNext ==
  \/ EditLocal \/ EditRemote
  \/ ListDir \/ ListDirFails \/ ListDirEmpty
  \/ GetAllocationDiff \/ InvalidCache \/ GetDiff \/ calcFileHashFails
  \/ Apply \/ SaveRemoteSnapshot \/ Saved \/ SaveFails
SyncSpec == SyncInit /\ [][SyncNext]_syncVars

-----------------------------------------------------------------------------
(* Properties                                                              *)

SyncTypeOK ==
  /\ remote \in [Remote -> 0 .. MaxEdits + 1] /\ local \in [Paths -> 0 .. MaxEdits + 1]
  /\ prev \in [Keys -> 0 .. MaxEdits + 1] /\ rMap \in [Keys -> 0 .. MaxEdits + 1]
  /\ corrupt \in BOOLEAN
  /\ pc \in {"idle", "diff", "save", "apply"} /\ queue \in Seq(Dirs \cup {<<>>})
  /\ \A x, y \in diff : x.path = y.path => x = y

\* When nothing is edited during a sync and its lists are complete, the operations that the
\* difference lists make the files of the two folders equal, but for the ones it calls
\* conflicts: whatever was written, deleted and made again on both sides before, and however
\* short earlier lists fell or the snapshot was kept or lost (sync.go:187-290, 356-371).
Done == pc = "save" /\ calm
Converges == Done => \A q \in Paths : IsDir(q) \/ local[q] = remote[Abs(q)] \/ q \in at.conflicts

\* A file that one side deleted since the last snapshot and the other side left alone is
\* deleted on both, when every list and snapshot so far was complete (sync.go:235-243,
\* 253-255).
DeletionsPropagate ==
  Done /\ outages = 0 => \A q \in at.deleted : local[q] = 0 /\ remote[Abs(q)] = 0

\* A sync that is repeated has nothing to do: with both folders as the last one left them,
\* when both were calm, the difference holds only updates of the
\* files that were conflicts then, which the user was to decide, and deletions of remote
\* directories that hold no file and are not there locally (sync.go:187-262, 338-373).
NothingThere(d) ==
  \A q \in Paths : Below(q, d) => local[q] = 0 /\ (IsDir(q) \/ remote[Abs(q)] = 0)
Unchanged == base.calm /\ local = base.local /\ RemoteFolder = base.remote
SecondSyncIsQuiet ==
  [][pc = "diff" /\ pc' = "apply" /\ calm' /\ Unchanged =>
       \A x \in diff' : \/ x.op = "Update" /\ x.path \in base.conflicts
                        \/ x.op = "Delete" /\ NothingThere(x.path)]_syncVars
=============================================================================
