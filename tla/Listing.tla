------------------------------- MODULE Listing -------------------------------
(***************************************************************************)
(* The read-only requests that ask every blobber about one directory and   *)
(* take what enough of them agree on: ListDir ("list"), ListDir for a      *)
(* repair ("repair"), ListDirFromAuthTicket ("ticket"), GetRefs ("refs"),  *)
(* GetRecentlyAddedRefs ("recent") and the file meta consensus ("meta").   *)
(*                                                                         *)
(* The requests run while writers of this SDK, one at a time, check the    *)
(* allocation, commit on the blobbers one by one and roll back what missed *)
(* the consensus.  AllocCommit has the detail of those steps; here each of *)
(* CheckAllocStatus, its rollback and the repair it asks for is one step.  *)
(* Write w puts or deletes one child, and w stands for the FileMetaHash of *)
(* what it puts.  Sizes, masks and pages are left out: a page is the       *)
(* directory.                                                              *)
(***************************************************************************)
EXTENDS Integers, FiniteSets

CONSTANTS
  Blobbers,     \* a.Blobbers
  DataShards, ParityShards,
  Names,        \* children of the directory
  Requests,        \* the kinds of requests made
  MaxWrites,    \* bound: writes attempted, one fewer for each fault
  MaxFaults     \* bound: blobbers that do not answer a request, a check or a commit

Full == DataShards + ParityShards   \* fullconsensus
Kinds == {"list", "repair", "ticket", "refs", "recent", "meta"}
Numbers == 1 .. MaxWrites

ASSUME ListingConstants ==
  /\ IsFiniteSet(Blobbers) /\ Cardinality(Blobbers) = Full
  /\ DataShards \in Nat \ {0} /\ ParityShards \in Nat
  /\ Requests \subseteq Kinds /\ MaxWrites \in Nat /\ MaxFaults \in Nat

VARIABLES
  view,     \* view[b][n]: the write that last put or deleted child n on blobber b
  before,   \* the view a rollback of b restores
  stamp,    \* the timestamp of the latest write marker of b, 0 for no marker
  phase,    \* the writer: "idle", "commit", "undo"
  gone,     \* the writes that delete
  write,    \* the last write
  child,    \* its child
  done,     \* the blobbers whose commit of it was heard (rollbackMask)
  todo,     \* those the writer has still to roll back
  acked,    \* history: the writes that completed, with their child
  loose,    \* history: a commit was not heard, a rollback failed, a marker was not read
  op,       \* the request that runs, "none" between requests
  arrived,  \* the blobbers whose answers arrived
  reply,    \* the answers the request looked at
  atStart,  \* history: acked when the request started
  faults

commitVars == <<view, before, stamp, phase, gone, write, child, done, todo, acked, loose>>
requestVars == <<op, arrived, reply, atStart>>
listingVars == <<view, before, stamp, phase, gone, write, child, done, todo, acked, loose,
                 op, arrived, reply, atStart, faults>>

\* getConsensuses.
consensusThreshold == IF ParityShards = 0 THEN DataShards ELSE DataShards + 1
\* Mutant: every request is content with DataShards answers.
ThreshOfData(o) == DataShards
\* consensusThresh of a request.
Thresh(o) == IF o \in {"list", "repair"} THEN DataShards ELSE consensusThreshold

NoView == [n \in Names |-> 0]
Silent == [err |-> "network", kids |-> {}]
ListingInit ==
  /\ view = [b \in Blobbers |-> NoView] /\ before = [b \in Blobbers |-> NoView]
  /\ stamp = [b \in Blobbers |-> 0]
  /\ phase = "idle" /\ gone = {} /\ write = 0 /\ child \in Names
  /\ done = {} /\ todo = {} /\ acked = {} /\ loose = FALSE
  /\ op = "none" /\ arrived = {} /\ reply = [b \in Blobbers |-> Silent] /\ atStart = {}
  /\ faults = 0

Faults(n) ==
  faults' = faults + n /\ faults' <= MaxFaults /\ (n > 0 => write + faults' <= MaxWrites)
\* The children blobber b has, each with its version: the tree behind FileMetaRoot.
Kids(b) == {<<n, view[b][n]>> : n \in {m \in Names : view[b][m] \notin gone \cup {0}}}

-----------------------------------------------------------------------------
(* CheckAllocStatus, before a write: S are the blobbers whose markers were read *)

Marked(S) == {b \in S : stamp[b] > 0}
VersionMap(S, v) == {b \in Marked(S) : Kids(b) = v}
Count(S, v) == Cardinality(VersionMap(S, v))
\* The blobber that made its version the latest one, and the one that made prevVersion:
\* itself if it answered first, or one with an older marker.
Newest(S) == {b \in Marked(S) : \A c \in Marked(S) : stamp[c] <= stamp[b]}
Older(S, b) == {b} \cup (Marked(S) \ Newest(S))

SeesCommit(S, b) ==
  Cardinality({Kids(c) : c \in Marked(S)}) < 2 \/ Count(S, Kids(b)) > DataShards
SeesRepair(S, b, c) ==
  \/ Count(S, Kids(b)) >= DataShards \/ Count(S, Kids(c)) >= DataShards
  \/ Cardinality({Kids(d) : d \in Marked(S)}) > 2

\* Too many markers that cannot be read end the write.
Read(S) ==
  /\ Faults(Cardinality(Blobbers \ S)) /\ write' + faults' <= MaxWrites
  /\ ParityShards > 0 => Cardinality(Blobbers \ S) <= ParityShards
  /\ loose' = (loose \/ S # Blobbers)

\* The writer holds the lock and starts a write.  What it deletes is there.
Begins == phase = "idle" /\ write + faults < MaxWrites /\ write' = write + 1 /\ done' = {}

Write(S, n) ==
  /\ Begins /\ Read(S)
  /\ Marked(S) = {} \/ \E b \in Newest(S) : SeesCommit(S, b)
  /\ phase' = "commit" /\ child' = n
  /\ \/ gone' = gone
     \/ gone' = gone \cup {write'} /\ \E b \in Blobbers, w \in Numbers : <<n, w>> \in Kids(b)
  /\ UNCHANGED <<view, before, stamp, todo, acked, requestVars>>

\* The blobbers of the latest version are put back to what they had before.
RolledBack(B) == view' = [b \in Blobbers |-> IF b \in B THEN before[b] ELSE view[b]]
CheckRollsBack(S) ==
  /\ Begins /\ Read(S)
  /\ \E b \in Newest(S) : \E c \in Older(S, b) :
       /\ ~SeesCommit(S, b) /\ ~SeesRepair(S, b, c)
       /\ \E R \in SUBSET VersionMap(S, Kids(b)) :
            RolledBack(R)
  /\ UNCHANGED <<before, stamp, phase, gone, child, todo, acked, requestVars>>

\* The repair of the children M: each gets the version that DataShards blobbers have (the
\* first of them in their order), and is deleted where it is if none has.
Holders(c) == {b \in Blobbers : c \in Kids(b)}
Repaired(n, v) ==
  IF v = 0 THEN \A w \in Numbers : Cardinality(Holders(<<n, w>>)) < DataShards
  ELSE Cardinality(Holders(<<n, v>>)) >= DataShards
CheckRepairs(S) ==
  /\ Begins /\ Read(S)
  /\ \E b \in Newest(S) : \E c \in Older(S, b) : ~SeesCommit(S, b) /\ SeesRepair(S, b, c)
  /\ \E M \in SUBSET Names, to \in [Names -> 0 .. MaxWrites] :
       /\ \A n \in M : Repaired(n, to[n])
       /\ \A n \in Names \ M : to[n] = 0
       /\ view' = [b \in Blobbers |->
                     [n \in Names |-> IF n \in M THEN to[n] ELSE view[b][n]]]
       /\ before' = [b \in Blobbers |-> IF view'[b] = view[b] THEN before[b] ELSE view[b]]
       /\ stamp' = [b \in Blobbers |-> IF view'[b] = view[b] THEN stamp[b] ELSE write']
  /\ UNCHANGED <<phase, gone, child, todo, acked, requestVars>>

-----------------------------------------------------------------------------
(* MultiOperation.Process: the commit and RollbackWithMask                 *)

Applied(b) ==
  /\ view' = [view EXCEPT ![b] = [@ EXCEPT ![child] = write]]
  /\ before' = [before EXCEPT ![b] = view[b]]
  /\ stamp' = [stamp EXCEPT ![b] = write]

\* A blobber takes the commit, and the writer hears of it or does not.
Commit(b) ==
  /\ phase = "commit" /\ stamp[b] # write
  /\ Applied(b)
  /\ done' = done \cup {b}
  /\ UNCHANGED <<phase, gone, write, child, todo, acked, loose, requestVars, faults>>
CommitUnheard(b) ==
  /\ phase = "commit" /\ stamp[b] # write
  /\ Applied(b) /\ Faults(1) /\ loose' = TRUE
  /\ UNCHANGED <<phase, gone, write, child, done, todo, acked, requestVars>>

\* The commit goroutines ended: what is not committed by now failed.
isConsensusOk == Cardinality(done) >= consensusThreshold
Finish ==
  /\ phase = "commit"
  /\ IF isConsensusOk
       THEN /\ acked' = acked \cup {<<child, write>>}
            /\ phase' = "idle" /\ UNCHANGED todo
       ELSE phase' = "undo" /\ todo' = done /\ UNCHANGED acked
  /\ UNCHANGED <<view, before, stamp, gone, write, child, done, loose, requestVars, faults>>

Undo(b) ==
  /\ phase = "undo" /\ b \in todo
  /\ RolledBack({b}) /\ todo' = todo \ {b}
  /\ UNCHANGED <<before, stamp, phase, gone, write, child, done, acked, loose, requestVars,
                 faults>>

\* Process returns its error; the rollbacks that failed are not tried again.
UndoEnds ==
  /\ phase = "undo" /\ Faults(Cardinality(todo))
  /\ loose' = (loose \/ todo # {})
  /\ phase' = "idle" /\ todo' = {}
  /\ UNCHANGED <<view, before, stamp, gone, write, child, done, acked, requestVars>>

-----------------------------------------------------------------------------
(* The goroutines of a request: one per blobber                            *)

Good(B) == {b \in B : reply[b].err = "none"}
Bad(B) == {b \in B : reply[b].err # "none"}
\* GetListFromBlobbers stops at the answer that makes the consensus, except for a repair;
\* the other requests look at every answer.
Enough == op \in {"list", "ticket"} /\ Cardinality(Good(arrived)) >= Thresh(op)
Unlooked == [err |-> "unlooked", kids |-> {}]
Arrives(b, answer) ==
  /\ op # "none" /\ b \notin arrived
  /\ arrived' = arrived \cup {b}
  /\ reply' = [reply EXCEPT ![b] = IF Enough THEN Unlooked ELSE answer]
  /\ UNCHANGED <<commitVars, op, atStart>>

\* A blobber that has nothing of the directory answers invalid_path, one that is down
\* gives an error of its own.
Answer(b) ==
  /\ Arrives(b, [err |-> IF Kids(b) = {} THEN "invalid_path" ELSE "none", kids |-> Kids(b)])
  /\ UNCHANGED faults
NoAnswer(b) == Arrives(b, Silent) /\ Faults(1)

-----------------------------------------------------------------------------
(* GetListFromBlobbers                                                     *)

Counted == {b \in arrived : reply[b] # Unlooked}

\* childResult.consensus.
Voters(B, c) == {b \in B : c \in reply[b].kids}
Candidates(B) == UNION {reply[b].kids : b \in B}

\* populateChildren: the versions with a consensus.
populateChildren(B, o) == {c \in Candidates(B) : Cardinality(Voters(B, c)) >= Thresh(o)}

\* For a repair: the children that some blobber lacks.
NotOnAll(B) == {c \in Candidates(B) : Cardinality(Voters(B, c)) < Full}

Returns(o, kids) == [op |-> o, err |-> FALSE, kids |-> kids]
Fails(o) == [op |-> o, err |-> TRUE, kids |-> {}]

GetListFromBlobbers(o) ==
  LET B == Counted
  IN  IF o = "repair" THEN Returns(o, NotOnAll(B))
      ELSE IF Cardinality(Bad(B)) >= Thresh(o) THEN Fails(o)
      ELSE Returns(o, populateChildren(B, o))

-----------------------------------------------------------------------------
(* GetRefs, GetRecentlyAddedRefs, getFileConsensusFromBlobbers             *)

\* The pages that enough blobbers agree on.
Agreeing(p) == {b \in Good(arrived) : reply[b].kids = p}
Pages(o) ==
  {p \in {reply[b].kids : b \in Good(arrived)} : Cardinality(Agreeing(p)) >= Thresh(o)}
OfPages(o) == IF Pages(o) = {} THEN {Fails(o)} ELSE {Returns(o, p) : p \in Pages(o)}

\* MajorError counts equal errors, but each is a value of its own: any may be the one.
GetRefs(o) ==
  {r \in OfPages(o) \cup {Returns(o, {})} :
     IF r = Returns(o, {}) THEN \E b \in arrived : reply[b].err = "invalid_path"
     ELSE Bad(arrived) = {} \/ \E b \in arrived : reply[b].err = "network"}

\* The meta data of one child: the first version with a consensus, in the order of the
\* blobbers, which is any of those that have one.
getFileConsensus(o, n) ==
  LET selected == {c \in populateChildren(arrived, o) : c[1] = n}
  IN  IF selected = {} THEN {Fails(o)} ELSE {Returns(o, {c}) : c \in selected}

Results(o) ==
  CASE o \in {"list", "ticket", "repair"} -> {GetListFromBlobbers(o)}
    [] o = "refs" -> GetRefs(o)
    [] o = "recent" -> OfPages(o)
    [] o = "meta" -> UNION {getFileConsensus(o, n) : n \in Names}

-----------------------------------------------------------------------------

Start(o) ==
  /\ op = "none" /\ op' = o /\ atStart' = acked
  /\ UNCHANGED <<commitVars, arrived, reply, faults>>

\* wg.Wait() is over: the request returns one of Results(op).
Answered == op # "none" /\ arrived = Blobbers
Return ==
  /\ Answered /\ Results(op) # {}
  /\ op' = "none" /\ arrived' = {} /\ reply' = [b \in Blobbers |-> Silent] /\ atStart' = {}
  /\ UNCHANGED <<commitVars, faults>>

ListingNext ==
  \/ \E S \in SUBSET Blobbers :
       (\E n \in Names : Write(S, n)) \/ CheckRollsBack(S) \/ CheckRepairs(S)
  \/ \E b \in Blobbers :
       Commit(b) \/ CommitUnheard(b) \/ Undo(b) \/ Answer(b) \/ NoAnswer(b)
  \/ Finish \/ UndoEnds \/ Return
  \/ \E o \in Requests : Start(o)
ListingSpec == ListingInit /\ [][ListingNext]_listingVars

-----------------------------------------------------------------------------
(* Properties                                                              *)

ListingTypeOK ==
  /\ view \in [Blobbers -> [Names -> 0 .. MaxWrites]]
  /\ before \in [Blobbers -> [Names -> 0 .. MaxWrites]]
  /\ stamp \in [Blobbers -> 0 .. MaxWrites]
  /\ phase \in {"idle", "commit", "undo"} /\ gone \subseteq Numbers
  /\ write \in 0 .. MaxWrites /\ (phase # "idle" => write > 0) /\ child \in Names
  /\ done \subseteq Blobbers /\ todo \subseteq done
  /\ acked \subseteq Names \X Numbers /\ atStart \subseteq acked /\ loose \in BOOLEAN
  /\ op \in Kinds \cup {"none"} /\ arrived \subseteq Blobbers /\ faults \in 0 .. MaxFaults
  /\ reply \in [Blobbers -> [err : {"none", "network", "invalid_path", "unlooked"},
                             kids : SUBSET (Names \X Numbers)]]


\* Every request but ListDir returns only what will not be rolled back: a version whose
\* write completed or has its consensus already, with the same exceptions.  (ListDir is
\* content with DataShards blobbers, the commit is not: it may show what is then undone.)
NoDirtyReads ==
  Answered /\ op \notin {"list", "repair"} /\ ~loose =>
    \A r \in Results(op) : \A c \in r.kids :
      c \in acked \/ (c = <<child, write>> /\ isConsensusOk)

=============================================================================
