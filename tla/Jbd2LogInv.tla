----------------------------- MODULE Jbd2LogInv -----------------------------
(***************************************************************************)
(* The geometry of the log: where the tail, the head, the transactions of  *)
(* the checkpoint list and the committing transaction stand on the ring of *)
(* blocks, and which transactions they are.  LogInv is the invariant from  *)
(* which Jbd2Log_proof derives that j_free is the distance from the head   *)
(* to the tail and that a flushed log is empty.                            *)
(***************************************************************************)
EXTENDS Jbd2Log

\* The log is a ring of so many blocks.
Ring == Maxlen - 1

\* How many blocks lie from one place of the ring forward to another.
Ahead(a, b) == IF b < a THEN b - a + Ring ELSE b - a

\* A transaction and the block where its part of the log begins.
Place == [tid : Tid, start : LogBlocks]

\* How many transactions lie between a place t and a later place e.
Age(e, t) == TidDistance(e.tid, t.tid)

\* How many blocks lie between them.
Room(e, t) == Ahead(t.start, e.start)

\* Each of those transactions has at least its commit block in the log.
Placed(e, t) == Age(e, t) <= Room(e, t)

\* The place u is not before t on the way to e.
Later(e, t, u) == Age(e, u) <= Age(e, t) /\ Room(e, u) <= Room(e, t)

\* j_tail_sequence and j_tail
TailPlace == [tid |-> journal.tailSeq, start |-> journal.tail]

\* The transaction that the next handle joins.
OpenTid == IF running.state = "none" THEN journal.seq ELSE RunTid

\* The committing transaction or, with none, where the next one will begin.
EndPlace ==
  IF committing.pc = "none" THEN [tid |-> OpenTid, start |-> journal.head]
  ELSE [tid |-> committing.tid, start |-> committing.start]

\* The committing transaction has its commit block.
RecordTaken ==
  \/ committing.pc \in {"update", "forget"}
  \/ mode.async /\ committing.pc \in {"io", "record"}

\* The new tail that the commit has looked up and not yet used.
TailChosen == committing.pc \in {"io", "record", "update"} /\ committing.tail # NoTail

\* The fields of the running and of the committing transaction.
RunningFields == {"state", "out"}
CommitFields == {"pc", "tid", "start", "out", "desc", "wbuf", "tail"}

\* The journal: j_free is any number here, that it is the right one is SpaceInv.
JournalType ==
  [head : LogBlocks, tail : LogBlocks, tailSeq : Tid, free : Int, seq : Tid, commitSeq : Tid,
   flushed : BOOLEAN]

\* Types, as far as the rest of the invariant needs them; every value that the
\* superblock may have on the disk names a transaction.
LogType ==
  /\ journal \in JournalType
  /\ running = [f \in RunningFields |-> running[f]]
  /\ committing = [f \in CommitFields |-> committing[f]]
  /\ checkpoint \in Seq(Place)
  /\ \A v \in Values(sb) : v.seq \in Tid

\* j_free is what the ring has outside the log, the place where the last
\* transaction begins lies between the tail and the head, and a log whose tail is
\* the open transaction has no blocks.
SpaceInv ==
  /\ journal.free = Ring - Ahead(journal.tail, journal.head)
  /\ Ahead(journal.tail, journal.head) = Room(EndPlace, TailPlace) + Ahead(EndPlace.start, journal.head)
  /\ Placed(EndPlace, TailPlace)
  /\ committing.pc = "none" /\ Age(EndPlace, TailPlace) = 0 => journal.head = journal.tail

\* jbd2_journal_commit_transaction() runs once at a time, on the transaction before
\* the open one; with its commit block it has a block of its own.
CommitInv ==
  /\ running.state = "locked" => committing.pc = "none"
  /\ committing.pc # "none" =>
       /\ committing.tid \in Tid /\ committing.start \in LogBlocks
       /\ OpenTid = TidPlus(committing.tid, 1)
       /\ RecordTaken => committing.start # journal.head

\* JBD2_FLUSHED: nothing commits, and the tail is the open transaction.
FlushedInv ==
  journal.flushed => /\ committing.pc = "none" /\ running.state # "locked"
                     /\ Age(EndPlace, TailPlace) = 0

\* j_checkpoint_transactions: each transaction lies between the tail and the last
\* one, has its blocks there, and is older than the next on the list.
ListInv ==
  /\ \A i \in DOMAIN checkpoint :
       /\ Placed(EndPlace, checkpoint[i]) /\ Age(EndPlace, checkpoint[i]) >= 1
       /\ Room(EndPlace, checkpoint[i]) <= Room(EndPlace, TailPlace)
  /\ \A i, j \in DOMAIN checkpoint : i < j => Later(EndPlace, checkpoint[i], checkpoint[j])

\* The tail that the commit looked up before it waited for its I/O is still good when
\* jbd2_update_log_tail() takes it, whatever was checkpointed meanwhile: no
\* transaction of the list is before it, and moving to it frees blocks.
TailInv ==
  TailChosen =>
    /\ committing.tail \in Place
    /\ Placed(EndPlace, committing.tail)
    /\ \A i \in DOMAIN checkpoint : Later(EndPlace, committing.tail, checkpoint[i])
    /\ Age(EndPlace, committing.tail) < Age(EndPlace, TailPlace) =>
         Room(EndPlace, committing.tail) <= Room(EndPlace, TailPlace)

\* Between a power failure and the recovery there are no transactions.
DownIdle ==
  ~up => running = NoRunning /\ committing = NoCommit /\ checkpoint = <<>>

\* The inductive invariant.
LogInv == LogType /\ SpaceInv /\ CommitInv /\ FlushedInv /\ ListInv /\ TailInv

=============================================================================
