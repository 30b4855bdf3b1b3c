------------------------------ MODULE Jbd2Log ------------------------------
(***************************************************************************)
(* The journal of fs/jbd2: handles that change metadata buffers, the       *)
(* commit thread that copies a closed transaction into the log, writeback  *)
(* and checkpointing that carry buffers home and move the tail of the log, *)
(* a disk with a volatile write cache, power failure and log recovery.     *)
(***************************************************************************)
EXTENDS Jbd2Tid, FiniteSets, Sequences

CONSTANTS
  Blocks,            \* metadata blocks
  Maxlen,            \* j_maxlen: log blocks are 1 .. Maxlen - 1
  MinLogReserved,    \* MIN_LOG_RESERVED_BLOCKS, scaled to Maxlen
  FirstTid,          \* j_transaction_sequence at the first mount
  FirstHead,         \* where the (empty) log stands at the first mount
  Modes,             \* journals to consider: ASYNC_COMMIT or not, log on a device
                     \* of its own or not
  MaxTxs,            \* bound: transactions
  MaxVersion,        \* bound: block contents ever written
  MaxCredits,        \* bound: credits one handle asks for
  MaxCrashes         \* bound: power failures

ASSUME Jbd2Assumption ==
  /\ Maxlen \in Nat /\ FirstHead \in 1 .. Maxlen - 1
  /\ FirstTid \in Tid
  /\ Modes \subseteq [async : BOOLEAN, external : BOOLEAN]

VARIABLES
  bh,          \* buffer_head and journal_head of each block
  running,     \* j_running_transaction
  committing,  \* j_committing_transaction and where its commit stands
  checkpoint,  \* j_checkpoint_transactions, oldest first
  handle,      \* the open handle of the running transaction
  journal,     \* j_head, j_tail, j_tail_sequence, j_free, JBD2_FLUSHED, ...
  revokes,     \* j_revoke_table of the running and the committing transaction
  cpt,         \* the task in __jbd2_log_wait_for_space
  fs, log, sb, \* disk: home locations, log blocks, journal superblock
  inflight,    \* log blocks submitted and not yet completed
  owner,       \* what the filesystem uses each block for
  fileData,    \* file data durably written to a block that was freed
  closed,      \* history: the states closed since the mount, with their tid
  acked,       \* history: index in closed of the last commit that was reported
  lapses,      \* history: what has happened since the mount that may break the promise
  version, txs, crashes, up, mode

bufVars  == <<bh, owner, fileData>>
diskVars == <<fs, log, sb, inflight>>
histVars == <<closed, acked, lapses>>
sysVars  == <<crashes, up, mode>>
vars == <<bh, running, committing, checkpoint, handle, journal, revokes, cpt, fs, log, sb,
          inflight, owner, fileData, closed, acked, lapses, version, txs, crashes, up, mode>>

-----------------------------------------------------------------------------
(* Data *)

Elements(s) == {s[i] : i \in DOMAIN s}

LogBlocks == 1 .. Maxlen - 1
MaxTransactionBuffers == Maxlen \div 4

Free == 0 - 1          \* a block that holds no metadata
Garbage == 0 - 2       \* what replaying a control block leaves behind
NoCopy == 0 - 3
NoTid == 0 - 1
Contents == 0 .. MaxVersion

\* A place on disk: what was written last, and what a power failure may leave
\* there instead.
Cell(v) == [cur |-> v, old |-> {}]
Put(c, v) == [cur |-> v, old |-> c.old \cup {c.cur}]
Values(c) == c.old \cup {c.cur}

Blank == [type |-> "blank"]
Descriptor(t, bs) == [type |-> "descriptor", tid |-> t, tags |-> bs]
Data(v) == [type |-> "data", data |-> v]
CommitBlock(t, sum) == [type |-> "commit", tid |-> t, sum |-> sum]
RevokeBlock(t, bs) == [type |-> "revoke", tid |-> t, blocks |-> bs]

NoHandle == [open |-> FALSE, credits |-> 0, held |-> {}, taking |-> {}]
NoRunning == [state |-> "none", out |-> 0]
NoTail == [tid |-> NoTid, start |-> 0]
NoCommit == [pc |-> "none", tid |-> NoTid, start |-> 0, out |-> 0, desc |-> 0,
             wbuf |-> <<>>, tail |-> NoTail]
NoCheckpoint == [pc |-> "idle", tid |-> NoTid, wait |-> NoTid, batch |-> {}]

Buffer(v) ==
  [data |-> v, jt |-> "none", next |-> FALSE, list |-> "none", frozen |-> NoCopy,
   dirty |-> FALSE, jbddirty |-> FALSE, modified |-> FALSE, locked |-> FALSE,
   cp |-> NoTid, io |-> FALSE, revoked |-> FALSE]

\* journal_reset()
Reset(seq, head, flushed) ==
  [head |-> head, tail |-> head, tailSeq |-> seq, free |-> Maxlen - 1,
   seq |-> seq, commitSeq |-> TidMinus(seq, 1), flushed |-> flushed]

RunTid == TidMinus(journal.seq, 1)

\* The metadata the running filesystem sees.
Live == [b \in Blocks |-> IF owner[b] = "live" THEN bh[b].data ELSE Free]

\* wrap() and the wrap in jbd2_journal_next_log_block()
LogNext(i) == IF i + 1 = Maxlen THEN 1 ELSE i + 1
LogAdd(i, n) == IF i + n >= Maxlen THEN i + n - (Maxlen - 1) ELSE i + n

Take(j, n) == [j EXCEPT !.head = LogAdd(j.head, n), !.free = @ - n]

\* (fault) no correction for a tail that wrapped
FreedNoWrap(block) == block - journal.tail

\* The blocks that a tail moving to block sets free.
Freed(block) ==
  IF block < journal.tail THEN block - journal.tail + Maxlen - 1 ELSE block - journal.tail

-----------------------------------------------------------------------------
(* Buffers and lists *)

Unfile(h) ==
  [h EXCEPT !.jt = "none", !.list = "none", !.dirty = @ \/ h.jbddirty, !.jbddirty = FALSE]

\* __jbd2_journal_file_buffer() in the running transaction
File(h, list) ==
  [h EXCEPT !.jt = "run", !.list = list, !.jbddirty = @ \/ h.dirty, !.dirty = FALSE]

Refile(h) ==
  IF h.next
  THEN File([h EXCEPT !.next = FALSE], IF h.modified THEN "Metadata" ELSE "Reserved")
  ELSE Unfile(h)

RemoveCheckpoint(h) == [h EXCEPT !.cp = NoTid, !.io = FALSE]

\* A finished transaction leaves j_checkpoint_transactions with its last buffer.
StillNeeded(bufs) ==
  LET kept[n \in 0 .. Len(checkpoint)] ==
        IF n = 0 THEN <<>>
        ELSE IF \E b \in Blocks : bufs[b].cp = checkpoint[n].tid
             THEN Append(kept[n - 1], checkpoint[n])
             ELSE kept[n - 1]
  IN  kept[Len(checkpoint)]

TryToFreeCpBuf(h) == h.cp # NoTid /\ h.jt = "none" /\ ~h.locked /\ ~h.dirty

\* blkdev_issue_flush(): everything completed on the device reaches the media.
FlushFs == [b \in Blocks |-> IF bh[b].locked THEN fs[b] ELSE Cell(fs[b].cur)]
FlushLog(l, pending) == [i \in LogBlocks |-> IF i \in pending THEN l[i] ELSE Cell(l[i].cur)]
-----------------------------------------------------------------------------
(* Handles *)

\* __jbd2_log_space_left() and jbd_space_needed()
SpaceLeft ==
  LET left == journal.free - MinLogReserved
  IN  IF left <= 0 THEN 0 ELSE left - left \div 8

\* (fault) the running transaction's own credits are demanded once more
SpaceNeededTwice == MaxTransactionBuffers + committing.out + running.out

SpaceNeeded == MaxTransactionBuffers + committing.out

\* jbd2_get_transaction()
GetTransaction ==
  /\ up
  /\ running.state = "none"
  /\ txs < MaxTxs
  /\ running' = [state |-> "running", out |-> 0]
  /\ journal' = [journal EXCEPT !.seq = TidPlus(@, 1)]
  /\ txs' = txs + 1
  /\ UNCHANGED <<committing, checkpoint, handle, revokes, cpt, version>>
  /\ UNCHANGED <<bufVars, diskVars, histVars, sysVars>>

\* start_this_handle() once it need not wait
StartHandle(credits) ==
  /\ up /\ cpt.pc # "aborted"
  /\ ~handle.open
  /\ running.state = "running"
  /\ running.out + credits <= MaxTransactionBuffers
  /\ SpaceLeft >= SpaceNeeded
  /\ handle' = [NoHandle EXCEPT !.open = TRUE, !.credits = credits]
  /\ running' = [running EXCEPT !.out = @ + credits]
  /\ UNCHANGED <<committing, checkpoint, journal, revokes, cpt, version, txs>>
  /\ UNCHANGED <<bufVars, diskVars, histVars, sysVars>>

\* jbd2_journal_extend()
ExtendHandle(credits) ==
  /\ up /\ cpt.pc # "aborted"
  /\ handle.open /\ handle.taking = {} /\ handle.credits + credits <= MaxCredits
  /\ running.state = "running"
  /\ running.out + credits <= MaxTransactionBuffers
  /\ running.out + credits <= SpaceLeft
  /\ handle' = [handle EXCEPT !.credits = @ + credits]
  /\ running' = [running EXCEPT !.out = @ + credits]
  /\ UNCHANGED <<committing, checkpoint, journal, revokes, cpt, version, txs>>
  /\ UNCHANGED <<bufVars, diskVars, histVars, sysVars>>

\* jbd2_journal_cancel_revoke()
CancelRevoke(b) == revokes' = [revokes EXCEPT !.run = @ \ {b}]

\* A lapse: something the code does not exclude, and that may break the promise.
Lapse(what, happens) == lapses' = IF happens THEN lapses \cup {what} ELSE lapses

\* The handle may ask for b.
MayTake(b) ==
  /\ up /\ handle.open
  /\ owner[b] = "live" /\ b \notin handle.held
  /\ handle.credits > Cardinality(handle.held)
  /\ ~bh[b].locked

\* do_get_write_access() of a dirty buffer: under the lock of the buffer its dirty bit
\* becomes jbddirty.  The checkpoint does not look at jbddirty, and what it has
\* gathered it writes only if it is dirty ...
ClearDirty(b) ==
  /\ MayTake(b) /\ handle.taking = {} /\ bh[b].dirty
  /\ bh' = [bh EXCEPT ![b].dirty = FALSE, ![b].jbddirty = TRUE]
  /\ handle' = [handle EXCEPT !.taking = {b}]
  /\ Lapse("taken", b \in cpt.batch)
  /\ UNCHANGED <<running, committing, checkpoint, journal, revokes, cpt, version, txs>>
  /\ UNCHANGED <<owner, fileData, diskVars, closed, acked, sysVars>>

\* ... and then, still under jbd_lock_bh_state(), the buffer is filed, past the wait
\* for the commit that has it under Shadow.
Access(h) ==
  LET m == [h EXCEPT !.modified = FALSE]
  IN  CASE h.jt = "run" \/ h.next -> h
        [] h.jt = "none"          -> File(m, "Reserved")
        [] OTHER                  -> [m EXCEPT !.next = TRUE,
               !.frozen = IF h.frozen = NoCopy /\ h.list # "Forget" THEN h.data ELSE @]

GetWriteAccess(b) ==
  /\ MayTake(b)
  /\ handle.taking = {b} \/ (handle.taking = {} /\ ~bh[b].dirty)
  /\ ~(bh[b].jt = "com" /\ bh[b].list = "Shadow" /\ bh[b].frozen = NoCopy)
  /\ bh' = [bh EXCEPT ![b] = [Access(@) EXCEPT !.revoked = FALSE]]
  /\ CancelRevoke(b)
  /\ handle' = [handle EXCEPT !.held = @ \cup {b}, !.taking = {}]
  /\ UNCHANGED <<running, committing, checkpoint, journal, cpt, version, txs, owner, fileData>>
  /\ UNCHANGED <<diskVars, histVars, sysVars>>

\* jbd2_journal_get_create_access(): the filesystem makes a free block
\* metadata again.
GetCreateAccess(b) ==
  /\ up /\ handle.open /\ handle.taking = {}
  /\ owner[b] \in {"run", "com", "free"}
  /\ handle.credits > Cardinality(handle.held)
  /\ ~bh[b].locked
  /\ bh[b].jt = "none" => owner[b] = "free"
  /\ bh[b].jt = "com" => bh[b].list = "Forget"
  /\ bh' = [bh EXCEPT ![b] =
       CASE @.jt = "run"  -> [@ EXCEPT !.revoked = FALSE]
         [] @.jt = "none" -> File([@ EXCEPT !.revoked = FALSE, !.dirty = FALSE,
                                            !.modified = FALSE], "Reserved")
         [] OTHER         -> [@ EXCEPT !.revoked = FALSE, !.modified = FALSE, !.next = TRUE]]
  /\ CancelRevoke(b)
  /\ handle' = [handle EXCEPT !.held = @ \cup {b}]
  /\ owner' = [owner EXCEPT ![b] = "new"]
  /\ UNCHANGED <<running, committing, checkpoint, journal, cpt, version, txs, fileData>>
  /\ UNCHANGED <<diskVars, histVars, sysVars>>

\* (fault) mark_buffer_dirty() in place of set_buffer_jbddirty()
MarkDirty(b) ==
  /\ up /\ handle.open /\ handle.taking = {} /\ b \in handle.held
  /\ version < MaxVersion
  /\ version' = version + 1
  /\ bh' = [bh EXCEPT ![b] = [@ EXCEPT !.data = version + 1, !.modified = TRUE, !.dirty = TRUE,
                                       !.list = IF bh[b].jt = "run" THEN "Metadata"
                                                ELSE bh[b].list]]
  /\ handle' = [handle EXCEPT !.held = @ \ {b},
                              !.credits = IF bh[b].modified THEN @ ELSE @ - 1]
  /\ owner' = [owner EXCEPT ![b] = "live"]
  /\ UNCHANGED <<running, committing, checkpoint, journal, revokes, cpt, txs, fileData>>
  /\ UNCHANGED <<diskVars, histVars, sysVars>>

\* The caller's change of the buffer and jbd2_journal_dirty_metadata()
DirtyMetadata(b) ==
  /\ up /\ handle.open /\ handle.taking = {} /\ b \in handle.held
  /\ version < MaxVersion
  /\ version' = version + 1
  /\ bh' = [bh EXCEPT ![b] = [@ EXCEPT !.data = version + 1, !.modified = TRUE,
                                       !.jbddirty = TRUE,
                                       !.list = IF bh[b].jt = "run" THEN "Metadata"
                                                ELSE bh[b].list]]
  /\ handle' = [handle EXCEPT !.held = @ \ {b},
                              !.credits = IF bh[b].modified THEN @ ELSE @ - 1]
  /\ owner' = [owner EXCEPT ![b] = "live"]
  /\ UNCHANGED <<running, committing, checkpoint, journal, revokes, cpt, txs, fileData>>
  /\ UNCHANGED <<diskVars, histVars, sysVars>>

\* jbd2_journal_forget()
Forget(h) ==
  LET f == [h EXCEPT !.modified = FALSE]
      c == [f EXCEPT !.dirty = FALSE, !.jbddirty = FALSE]
  IN  CASE h.jt = "run"  -> IF h.cp # NoTid THEN [c EXCEPT !.list = "Forget"] ELSE Unfile(c)
        [] h.jt = "com"  -> [f EXCEPT !.next = FALSE]
        [] OTHER         -> f

\* jbd2_journal_revoke() of a metadata block the filesystem frees
Revoke(b) ==
  /\ up /\ handle.open /\ handle.taking = {}
  /\ owner[b] = "live" /\ b \notin handle.held
  /\ ~bh[b].revoked
  /\ Lapse("revoked", bh[b].next /\ bh[b].modified)
  /\ bh' = [bh EXCEPT ![b] = [Forget(@) EXCEPT !.revoked = TRUE]]
  /\ revokes' = [revokes EXCEPT !.run = @ \cup {b}]
  /\ handle' = [handle EXCEPT !.credits =
       IF bh[b].modified /\ (bh[b].jt = "run" \/ bh[b].next) THEN @ + 1 ELSE @]
  /\ owner' = [owner EXCEPT ![b] = "run"]
  /\ UNCHANGED <<running, committing, checkpoint, journal, cpt, version, txs, fileData>>
  /\ UNCHANGED <<diskVars, closed, acked, sysVars>>

\* jbd2_journal_stop()
StopHandle ==
  /\ up /\ handle.open /\ handle.taking = {}
  /\ \A b \in Blocks : owner[b] # "new"
  /\ handle' = NoHandle
  /\ running' = [running EXCEPT !.out = @ - handle.credits]
  /\ UNCHANGED <<committing, checkpoint, journal, revokes, cpt, version, txs>>
  /\ UNCHANGED <<bufVars, diskVars, histVars, sysVars>>
-----------------------------------------------------------------------------
(* jbd2_journal_commit_transaction() *)

MutexFree == cpt.pc \in {"idle", "aborted"}     \* j_checkpoint_mutex

\* The log is made non-empty on disk again and the transaction is locked.
CommitLock ==
  /\ up
  /\ running.state = "running" /\ committing.pc = "none"
  /\ journal.flushed => MutexFree
  /\ IF journal.flushed
     THEN sb' = Put(sb, [seq |-> journal.tailSeq, start |-> journal.tail])
     ELSE UNCHANGED sb
  /\ journal' = [journal EXCEPT !.flushed = FALSE]
  /\ running' = [running EXCEPT !.state = "locked"]
  /\ UNCHANGED <<committing, checkpoint, handle, revokes, cpt, version, txs>>
  /\ UNCHANGED <<bufVars, fs, log, inflight, histVars, sysVars>>

\* With no handle left: unused reserved buffers go back, written checkpoint
\* buffers are dropped, the revoke tables are switched and the transaction
\* becomes the committing one.
Switched(h) ==
  [h EXCEPT !.jt = IF @ = "run" THEN "com" ELSE @, !.revoked = FALSE]

CommitSwitch ==
  /\ up
  /\ running.state = "locked" /\ ~handle.open
  /\ LET unreserved == [b \in Blocks |->
           IF bh[b].jt = "run" /\ bh[b].list = "Reserved" THEN Refile(bh[b]) ELSE bh[b]]
     IN  \E S \in SUBSET {b \in Blocks : TryToFreeCpBuf(unreserved[b])} :
           LET cleaned == [b \in Blocks |->
                 IF b \in S THEN RemoveCheckpoint(unreserved[b]) ELSE unreserved[b]]
           IN  /\ bh' = [b \in Blocks |-> Switched(cleaned[b])]
               /\ checkpoint' = StillNeeded(cleaned)
  /\ revokes' = [run |-> {}, com |-> revokes.run]
  /\ committing' = [NoCommit EXCEPT !.pc = "revoke", !.tid = RunTid,
                                    !.start = journal.head, !.out = running.out]
  /\ running' = NoRunning
  /\ owner' = [b \in Blocks |-> IF owner[b] = "run" THEN "com" ELSE owner[b]]
  /\ closed' = Append(closed, [tid |-> RunTid, state |-> Live])
  /\ UNCHANGED <<handle, journal, cpt, version, txs, fileData, acked, lapses>>
  /\ UNCHANGED <<diskVars, sysVars>>

\* jbd2_journal_write_revoke_records()
WriteRevokeRecords ==
  /\ up /\ committing.pc = "revoke"
  /\ IF revokes.com = {}
     THEN UNCHANGED <<log, inflight, journal>>
     ELSE /\ log' = [log EXCEPT ![journal.head] =
                       Put(@, RevokeBlock(committing.tid, revokes.com))]
          /\ inflight' = inflight \cup {journal.head}
          /\ journal' = Take(journal, 1)
  /\ revokes' = [revokes EXCEPT !.com = {}]
  /\ committing' = [committing EXCEPT !.pc = "write"]
  /\ UNCHANGED <<running, checkpoint, handle, cpt, version, txs, fs, sb>>
  /\ UNCHANGED <<bufVars, histVars, sysVars>>

ToWrite == {b \in Blocks : bh[b].jt = "com" /\ bh[b].list = "Metadata"}

\* One buffer gets its place in the log and goes under Shadow; the first one
\* takes a descriptor block as well.  A frozen copy is written if there is one,
\* otherwise the page itself.
WriteMetadataBuffer(b) ==
  /\ up /\ committing.pc = "write"
  /\ b \in ToWrite
  /\ LET first == committing.wbuf = <<>>
         desc  == IF first THEN journal.head ELSE committing.desc
         pos   == IF first THEN LogNext(journal.head) ELSE journal.head
         page  == bh[b].frozen = NoCopy
     IN  /\ committing' = [committing EXCEPT
              !.desc = desc, !.out = @ - 1,
              !.wbuf = Append(@, [block |-> b, pos |-> pos, page |-> page,
                                  data |-> IF page THEN bh[b].data ELSE bh[b].frozen])]
         /\ journal' = Take(journal, IF first THEN 2 ELSE 1)
  /\ bh' = [bh EXCEPT ![b].list = "Shadow"]
  /\ UNCHANGED <<running, checkpoint, handle, revokes, cpt, version, txs, owner, fileData>>
  /\ UNCHANGED <<diskVars, histVars, sysVars>>

\* The descriptor and the buffers are submitted.
SubmitLog ==
  /\ up /\ committing.pc = "write"
  /\ ToWrite = {}
  /\ LET w == committing.wbuf
         places == {w[i].pos : i \in DOMAIN w} \cup (IF w = <<>> THEN {} ELSE {committing.desc})
         record(p) ==
           IF p = committing.desc
           THEN Descriptor(committing.tid, [i \in DOMAIN w |-> w[i].block])
           ELSE Data((CHOOSE e \in Elements(w) : e.pos = p).data)
     IN  /\ log' = [p \in LogBlocks |-> IF p \in places THEN Put(log[p], record(p)) ELSE log[p]]
         /\ inflight' = inflight \cup places
  /\ committing' = [committing EXCEPT !.pc = "tail"]
  /\ UNCHANGED <<running, checkpoint, handle, journal, revokes, cpt, version, txs, fs, sb>>
  /\ UNCHANGED <<bufVars, histVars, sysVars>>

\* jbd2_journal_get_log_tail()
LogTail ==
  IF checkpoint # <<>> THEN checkpoint[1]
  ELSE IF committing.pc # "none" THEN [tid |-> committing.tid, start |-> committing.start]
  ELSE [tid |-> IF running.state # "none" THEN RunTid ELSE journal.seq, start |-> journal.head]

LogTailMoved == tid_gt(LogTail.tid, journal.tailSeq)

\* The sum over descriptor and data blocks that an asynchronous commit carries.
Sum(w) == [i \in DOMAIN w |-> <<w[i].block, w[i].data>>]

\* The new tail is looked up, the filesystem's device flushed if it is not the
\* log's and there is data to flush, and the commit record sent if it need not
\* wait.
FlushForTail ==
  /\ up /\ committing.pc = "tail"
  /\ LET update_tail == LogTailMoved /\ Freed(LogTail.start) >= Maxlen \div 4
     IN  \E need_data_flush \in BOOLEAN :
           /\ fs' = IF mode.external /\ need_data_flush THEN FlushFs ELSE fs
           /\ committing' = [committing EXCEPT !.pc = "io",
                               !.tail = IF update_tail THEN LogTail ELSE NoTail]
           /\ Lapse("unflushed", mode.external /\ update_tail /\ ~need_data_flush)
  /\ IF mode.async
     THEN /\ log' = [log EXCEPT ![journal.head] =
                       Put(@, CommitBlock(committing.tid, Sum(committing.wbuf)))]
          /\ inflight' = inflight \cup {journal.head}
          /\ journal' = Take(journal, 1)
     ELSE UNCHANGED <<log, inflight, journal>>
  /\ UNCHANGED <<running, checkpoint, handle, revokes, cpt, version, txs, sb>>
  /\ UNCHANGED <<bufVars, closed, acked, sysVars>>

\* Descriptor, revoke and data blocks are on the device; a page that went out
\* without a copy went out as it was when the transfer ended.
WaitLogIo ==
  /\ up /\ committing.pc = "io"
  /\ LET w == committing.wbuf
         pages == {e \in Elements(w) : e.page}
     IN  log' = [p \in LogBlocks |->
                   IF \E e \in pages : e.pos = p
                   THEN [log[p] EXCEPT !.cur =
                           Data(bh[(CHOOSE e \in pages : e.pos = p).block].data)]
                   ELSE log[p]]
  /\ inflight' = IF mode.async THEN {p \in inflight : log[p].cur.type = "commit"} ELSE {}
  /\ bh' = [b \in Blocks |-> IF bh[b].jt = "com" /\ bh[b].list = "Shadow"
                             THEN [bh[b] EXCEPT !.list = "Forget"] ELSE bh[b]]
  /\ committing' = [committing EXCEPT !.pc = "record"]
  /\ UNCHANGED <<running, checkpoint, handle, journal, revokes, cpt, version, txs, fs, sb>>
  /\ UNCHANGED <<owner, fileData, histVars, sysVars>>

\* The commit record: written with FLUSH and FUA, or, when it went out early,
\* waited for and followed by a flush.
CommitRecord ==
  /\ up /\ committing.pc = "record"
  /\ IF mode.async
     THEN /\ log' = FlushLog(log, {})
          /\ UNCHANGED journal
     ELSE /\ log' = [FlushLog(log, {}) EXCEPT ![journal.head] =
                       Cell(CommitBlock(committing.tid, <<>>))]
          /\ journal' = Take(journal, 1)
  /\ inflight' = {}
  /\ sb' = Cell(sb.cur)
  /\ fs' = IF mode.external THEN fs ELSE FlushFs
  /\ committing' = [committing EXCEPT !.pc = "update"]
  /\ UNCHANGED <<running, checkpoint, handle, revokes, cpt, version, txs>>
  /\ UNCHANGED <<bufVars, histVars, sysVars>>

\* __jbd2_update_log_tail()
MoveTail(t) ==
  /\ sb' = Cell([seq |-> t.tid, start |-> t.start])
  /\ journal' = [journal EXCEPT !.free = @ + Freed(t.start), !.tailSeq = t.tid,
                                !.tail = t.start, !.flushed = FALSE]

\* jbd2_update_log_tail()
UpdateLogTail ==
  /\ up /\ committing.pc = "update"
  /\ committing.tail # NoTail => MutexFree
  /\ IF committing.tail # NoTail /\ tid_gt(committing.tail.tid, journal.tailSeq)
     THEN MoveTail(committing.tail)
     ELSE UNCHANGED <<sb, journal>>
  /\ committing' = [committing EXCEPT !.pc = "forget", !.wbuf = <<>>, !.desc = 0]
  /\ UNCHANGED <<running, checkpoint, handle, revokes, cpt, version, txs, fs, log, inflight>>
  /\ UNCHANGED <<bufVars, histVars, sysVars>>

\* A buffer of the committed transaction starts its way home: its older
\* checkpoint is over, the new one begins, and it moves on to the running
\* transaction if that has it too.
ForgetBuffer(b) ==
  /\ up /\ committing.pc = "forget"
  /\ bh[b].jt = "com" /\ bh[b].list = "Forget"
  /\ LET h == RemoveCheckpoint([bh[b] EXCEPT !.frozen = NoCopy])
         n == IF h.jbddirty THEN [h EXCEPT !.cp = committing.tid] ELSE h
     IN  /\ bh' = [bh EXCEPT ![b] = Refile(n)]
         /\ checkpoint' = StillNeeded(bh')
  /\ UNCHANGED <<running, committing, handle, journal, revokes, cpt, version, txs>>
  /\ UNCHANGED <<owner, fileData, diskVars, histVars, sysVars>>

\* The commit is over and reported.
CommitDone ==
  /\ up /\ committing.pc = "forget"
  /\ \A b \in Blocks : bh[b].jt # "com"
  /\ journal' = [journal EXCEPT !.commitSeq = committing.tid]
  /\ checkpoint' = IF \E b \in Blocks : bh[b].cp = committing.tid
                   THEN Append(checkpoint, [tid |-> committing.tid, start |-> committing.start])
                   ELSE checkpoint
  /\ committing' = NoCommit
  /\ acked' = Len(closed)
  /\ owner' = [b \in Blocks |-> IF owner[b] = "com" THEN "free" ELSE owner[b]]
  /\ fileData' = [b \in Blocks |-> IF closed[Len(closed)].state[b] = Free
                                   THEN fileData[b] ELSE Free]
  /\ UNCHANGED <<bh, running, handle, revokes, cpt, version, txs, closed, lapses>>
  /\ UNCHANGED <<diskVars, sysVars>>
-----------------------------------------------------------------------------
(* Writeback, checkpointing and the tail of the log *)

\* submit_bh() of a dirty buffer
Submit(b) ==
  /\ fs' = [fs EXCEPT ![b] = Put(@, bh[b].data)]
  /\ bh' = [bh EXCEPT ![b].dirty = FALSE, ![b].locked = TRUE]

WriteBack(b) ==
  /\ up
  /\ bh[b].dirty /\ ~bh[b].locked
  /\ Submit(b)
  /\ UNCHANGED <<running, committing, checkpoint, handle, journal, revokes, cpt, version, txs>>
  /\ UNCHANGED <<owner, fileData, log, sb, inflight, histVars, sysVars>>

\* end_buffer_write_sync()
EndWrite(b) ==
  /\ up
  /\ bh[b].locked
  /\ bh' = [bh EXCEPT ![b].locked = FALSE]
  /\ UNCHANGED <<running, committing, checkpoint, handle, journal, revokes, cpt, version, txs>>
  /\ UNCHANGED <<owner, fileData, diskVars, histVars, sysVars>>

\* jbd2_journal_try_to_free_buffers(), from memory reclaim
TryToFreeBuffer(b) ==
  /\ up
  /\ TryToFreeCpBuf(bh[b]) /\ b \notin handle.taking
  /\ bh' = [bh EXCEPT ![b] = RemoveCheckpoint(@)]
  /\ checkpoint' = StillNeeded(bh')
  /\ UNCHANGED <<running, committing, handle, journal, revokes, cpt, version, txs>>
  /\ UNCHANGED <<owner, fileData, diskVars, histVars, sysVars>>

\* (fault) the tail moves before the device has kept what was written back
CleanupWithoutFlush ==
  /\ LogTailMoved
  /\ MoveTail(LogTail)
  /\ UNCHANGED <<fs, log, inflight>>

\* jbd2_cleanup_journal_tail() when there is something to clean up
CleanupJournalTail ==
  /\ LogTailMoved
  /\ fs' = FlushFs
  /\ log' = IF mode.external THEN log ELSE FlushLog(log, inflight)
  /\ MoveTail(LogTail)
  /\ UNCHANGED inflight

\* __jbd2_log_wait_for_space(), under j_checkpoint_mutex, up to the scan of the
\* oldest transaction's buffers.
WaitForSpace ==
  /\ up /\ cpt.pc = "idle"
  /\ running.state = "running"
  /\ SpaceLeft < SpaceNeeded
  /\ \/ CleanupJournalTail /\ UNCHANGED cpt
     \/ /\ ~LogTailMoved
        /\ cpt' = CASE checkpoint # <<>> ->
                         [cpt EXCEPT !.pc = "scan", !.tid = checkpoint[1].tid]
                    [] checkpoint = <<>> /\ committing.pc # "none" /\ committing.tid # 0 ->
                         [cpt EXCEPT !.pc = "wait", !.wait = committing.tid]
                    [] OTHER -> [cpt EXCEPT !.pc = "aborted"]
        /\ UNCHANGED <<diskVars, journal>>
  /\ UNCHANGED <<running, committing, checkpoint, handle, revokes, version, txs>>
  /\ UNCHANGED <<bufVars, histVars, sysVars>>

Scanned == checkpoint # <<>> /\ checkpoint[1].tid = cpt.tid
ToScan  == {b \in Blocks : bh[b].cp = cpt.tid /\ ~bh[b].io}
Written == {b \in Blocks : bh[b].cp = cpt.tid /\ bh[b].io}

\* The scan starts over, with what it has gathered written first.
Again == IF cpt.batch = {} THEN "scan" ELSE "flush"

\* __process_buffer()
ProcessBuffer(b) ==
  /\ up /\ cpt.pc = "scan"
  /\ Scanned /\ b \in ToScan
  /\ ~bh[b].locked
  /\ \/ /\ bh[b].jt # "none"
        /\ cpt' = [cpt EXCEPT !.pc = "wait",
                     !.wait = IF bh[b].jt = "run" THEN RunTid ELSE committing.tid]
        /\ UNCHANGED <<bh, checkpoint, lapses>>
     \/ /\ bh[b].jt = "none" /\ ~bh[b].dirty
        /\ bh' = [bh EXCEPT ![b] = RemoveCheckpoint(@)]
        /\ checkpoint' = StillNeeded(bh')
        /\ cpt' = [cpt EXCEPT !.pc = Again]
        /\ Lapse("taken", b \in handle.taking)
     \/ /\ bh[b].jt = "none" /\ bh[b].dirty
        /\ bh' = [bh EXCEPT ![b].io = TRUE]
        /\ cpt' = [cpt EXCEPT !.batch = @ \cup {b}]
        /\ UNCHANGED <<checkpoint, lapses>>
  /\ UNCHANGED <<running, committing, handle, journal, revokes, version, txs>>
  /\ UNCHANGED <<owner, fileData, diskVars, closed, acked, sysVars>>

\* jbd2_log_wait_commit(), with j_checkpoint_mutex held
WaitCommit ==
  /\ up /\ cpt.pc = "wait"
  /\ tid_geq(journal.commitSeq, cpt.wait)
  /\ cpt' = [cpt EXCEPT !.pc = IF cpt.tid = NoTid THEN "idle" ELSE Again, !.wait = NoTid]
  /\ UNCHANGED <<running, committing, checkpoint, handle, journal, revokes, version, txs>>
  /\ UNCHANGED <<bufVars, diskVars, histVars, sysVars>>

\* __flush_batch(), when the list is through or need_resched() says so:
\* write_dirty_buffer() writes what is still dirty.
FlushBatch(b) ==
  /\ up /\ cpt.pc \in {"scan", "flush"} /\ b \in cpt.batch
  /\ ~bh[b].locked
  /\ IF bh[b].dirty THEN Submit(b) ELSE UNCHANGED <<bh, fs>>
  /\ cpt' = [cpt EXCEPT !.batch = @ \ {b}, !.pc = IF cpt.batch = {b} THEN "scan" ELSE "flush"]
  /\ UNCHANGED <<running, committing, checkpoint, handle, journal, revokes, version, txs>>
  /\ UNCHANGED <<owner, fileData, log, sb, inflight, histVars, sysVars>>

\* __wait_cp_io()
WaitCpIo(b) ==
  /\ up /\ cpt.pc = "scan"
  /\ Scanned /\ cpt.batch = {} /\ ToScan = {} /\ b \in Written
  /\ ~bh[b].locked
  /\ bh' = [bh EXCEPT ![b] = RemoveCheckpoint(@)]
  /\ checkpoint' = StillNeeded(bh')
  /\ UNCHANGED <<running, committing, handle, journal, revokes, cpt, version, txs>>
  /\ UNCHANGED <<owner, fileData, diskVars, histVars, sysVars>>

\* The transaction is gone from the list: the tail follows it.
CheckpointDone ==
  /\ up /\ cpt.pc = "scan"
  /\ ~Scanned /\ cpt.batch = {}
  /\ CleanupJournalTail \/ (~LogTailMoved /\ UNCHANGED <<diskVars, journal>>)
  /\ cpt' = NoCheckpoint
  /\ UNCHANGED <<running, committing, checkpoint, handle, revokes, version, txs>>
  /\ UNCHANGED <<bufVars, histVars, sysVars>>

\* (fault) the log is marked empty with its tail left behind
FlushWithoutCleanup ==
  /\ up /\ MutexFree
  /\ running.state = "none" /\ committing.pc = "none" /\ checkpoint = <<>>
  /\ ~journal.flushed
  /\ sb' = Cell([seq |-> journal.tailSeq, start |-> 0])
  /\ journal' = [journal EXCEPT !.flushed = TRUE]
  /\ UNCHANGED <<running, committing, checkpoint, handle, revokes, cpt, version, txs, fs, log,
                 inflight>>
  /\ UNCHANGED <<bufVars, histVars, sysVars>>

\* jbd2_journal_flush() once nothing is left to commit or to checkpoint: the
\* tail is cleaned up and the log is marked empty.
JournalFlush ==
  /\ up /\ MutexFree
  /\ running.state = "none" /\ committing.pc = "none" /\ checkpoint = <<>>
  /\ ~journal.flushed
  /\ fs' = IF LogTailMoved THEN FlushFs ELSE fs
  /\ log' = IF LogTailMoved /\ ~mode.external THEN FlushLog(log, inflight) ELSE log
  /\ LET t == IF LogTailMoved THEN LogTail ELSE [tid |-> journal.tailSeq, start |-> journal.tail]
     IN  /\ sb' = Cell([seq |-> t.tid, start |-> 0])
         /\ journal' = [journal EXCEPT !.free = @ + Freed(t.start), !.tailSeq = t.tid,
                                       !.tail = t.start, !.flushed = TRUE]
  /\ UNCHANGED <<running, committing, checkpoint, handle, revokes, cpt, version, txs, inflight>>
  /\ UNCHANGED <<bufVars, histVars, sysVars>>

\* The filesystem gives a freed block to a file: unmap_underlying_metadata()
\* drops the buffer's writes and the file's data goes to disk.
WriteFileData(b) ==
  /\ up
  /\ owner[b] = "free" /\ fileData[b] = Free
  /\ ~bh[b].locked
  /\ version < MaxVersion
  /\ version' = version + 1
  /\ bh' = [bh EXCEPT ![b].dirty = FALSE]
  /\ fs' = [fs EXCEPT ![b] = Cell(version + 1)]
  /\ fileData' = [fileData EXCEPT ![b] = version + 1]
  /\ UNCHANGED <<running, committing, checkpoint, handle, journal, revokes, cpt, txs, owner>>
  /\ UNCHANGED <<log, sb, inflight, histVars, sysVars>>

-----------------------------------------------------------------------------
(* Power failure and recovery *)

\* Every way of settling the cells of f.
Settled(f) ==
  LET loose == {i \in DOMAIN f : f[i].old # {}}
      settle[S \in SUBSET loose] ==
        IF S = {} THEN {f}
        ELSE LET i == CHOOSE j \in S : TRUE
             IN  {[g EXCEPT ![i] = Cell(v)] : g \in settle[S \ {i}], v \in Values(f[i])}
  IN  settle[loose]

Crash ==
  /\ up /\ crashes < MaxCrashes
  /\ up' = FALSE /\ crashes' = crashes + 1
  /\ fs' \in Settled(fs)
  /\ log' \in Settled(log)
  /\ sb' \in {Cell(v) : v \in Values(sb)}
  /\ inflight' = {}
  /\ bh' = [b \in Blocks |-> Buffer(Free)]
  /\ running' = NoRunning /\ committing' = NoCommit /\ checkpoint' = <<>>
  /\ handle' = NoHandle /\ cpt' = NoCheckpoint
  /\ revokes' = [run |-> {}, com |-> {}]
  /\ journal' = Reset(FirstTid, 1, FALSE)
  /\ Lapse("tid 0", mode.async /\ committing.tid = 0)
  /\ UNCHANGED <<owner, fileData, closed, acked, version, txs, mode>>

\* do_one_pass(): what the block at scan.pos makes of the scan.  The three
\* passes read the same blocks; found and revoked collect what the second and
\* the third act on.
LogData(i) == IF log[i].cur.type = "data" THEN log[i].cur.data ELSE Garbage

ScanStep(scan) ==
  LET rec  == log[scan.pos].cur
      next == [scan EXCEPT !.pos = LogNext(@)]
      bad  == mode.async /\ rec.sum # scan.sum
  IN  CASE rec.type = "descriptor" /\ rec.tid = scan.id ->
             LET n == Len(rec.tags)
                 w == [i \in 1 .. n |-> <<rec.tags[i], LogData(LogAdd(scan.pos, i))>>]
             IN  [scan EXCEPT !.pos = LogAdd(@, n + 1), !.sum = @ \o w,
                    !.found = @ \o [i \in 1 .. n |-> [tid |-> scan.id, write |-> w[i]]]]
        [] rec.type = "revoke" /\ rec.tid = scan.id ->
             [next EXCEPT !.revoked = @ \cup {[tid |-> scan.id, block |-> b] : b \in rec.blocks}]
        [] rec.type = "commit" /\ rec.tid = scan.id ->
             IF scan.end # 0 /\ mode.async THEN next
             ELSE [next EXCEPT !.id = TidPlus(@, 1), !.sum = <<>>,
                               !.end = IF bad THEN scan.id ELSE @]
        [] OTHER -> [scan EXCEPT !.stop = TRUE]

Scan ==
  LET start == [pos |-> sb.cur.start, id |-> sb.cur.seq, sum |-> <<>>, found |-> <<>>,
                revoked |-> {}, end |-> 0, stop |-> FALSE]
      after[n \in 0 .. Maxlen] ==
        IF n = 0 THEN start
        ELSE LET s == after[n - 1] IN IF s.stop THEN s ELSE ScanStep(s)
      s == after[Maxlen]
  IN  [s EXCEPT !.end = IF @ = 0 THEN s.id ELSE @]

\* (fault) the revoke table is not consulted
NothingRevoked(scan, e) == FALSE

\* jbd2_journal_test_revoke()
TestRevoke(scan, e) ==
  \E r \in scan.revoked : /\ ~tid_geq(r.tid, scan.end)
                          /\ r.block = e.write[1] /\ ~tid_gt(e.tid, r.tid)

\* What the replay pass leaves at home.
Replayed(scan) ==
  LET skip(e) == tid_geq(e.tid, scan.end) \/ TestRevoke(scan, e)
      home[n \in 0 .. Len(scan.found)] ==
        IF n = 0 THEN fs
        ELSE LET e == scan.found[n]
             IN  IF skip(e) THEN home[n - 1]
                 ELSE [home[n - 1] EXCEPT ![e.write[1]] = Cell(e.write[2])]
  IN  home[Len(scan.found)]

\* A power failure in the middle of a replay.
CrashInReplay ==
  /\ ~up
  /\ sb.cur.start # 0
  /\ LET r == Replayed(Scan)
     IN  \E S \in (SUBSET {b \in Blocks : r[b] # fs[b]}) \ {{}} :
           fs' = [b \in Blocks |-> IF b \in S THEN r[b] ELSE fs[b]]
  /\ UNCHANGED <<bh, running, committing, checkpoint, handle, journal, revokes, cpt, log, sb,
                 inflight, owner, fileData, histVars, version, txs, sysVars>>

\* jbd2_journal_load(): jbd2_journal_recover() and journal_reset().  Which
\* blocks hold metadata in the recovered state is read from the metadata: the
\* history says so for the transaction the replay ended with.
Recover ==
  /\ ~up
  /\ up' = TRUE
  /\ LET clean == sb.cur.start = 0
         scan == Scan
         end == IF clean THEN sb.cur.seq ELSE scan.end
         seq == TidPlus(end, 1)
         same == {c \in Elements(closed) : c.tid = TidMinus(end, 1)}
         inUse(b) == same = {} \/ \E c \in same : c.state[b] # Free
         state == [b \in Blocks |-> IF inUse(b) THEN fs'[b].cur ELSE Free]
     IN  /\ fs' = IF clean THEN fs ELSE Replayed(scan)
         /\ sb' = IF clean THEN sb ELSE Cell([seq |-> seq, start |-> 1])
         /\ journal' = Reset(seq, 1, clean)
         /\ bh' = [b \in Blocks |-> Buffer(fs'[b].cur)]
         /\ owner' = [b \in Blocks |-> IF inUse(b) THEN "live" ELSE "free"]
         /\ fileData' = [b \in Blocks |-> IF inUse(b) THEN Free ELSE fileData[b]]
         /\ closed' = <<[tid |-> end, state |-> state]>>
  /\ acked' = 1 /\ lapses' = {}
  /\ UNCHANGED <<running, committing, checkpoint, handle, revokes, cpt, log, inflight,
                 version, txs, crashes, mode>>

-----------------------------------------------------------------------------
Init ==
  /\ bh = [b \in Blocks |-> Buffer(0)]
  /\ running = NoRunning /\ committing = NoCommit /\ checkpoint = <<>>
  /\ handle = NoHandle /\ cpt = NoCheckpoint
  /\ revokes = [run |-> {}, com |-> {}]
  /\ journal = Reset(FirstTid, FirstHead, FALSE)
  /\ fs = [b \in Blocks |-> Cell(0)]
  /\ log = [i \in LogBlocks |-> Cell(Blank)]
  /\ sb = Cell([seq |-> FirstTid, start |-> FirstHead])
  /\ inflight = {}
  /\ owner = [b \in Blocks |-> "live"]
  /\ fileData = [b \in Blocks |-> Free]
  /\ closed = <<[tid |-> TidMinus(FirstTid, 1), state |-> [b \in Blocks |-> 0]]>>
  /\ acked = 1 /\ lapses = {}
  /\ version = 0 /\ txs = 0 /\ crashes = 0 /\ up = TRUE
  /\ mode \in Modes

HandleStep ==
  \/ GetTransaction
  \/ \E c \in 1 .. MaxCredits : StartHandle(c) \/ ExtendHandle(c)
  \/ \E b \in Blocks : ClearDirty(b) \/ GetWriteAccess(b) \/ GetCreateAccess(b)
                      \/ DirtyMetadata(b) \/ Revoke(b)
  \/ StopHandle

CommitStep ==
  \/ CommitLock \/ CommitSwitch \/ WriteRevokeRecords
  \/ \E b \in Blocks : WriteMetadataBuffer(b) \/ ForgetBuffer(b)
  \/ SubmitLog \/ FlushForTail \/ WaitLogIo \/ CommitRecord \/ UpdateLogTail \/ CommitDone

CheckpointStep ==
  \/ WaitForSpace \/ WaitCommit \/ CheckpointDone \/ JournalFlush
  \/ \E b \in Blocks : ProcessBuffer(b) \/ FlushBatch(b) \/ WaitCpIo(b)

BufferStep ==
  \E b \in Blocks : WriteBack(b) \/ EndWrite(b) \/ TryToFreeBuffer(b) \/ WriteFileData(b)

\* What a journal does once it was aborted is not modelled.
Next ==
  \/ cpt.pc # "aborted" /\ (HandleStep \/ CommitStep \/ CheckpointStep \/ BufferStep)
  \/ Crash \/ CrashInReplay \/ Recover

Spec == Init /\ [][Next]_vars

-----------------------------------------------------------------------------
(* Properties *)

BufferType ==
  [data : Contents \cup {Free, Garbage}, jt : {"none", "run", "com"}, next : BOOLEAN,
   list : {"none", "Reserved", "Metadata", "Shadow", "Forget"},
   frozen : Contents \cup {NoCopy}, dirty : BOOLEAN, jbddirty : BOOLEAN, modified : BOOLEAN,
   locked : BOOLEAN, cp : Tid \cup {NoTid}, io : BOOLEAN, revoked : BOOLEAN]

\* Every variable has its type; the head and the tail are blocks of the log.
TypeOK ==
  /\ \A b \in Blocks : bh[b] \in BufferType
  /\ journal.head \in LogBlocks /\ journal.tail \in LogBlocks
  /\ {journal.seq, journal.tailSeq, journal.commitSeq} \subseteq Tid
  /\ running.state \in {"none", "running", "locked"} /\ running.out \in 0 .. MaxTransactionBuffers
  /\ committing.pc \in {"none", "revoke", "write", "tail", "io", "record", "update", "forget"}
  /\ cpt.pc \in {"idle", "scan", "wait", "flush", "aborted"} /\ cpt.batch \subseteq Blocks
  /\ handle.held \cup handle.taking \subseteq Blocks /\ handle.credits \in 0 .. MaxTransactionBuffers
  /\ inflight \subseteq LogBlocks /\ acked \in 1 .. Len(closed)
  /\ lapses \subseteq {"taken", "revoked", "unflushed", "tid 0"}

Store ==
  INSTANCE JournaledStore WITH
    Contents <- Contents \cup {Garbage},
    live     <- IF up THEN Live ELSE [b \in Blocks |-> Free],
    closed   <- [i \in DOMAIN closed |-> closed[i].state]

\* The journal keeps its promise, without exception.  Whatever handles, commit thread, writeback,
\* checkpointing and recovery do, and whichever of the writes in the device's
\* cache survive a power failure, the metadata found after a mount is one of
\* the states that jbd2_journal_commit_transaction() closed, and not one older
\* than the last commit it reported.
ImplementsStore == Store!StoreSpec

\* The journal keeps that promise in every history in which none of four things has
\* happened since the mount; each of them alone breaks it.
\*   taken      do_get_write_access() cleared the dirty bit of a buffer that the
\*              checkpoint had in j_chkpt_bhs, or __process_buffer() met the buffer
\*              between that and its filing: it is dropped unwritten.
\*   revoked    jbd2_journal_forget() of a buffer changed for the running transaction
\*              while the previous one commits: the change stays in the page.
\*   unflushed  The tail of an external log moved without a flush of the file system's
\*              device: t_need_data_flush was not set.
\*   tid 0      Power failed in an asynchronous commit of tid 0, which do_one_pass()
\*              takes for "end of the log not found".
StoreUnlessLapsed ==
  Store!StoreInit /\ [][lapses = {} => [Store!StoreNext]_(Store!storeVars)]_vars

\* Replay spares what is newer than the log: once a freed block has been given
\* to a file, neither writeback of the old buffer nor the replay of the
\* transactions that logged it (jbd2_journal_test_revoke()) touches its data.
ReplaySparesData ==
  up => \A b \in Blocks :
          owner[b] = "free" /\ fileData[b] # Free => Values(fs[b]) = {fileData[b]}

\* J_ASSERT(journal->j_free > 1) in jbd2_journal_next_log_block() holds
\* whenever a block is taken: one is left.
BlockLeft == journal.free >= 1

\* j_free is the distance from the head to the tail whichever way round the log
\* they stand: what next_log_block() takes and __jbd2_update_log_tail() gives back
\* add up.
FreeIsDistance ==
  journal.free =
    IF journal.head < journal.tail THEN journal.tail - journal.head
    ELSE journal.tail - journal.head + Maxlen - 1

\* The log never runs into its own tail.
LogNeverFull == BlockLeft /\ FreeIsDistance

\* __jbd2_log_wait_for_space() never finds itself with "no way to get more
\* journal space" and aborts the journal, with one exception: while the transaction
\* with tid 0 commits, which it takes for no transaction at all (else if (tid)).
NoSpaceAbort ==
  [][cpt.pc # "aborted" /\ cpt'.pc = "aborted" =>
       committing.pc # "none" /\ committing.tid = 0]_vars

\* While JBD2_FLUSHED is set the log is empty and the tail is where the next
\* transaction will start: J_ASSERTs of jbd2_journal_flush(), and what the next
\* commit relies on when it writes j_tail to the superblock again.
FlushedIsEmpty ==
  up /\ journal.flushed =>
    /\ journal.head = journal.tail
    /\ journal.tailSeq = IF running.state = "none" THEN journal.seq ELSE RunTid

\* Write-ahead: a buffer that belongs to a transaction is not dirty, so that
\* nobody writes it home; one that two transactions share belongs to the
\* committing one, and only then has a frozen copy.
JournalledNotDirty ==
  \A b \in Blocks :
    /\ bh[b].jt # "none" => ~bh[b].dirty
    /\ bh[b].next \/ bh[b].frozen # NoCopy => bh[b].jt = "com"

\* The task that makes room in the log, which sleeps with j_checkpoint_mutex
\* held until a transaction is committed, and that transaction's commit, which
\* needs the mutex to move the tail, never wait for each other.
NoMutexCycle ==
  ~ /\ cpt.pc = "wait" /\ ~tid_geq(journal.commitSeq, cpt.wait)
    /\ committing.pc = "update" /\ committing.tail # NoTail
=============================================================================
