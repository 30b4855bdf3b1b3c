--------------------------- MODULE Jbd2Log_proof ---------------------------
(***************************************************************************)
(* Write-ahead: no buffer is dirty while a transaction of the journal has  *)
(* it, for any number of blocks, any log and any sequence of handles,      *)
(* commits, checkpoints, power failures and recoveries.  The order of      *)
(* transaction numbers across the wrap of the sequence.  And the geometry  *)
(* of the log: its free blocks are the distance from its head to its tail, *)
(* and a flushed log is empty.                                             *)
(***************************************************************************)
EXTENDS Jbd2LogSpace

\* The fields of a buffer.
Fields == {"data", "jt", "next", "list", "frozen", "dirty", "jbddirty", "modified",
           "locked", "cp", "io", "revoked"}

\* What JournalledNotDirty says of one buffer, with what it takes to keep it.
Good(h) ==
  /\ h = [f \in Fields |-> h[f]]
  /\ h.jt \in {"none", "run", "com"}
  /\ h.jt # "none" => ~h.dirty
  /\ h.next \/ h.frozen # NoCopy => h.jt = "com"

\* The inductive invariant: every buffer is good.
BuffersGood == bh = [b \in Blocks |-> bh[b]] /\ \A b \in Blocks : Good(bh[b])

-----------------------------------------------------------------------------
(* What the operations on one buffer keep.                                 *)

\* A buffer as a mount finds it.
LEMMA GoodBuffer == \A v : Good(Buffer(v))
BY DEF Good, Buffer, Fields

\* __jbd2_journal_unfile_buffer(): a buffer without a copy leaves its list.
LEMMA GoodUnfile ==
  ASSUME NEW h, Good(h), ~h.next, h.frozen = NoCopy
  PROVE  Good(Unfile(h))
BY Zenon DEF Good, Unfile, Fields

\* __jbd2_journal_file_buffer(): what was dirty is jbddirty.
LEMMA GoodFile ==
  ASSUME NEW h, NEW list, Good(h), ~h.next, h.frozen = NoCopy
  PROVE  Good(File(h, list))
BY Zenon DEF Good, File, Fields

\* __jbd2_journal_refile_buffer(): it goes to the next transaction, or to none.
LEMMA GoodRefile ==
  ASSUME NEW h, Good(h), h.frozen = NoCopy
  PROVE  Good(Refile(h))
<1>1. CASE ~h.next BY <1>1, GoodUnfile, Zenon DEF Refile
<1>2. CASE h.next
  <2> DEFINE g == [h EXCEPT !.next = FALSE]
  <2>1. Good(g) /\ ~g.next /\ g.frozen = NoCopy BY <1>2, Zenon DEF Good, Fields
  <2>2. \A list : Good(File(g, list)) BY <2>1, GoodFile, Zenon
  <2> QED BY <1>2, <2>2, Zenon DEF Refile
<1> QED BY <1>1, <1>2

\* __jbd2_journal_remove_checkpoint() does not touch what Good is about.
LEMMA GoodRemoveCheckpoint ==
  ASSUME NEW h, Good(h)
  PROVE  /\ Good(RemoveCheckpoint(h))
         /\ RemoveCheckpoint(h).frozen = h.frozen /\ RemoveCheckpoint(h).next = h.next
BY Zenon DEF Good, RemoveCheckpoint, Fields

\* do_get_write_access(), of a buffer whose dirty bit it has cleared
LEMMA GoodAccess ==
  ASSUME NEW h, Good(h)
  PROVE  Good(Access(h))
<1> DEFINE m == [h EXCEPT !.modified = FALSE]
           f(x) == [m EXCEPT !.next = TRUE, !.frozen = x]
<1>1. Good(m) /\ m.jt = h.jt /\ m.next = h.next /\ m.frozen = h.frozen
  BY Zenon DEF Good, Fields
<1>2. CASE h.jt = "run" \/ h.next
  <2>1. h.jt # "none" BY <1>2, Zenon DEF Good
  <2> QED BY <1>2, <2>1, Zenon DEF Access
<1>3. CASE ~(h.jt = "run" \/ h.next) /\ h.jt = "none"
  <2>1. ~m.next /\ m.frozen = NoCopy BY <1>1, <1>3, Zenon DEF Good
  <2>2. Good(File(m, "Reserved")) BY <1>1, <2>1, GoodFile, Zenon
  <2> QED BY <1>3, <2>2, Zenon DEF Access
<1>4. CASE ~(h.jt = "run" \/ h.next) /\ h.jt # "none"
  <2>1. m.jt = "com" /\ ~m.dirty BY <1>1, <1>4, Zenon DEF Good
  <2>2. \A x : Good(f(x)) BY <1>1, <2>1, ZenonT(30) DEF Good, Fields
  <2>3. \E x : Access(h) = f(x) BY <1>4, Zenon DEF Access
  <2> HIDE DEF f
  <2> QED BY <2>2, <2>3, Zenon
<1> QED BY <1>2, <1>3, <1>4, Zenon

\* jbd2_journal_forget()
LEMMA GoodForget ==
  ASSUME NEW h, Good(h)
  PROVE  Good(Forget(h))
<1> DEFINE f == [h EXCEPT !.modified = FALSE]
           c == [f EXCEPT !.dirty = FALSE, !.jbddirty = FALSE]
<1>1. Good(f) /\ Good(c) BY Zenon DEF Good, Fields
<1>2. CASE h.jt = "run"
  <2>1. ~c.next /\ c.frozen = NoCopy BY <1>2 DEF Good, Fields
  <2>2. Good(Unfile(c)) BY <1>1, <2>1, GoodUnfile, Zenon
  <2>3. Good([c EXCEPT !.list = "Forget"]) BY <1>1, Zenon DEF Good, Fields
  <2> QED BY <1>2, <2>2, <2>3 DEF Forget
<1>3. CASE h.jt = "com" BY <1>3, Zenon DEF Forget, Good, Fields
<1>4. CASE h.jt = "none" BY <1>1, <1>4 DEF Forget
<1> QED BY <1>2, <1>3, <1>4 DEF Good

\* A change of fields that Good does not mention.
LEMMA GoodOther ==
  ASSUME NEW h, NEW g, Good(h), g = [f \in Fields |-> g[f]],
         g.jt = h.jt, g.next = h.next, g.frozen = h.frozen, g.dirty = h.dirty
  PROVE  Good(g)
BY DEF Good

-----------------------------------------------------------------------------
(* Every step keeps the invariant.                                         *)

\* A step that leaves the buffers alone.
LEMMA SameBuffers == ASSUME BuffersGood, bh' = bh PROVE BuffersGood'
BY Zenon DEF BuffersGood, Good

\* A step that computes every buffer afresh.
LEMMA AllBuffers ==
  ASSUME NEW g, \A b \in Blocks : Good(g[b]), bh' = [b \in Blocks |-> g[b]]
  PROVE  BuffersGood'
BY Zenon DEF BuffersGood, Good

\* A step that replaces one buffer by a good one.
LEMMA OneBuffer ==
  ASSUME BuffersGood, NEW b \in Blocks, NEW g, Good(g), bh' = [bh EXCEPT ![b] = g]
  PROVE  BuffersGood'
BY DEF BuffersGood, Good

\* The steps of the handles.
LEMMA HandleKeeps == BuffersGood /\ HandleStep => BuffersGood'
<1> SUFFICES ASSUME BuffersGood, HandleStep PROVE BuffersGood'
  OBVIOUS
<1>1. CASE GetTransaction
  <2>1. bh' = bh BY <1>1, Zenon DEF GetTransaction, bufVars
  <2> QED BY <2>1, SameBuffers, Zenon
<1>2. ASSUME NEW c \in 1 .. MaxCredits, StartHandle(c) \/ ExtendHandle(c) PROVE BuffersGood'
  <2>1. bh' = bh BY <1>2, Zenon DEF StartHandle, ExtendHandle, bufVars
  <2> QED BY <2>1, SameBuffers, Zenon
<1>d. ASSUME NEW b \in Blocks, ClearDirty(b) PROVE BuffersGood'
  <2> DEFINE g == [bh[b] EXCEPT !.dirty = FALSE, !.jbddirty = TRUE]
  <2>1. Good(bh[b]) BY DEF BuffersGood
  <2>2. Good(g) BY <2>1, Zenon DEF Good, Fields
  <2>3. bh' = [bh EXCEPT ![b] = g] BY <1>d DEF ClearDirty
  <2> QED BY <2>2, <2>3, OneBuffer, Zenon
<1>3. ASSUME NEW b \in Blocks, GetWriteAccess(b) PROVE BuffersGood'
  <2> DEFINE a == Access(bh[b])
             g == [a EXCEPT !.revoked = FALSE]
  <2>1. Good(a) BY GoodAccess DEF BuffersGood
  <2>2. Good(g) BY <2>1, Zenon DEF Good, Fields
  <2>3. bh' = [bh EXCEPT ![b] = g] BY <1>3 DEF GetWriteAccess
  <2> QED BY <2>2, <2>3, OneBuffer, Zenon
<1>4. ASSUME NEW b \in Blocks, GetCreateAccess(b) PROVE BuffersGood'
  <2> DEFINE h == bh[b]
             g == CASE h.jt = "run"  -> [h EXCEPT !.revoked = FALSE]
                    [] h.jt = "none" -> File([h EXCEPT !.revoked = FALSE, !.dirty = FALSE,
                                                       !.modified = FALSE], "Reserved")
                    [] OTHER         -> [h EXCEPT !.revoked = FALSE, !.modified = FALSE,
                                           !.next = TRUE]
  <2>1. Good(h) BY DEF BuffersGood
  <2>2. Good(g) BY <2>1, Zenon DEF Good, Fields, File
  <2>3. bh' = [bh EXCEPT ![b] = g] BY <1>4 DEF GetCreateAccess
  <2> QED BY <2>2, <2>3, OneBuffer, Zenon
<1>5. ASSUME NEW b \in Blocks, DirtyMetadata(b) PROVE BuffersGood'
  <2> DEFINE h == bh[b]
             g == [h EXCEPT !.data = version + 1, !.modified = TRUE, !.jbddirty = TRUE,
                            !.list = IF h.jt = "run" THEN "Metadata" ELSE h.list]
  <2>1. Good(h) BY DEF BuffersGood
  <2>2. Good(g) BY <2>1, Zenon DEF Good, Fields
  <2>3. bh' = [bh EXCEPT ![b] = g] BY <1>5 DEF DirtyMetadata
  <2> QED BY <2>2, <2>3, OneBuffer, Zenon
<1>6. ASSUME NEW b \in Blocks, Revoke(b) PROVE BuffersGood'
  <2> DEFINE a == Forget(bh[b])
             g == [a EXCEPT !.revoked = TRUE]
  <2>1. Good(a) BY GoodForget DEF BuffersGood
  <2>2. Good(g) BY <2>1, Zenon DEF Good, Fields
  <2>3. bh' = [bh EXCEPT ![b] = g] BY <1>6 DEF Revoke
  <2> QED BY <2>2, <2>3, OneBuffer, Zenon
<1>7. CASE StopHandle
  <2>1. bh' = bh BY <1>7, Zenon DEF StopHandle, bufVars
  <2> QED BY <2>1, SameBuffers, Zenon
<1> QED BY <1>1, <1>2, <1>d, <1>3, <1>4, <1>5, <1>6, <1>7, SMTT(20) DEF HandleStep

\* The steps of the commit thread.
LEMMA CommitKeeps == BuffersGood /\ CommitStep => BuffersGood'
<1> SUFFICES ASSUME BuffersGood, CommitStep PROVE BuffersGood'
  OBVIOUS
<1>g. \A b \in Blocks : Good(bh[b]) BY DEF BuffersGood
<1>1. CASE CommitLock \/ WriteRevokeRecords \/ SubmitLog \/ FlushForTail
  <2>1. bh' = bh
    BY <1>1, Zenon DEF CommitLock, WriteRevokeRecords, SubmitLog, FlushForTail, bufVars
  <2> QED BY <2>1, SameBuffers, Zenon
<1>2. CASE CommitRecord \/ UpdateLogTail \/ CommitDone
  <2>1. bh' = bh BY <1>2, Zenon DEF CommitRecord, UpdateLogTail, CommitDone, bufVars
  <2> QED BY <2>1, SameBuffers, Zenon
<1>3. CASE CommitSwitch
  <2> DEFINE u == [b \in Blocks |->
               IF bh[b].jt = "run" /\ bh[b].list = "Reserved" THEN Refile(bh[b]) ELSE bh[b]]
             c(S) == [b \in Blocks |-> IF b \in S THEN RemoveCheckpoint(u[b]) ELSE u[b]]
  <2>1. \A b \in Blocks : Good(u[b])
    <3> TAKE b \in Blocks
    <3>1. CASE bh[b].jt = "run"
      <4>1. bh[b].frozen = NoCopy BY <1>g, <3>1, Zenon DEF Good
      <4>2. Good(Refile(bh[b])) BY <1>g, <4>1, GoodRefile, SMTT(20)
      <4> QED BY <1>g, <4>2
    <3>2. CASE bh[b].jt # "run" BY <1>g, <3>2
    <3> QED BY <3>1, <3>2
  <2>2. \A S : \A b \in Blocks : Good(c(S)[b]) BY <2>1, GoodRemoveCheckpoint
  <2>3. \A S : \A b \in Blocks : Good(Switched(c(S)[b]))
    <3> SUFFICES ASSUME NEW h, Good(h) PROVE Good(Switched(h))
      BY <2>2
    <3> QED BY Zenon DEF Good, Switched, Fields
  <2>4. PICK S \in SUBSET Blocks : bh' = [b \in Blocks |-> Switched(c(S)[b])]
    BY <1>3, Zenon DEF CommitSwitch
  <2> DEFINE g == [b \in Blocks |-> Switched(c(S)[b])]
  <2>5. \A b \in Blocks : Good(g[b]) BY <2>3
  <2>6. bh' = [b \in Blocks |-> g[b]] BY <2>4
  <2> HIDE DEF g
  <2> QED BY <2>5, <2>6, AllBuffers, Zenon
<1>4. ASSUME NEW b \in Blocks, WriteMetadataBuffer(b) PROVE BuffersGood'
  <2> DEFINE g == [bh[b] EXCEPT !.list = "Shadow"]
  <2>1. Good(g) BY <1>g, Zenon DEF Good, Fields
  <2>2. bh' = [bh EXCEPT ![b] = g] BY <1>4 DEF WriteMetadataBuffer
  <2> QED BY <2>1, <2>2, OneBuffer, Zenon
<1>5. CASE WaitLogIo
  <2> DEFINE g(b) == IF bh[b].jt = "com" /\ bh[b].list = "Shadow"
                     THEN [bh[b] EXCEPT !.list = "Forget"] ELSE bh[b]
  <2>1. \A b \in Blocks : Good([bh[b] EXCEPT !.list = "Forget"])
    BY <1>g, ZenonT(30) DEF Good, Fields
  <2> DEFINE a == [b \in Blocks |-> g(b)]
  <2>2. \A b \in Blocks : Good(a[b]) BY <1>g, <2>1
  <2>3. bh' = [b \in Blocks |-> a[b]] BY <1>5 DEF WaitLogIo
  <2> HIDE DEF a
  <2> QED BY <2>2, <2>3, AllBuffers, Zenon
<1>6. ASSUME NEW b \in Blocks, ForgetBuffer(b) PROVE BuffersGood'
  <2> DEFINE k == [bh[b] EXCEPT !.frozen = NoCopy]
             h == RemoveCheckpoint(k)
             n == IF h.jbddirty THEN [h EXCEPT !.cp = committing.tid] ELSE h
  <2>1. Good(k) /\ k.frozen = NoCopy BY <1>g, Zenon DEF Good, Fields
  <2>2. Good(h) /\ h.frozen = NoCopy BY <2>1, GoodRemoveCheckpoint, Zenon
  <2>3. Good([h EXCEPT !.cp = committing.tid]) /\ [h EXCEPT !.cp = committing.tid].frozen = NoCopy
    BY <2>2 DEF Good, Fields
  <2>4. Good(n) /\ n.frozen = NoCopy BY <2>2, <2>3
  <2>5. Good(Refile(n)) BY <2>4, GoodRefile, Zenon
  <2>6. bh' = [bh EXCEPT ![b] = Refile(n)] BY <1>6 DEF ForgetBuffer
  <2> QED BY <2>5, <2>6, OneBuffer, Zenon
<1> QED BY <1>1, <1>2, <1>3, <1>4, <1>5, <1>6, SMTT(20) DEF CommitStep

\* The steps of checkpointing and of the buffer cache.
LEMMA CheckpointKeeps == BuffersGood /\ (CheckpointStep \/ BufferStep) => BuffersGood'
<1> SUFFICES ASSUME BuffersGood, CheckpointStep \/ BufferStep PROVE BuffersGood'
  OBVIOUS
<1>g. \A b \in Blocks : Good(bh[b]) BY DEF BuffersGood
<1>s. ASSUME NEW b \in Blocks, Submit(b) PROVE BuffersGood'
  <2> DEFINE g == [bh[b] EXCEPT !.dirty = FALSE, !.locked = TRUE]
  <2>1. Good(g) BY <1>g, Zenon DEF Good, Fields
  <2>2. bh' = [bh EXCEPT ![b] = g] BY <1>s, Zenon DEF Submit
  <2> QED BY <2>1, <2>2, OneBuffer, Zenon
<1>r. ASSUME NEW b \in Blocks, bh' = [bh EXCEPT ![b] = RemoveCheckpoint(@)] PROVE BuffersGood'
  <2>1. Good(RemoveCheckpoint(bh[b])) BY <1>g, GoodRemoveCheckpoint
  <2> QED BY <1>r, <2>1, OneBuffer, Zenon
<1>1. CASE WaitForSpace \/ WaitCommit \/ CheckpointDone \/ JournalFlush
  <2>1. bh' = bh
    BY <1>1, Zenon DEF WaitForSpace, WaitCommit, CheckpointDone, JournalFlush, bufVars
  <2> QED BY <2>1, SameBuffers, Zenon
<1>2. ASSUME NEW b \in Blocks, ProcessBuffer(b) PROVE BuffersGood'
  <2> DEFINE g == [bh[b] EXCEPT !.io = TRUE]
  <2>1. Good(g) BY <1>g, Zenon DEF Good, Fields
  <2>2. CASE bh' = bh BY <2>2, SameBuffers, Zenon
  <2>3. CASE bh' = [bh EXCEPT ![b] = g] BY <2>1, <2>3, OneBuffer, Zenon
  <2>4. CASE bh' = [bh EXCEPT ![b] = RemoveCheckpoint(@)] BY <2>4, <1>r, Zenon
  <2> QED BY <1>2, <2>2, <2>3, <2>4 DEF ProcessBuffer
<1>3. ASSUME NEW b \in Blocks, FlushBatch(b) PROVE BuffersGood'
  <2>1. CASE Submit(b) BY <2>1, <1>s
  <2>2. CASE bh' = bh BY <2>2, SameBuffers, Zenon
  <2> QED BY <1>3, <2>1, <2>2 DEF FlushBatch
<1>4. ASSUME NEW b \in Blocks, WaitCpIo(b) PROVE BuffersGood'
  BY <1>4, <1>r, Zenon DEF WaitCpIo
<1>5. ASSUME NEW b \in Blocks, WriteBack(b) PROVE BuffersGood'
  BY <1>5, <1>s DEF WriteBack
<1>6. ASSUME NEW b \in Blocks, EndWrite(b) PROVE BuffersGood'
  <2> DEFINE g == [bh[b] EXCEPT !.locked = FALSE]
  <2>1. Good(g) BY <1>g, Zenon DEF Good, Fields
  <2>2. bh' = [bh EXCEPT ![b] = g] BY <1>6 DEF EndWrite
  <2> QED BY <2>1, <2>2, OneBuffer, Zenon
<1>7. ASSUME NEW b \in Blocks, TryToFreeBuffer(b) PROVE BuffersGood'
  BY <1>7, <1>r, Zenon DEF TryToFreeBuffer
<1>8. ASSUME NEW b \in Blocks, WriteFileData(b) PROVE BuffersGood'
  <2> DEFINE g == [bh[b] EXCEPT !.dirty = FALSE]
  <2>1. Good(g) BY <1>g, Zenon DEF Good, Fields
  <2>2. bh' = [bh EXCEPT ![b] = g] BY <1>8 DEF WriteFileData
  <2> QED BY <2>1, <2>2, OneBuffer, Zenon
<1> QED BY <1>1, <1>2, <1>3, <1>4, <1>5, <1>6, <1>7, <1>8, SMTT(20) DEF CheckpointStep, BufferStep

-----------------------------------------------------------------------------
\* A mount starts with clean buffers that belong to no transaction.
LEMMA InitGood == Init => BuffersGood
BY GoodBuffer DEF Init, BuffersGood, Good

\* Every step keeps the buffers good: those of a running system by the lemmas
\* above, a power failure and jbd2_journal_load() because they start afresh.
LEMMA NextKeeps == BuffersGood /\ [Next]_vars => BuffersGood'
<1> SUFFICES ASSUME BuffersGood, [Next]_vars PROVE BuffersGood'
  OBVIOUS
<1>1. CASE HandleStep BY <1>1, HandleKeeps
<1>2. CASE CommitStep BY <1>2, CommitKeeps
<1>3. CASE CheckpointStep \/ BufferStep BY <1>3, CheckpointKeeps
<1>4. CASE Crash
  <2> DEFINE g == [b \in Blocks |-> Buffer(Free)]
  <2>1. bh' = g BY <1>4 DEF Crash
  <2>2. \A b \in Blocks : Good(g[b]) BY GoodBuffer
  <2>3. g = [b \in Blocks |-> g[b]] OBVIOUS
  <2> HIDE DEF g
  <2> QED BY <2>1, <2>2, <2>3, AllBuffers, Zenon
<1>5. CASE CrashInReplay
  <2>1. bh' = bh BY <1>5, Zenon DEF CrashInReplay
  <2> QED BY <2>1, SameBuffers, Zenon
<1>6. CASE Recover
  <2> DEFINE g == [b \in Blocks |-> Buffer(fs'[b].cur)]
  <2>1. bh' = g BY <1>6, Zenon DEF Recover
  <2>2. \A b \in Blocks : Good(g[b]) BY GoodBuffer
  <2>3. g = [b \in Blocks |-> g[b]] OBVIOUS
  <2> HIDE DEF g
  <2> QED BY <2>1, <2>2, <2>3, AllBuffers, Zenon
<1>7. CASE UNCHANGED vars
  <2>1. bh' = bh BY <1>7 DEF vars
  <2> QED BY <2>1, SameBuffers, Zenon
<1> QED BY <1>1, <1>2, <1>3, <1>4, <1>5, <1>6, <1>7, SMTT(20) DEF Next

\* Write-ahead: a buffer that a transaction has is never dirty, so that the
\* buffer cache cannot write it to its place before the commit block is in the
\* log (__jbd2_journal_file_buffer() clears the bit and
\* __jbd2_journal_unfile_buffer() gives it back); and a buffer has a frozen copy
\* or a next transaction only while the committing one has it.
THEOREM WriteAhead == Spec => []JournalledNotDirty
<1>1. BuffersGood => JournalledNotDirty
  BY DEF BuffersGood, Good, JournalledNotDirty
<1> QED BY <1>1, InitGood, NextKeeps, PTL DEF Spec

-----------------------------------------------------------------------------
(* Transaction numbers are compared through the sign of a difference that  *)
(* wraps.  That is right, whatever the width of the word, as long as all   *)
(* that are in use at a time lie within half of the numbers there are.     *)

\* How many transactions may lie between the oldest tid in use and another one.
Window == 0 .. TidHalf - 1

\* How far two tids of one window are apart, whether or not the numbers wrapped
\* between them.
LEMMA TidDifferenceInWindow ==
  \A x \in Tid, j, k \in Window : TidDifference(TidPlus(x, j), TidPlus(x, k)) = j - k
<1> TAKE x \in Tid, j, k \in Window
<1> USE TidHalfAssumption DEF Tid, TidMod, Window
<1>1. CASE j >= k
  <2>1. TidDistance(TidPlus(x, j), TidPlus(x, k)) = j - k
    BY <1>1 DEF TidDistance, TidPlus
  <2> QED BY <1>1, <2>1, SMTT(20) DEF TidDifference
<1>2. CASE j < k
  <2>1. TidDistance(TidPlus(x, j), TidPlus(x, k)) = j - k + TidMod
    BY <1>2 DEF TidDistance, TidPlus
  <2> QED BY <1>2, <2>1, SMTT(20) DEF TidDifference
<1> QED BY <1>1, <1>2, SMTT(20)

\* tid_gt() and tid_geq() order the transactions of one window by age, across
\* the wrap of the sequence: of two transactions the later one is the greater.
THEOREM TidOrder ==
  \A x \in Tid, j, k \in Window :
    /\ tid_gt(TidPlus(x, j), TidPlus(x, k)) <=> j > k
    /\ tid_geq(TidPlus(x, j), TidPlus(x, k)) <=> j >= k
<1> TAKE x \in Tid, j, k \in Window
<1>1. TidDifference(TidPlus(x, j), TidPlus(x, k)) = j - k
  BY TidDifferenceInWindow
<1> QED BY <1>1, TidHalfAssumption DEF tid_gt, tid_geq, Window

\* The edge of the window: of two tids that are half of the numbers apart
\* tid_gt() calls neither the later one, so the bound of TidOrder is tight.
THEOREM TidHalfApart ==
  \A x \in Tid : /\ ~tid_gt(TidPlus(x, TidHalf), x)
                 /\ ~tid_gt(x, TidPlus(x, TidHalf))
<1> TAKE x \in Tid
<1> USE TidHalfAssumption DEF Tid, TidMod
<1>1. TidDistance(TidPlus(x, TidHalf), x) = TidHalf /\ TidDistance(x, TidPlus(x, TidHalf)) = TidHalf
  BY DEF TidDistance, TidPlus
<1> QED BY <1>1 DEF tid_gt, TidDifference

-----------------------------------------------------------------------------
(* The geometry of the log: the commit, power failures and the recovery.   *)

\* jbd2_journal_next_log_block(), n times.
Takes(n) == journal' = [journal EXCEPT !.head = LogAdd(journal.head, n), !.free = @ - n]

\* The committing transaction takes blocks of the log, or none.
LEMMA CommitTakes ==
  ASSUME Maxlen <= TidHalf, LogInv, NEW n \in Nat,
         committing.pc # "none", committing'.pc # "none",
         committing' = [f \in CommitFields |-> committing'[f]],
         committing'.tid = committing.tid, committing'.start = committing.start,
         RecordTaken' => RecordTaken \/ n > 0,
         Takes(n), journal'.free >= 1,
         running' = running, checkpoint' = checkpoint, mode' = mode,
         \A v \in Values(sb') : v.seq \in Tid
  PROVE  /\ LogType' /\ SpaceInv' /\ CommitInv' /\ FlushedInv' /\ ListInv'
         /\ EndPlace' = EndPlace /\ TailPlace' = TailPlace
<1>1. journal \in JournalType BY TypeFacts
<1>2. /\ journal'.head = LogAdd(journal.head, n) /\ journal'.free = journal.free - n
      /\ journal'.tail = journal.tail /\ journal'.tailSeq = journal.tailSeq
      /\ journal'.seq = journal.seq /\ journal'.flushed = journal.flushed
      /\ journal'.commitSeq = journal.commitSeq
  BY <1>1, Zenon DEF JournalType, Takes
<1>3. OpenTid' = OpenTid BY <1>2 DEF OpenTid, RunTid
<1>4. EndPlace' = EndPlace BY DEF EndPlace
<1>5. TailPlace' = TailPlace BY <1>2, Zenon DEF TailPlace
<1>6. /\ SpaceInv' /\ journal'.head \in LogBlocks
      /\ n > 0 \/ committing.start # journal.head => journal'.head # committing.start
  BY <1>2, <1>4, <1>5, SpaceTaken
<1>7. journal' \in JournalType
  <2>1. /\ journal.free - n \in Int /\ journal.tail \in LogBlocks /\ journal.tailSeq \in Tid
        /\ journal.seq \in Tid /\ journal.commitSeq \in Tid /\ journal.flushed \in BOOLEAN
    BY <1>1 DEF JournalType
  <2>2. journal' = [head |-> LogAdd(journal.head, n), tail |-> journal.tail,
                    tailSeq |-> journal.tailSeq, free |-> journal.free - n, seq |-> journal.seq,
                    commitSeq |-> journal.commitSeq, flushed |-> journal.flushed]
    BY <1>1, Zenon DEF Takes, JournalType
  <2>3. LogAdd(journal.head, n) \in LogBlocks BY <1>2, <1>6
  <2> QED BY <2>1, <2>2, <2>3, Zenon DEF JournalType
<1>8. LogType'
  BY <1>7, Zenon DEF LogInv, LogType, JournalType, Place, Tid, TidMod, LogBlocks, Values,
       CommitFields, RunningFields
<1>9. CommitInv'
  <2>1. running.state # "locked" /\ OpenTid = TidPlus(committing.tid, 1)
        /\ committing.tid \in Tid /\ committing.start \in LogBlocks
        /\ (RecordTaken => committing.start # journal.head)
    BY DEF LogInv, CommitInv
  <2>2. RecordTaken' => committing'.start # journal'.head BY <1>6, <2>1, SMTT(20)
  <2> QED BY <1>3, <2>1, <2>2, Zenon DEF CommitInv, Tid, TidMod, LogBlocks
<1>10. FlushedInv' BY <1>2 DEF LogInv, FlushedInv
<1>11. ListInv'
  <2>1. Thinned(checkpoint', checkpoint) BY SameList, TypeFacts
  <2>2. TailPlace \in Place BY EndFacts
  <2>3. \A i \in DOMAIN checkpoint : Room(EndPlace, checkpoint[i]) <= Room(EndPlace, TailPlace)
    BY DEF LogInv, ListInv
  <2> QED BY <1>4, <1>5, <2>1, <2>2, <2>3, ListKept, SMTT(20)
<1> QED BY <1>4, <1>5, <1>6, <1>8, <1>9, <1>10, <1>11, SMTT(20)

\* jbd2_journal_commit_transaction() up to where the new transaction has its place.
LEMMA CommitBegins ==
  Maxlen <= TidHalf /\ LogInv /\ (CommitLock \/ CommitSwitch) => LogInv'
<1> SUFFICES ASSUME Maxlen <= TidHalf, LogInv, CommitLock \/ CommitSwitch PROVE LogInv'
  OBVIOUS
<1>t. journal \in JournalType /\ journal.seq \in Tid /\ journal.tailSeq \in Tid
      /\ checkpoint \in Seq(Place)
  BY TypeFacts DEF JournalType
<1>1. CASE CommitLock
  <2>1. /\ running.state = "running" /\ committing.pc = "none"
        /\ sb' = Put(sb, [seq |-> journal.tailSeq, start |-> journal.tail]) \/ sb' = sb
        /\ journal' = [journal EXCEPT !.flushed = FALSE]
        /\ running' = [running EXCEPT !.state = "locked"]
        /\ committing' = committing /\ checkpoint' = checkpoint /\ mode' = mode
    BY <1>1, Zenon DEF CommitLock, sysVars
  <2>2. /\ journal' \in JournalType /\ journal'.flushed = FALSE
        /\ journal'.head = journal.head /\ journal'.tail = journal.tail
        /\ journal'.tailSeq = journal.tailSeq /\ journal'.free = journal.free
        /\ journal'.seq = journal.seq
    BY <1>t, <2>1, Zenon DEF JournalType
  <2>3. running'.state = "locked" /\ running' = [f \in RunningFields |-> running'[f]]
    BY <2>1, TypeFacts, Zenon DEF RunningFields
  <2>4. OpenTid' = OpenTid BY <2>1, <2>2, <2>3 DEF OpenTid, RunTid
  <2>5. EndPlace' = EndPlace /\ TailPlace' = TailPlace
    BY <2>1, <2>2, <2>4, Zenon DEF EndPlace, TailPlace
  <2>6. \A v \in Values(sb') : v.seq \in Tid
    <3>1. CASE sb' = sb BY <3>1, TypeFacts
    <3>2. CASE sb' = Put(sb, [seq |-> journal.tailSeq, start |-> journal.tail])
      <4>1. Values(sb') = Values(sb) \cup {[seq |-> journal.tailSeq, start |-> journal.tail]}
        BY <3>2 DEF Values, Put
      <4> QED BY <1>t, <4>1, TypeFacts, SMTT(20)
    <3> QED BY <2>1, <3>1, <3>2
  <2>7. LogType'
    BY <2>1, <2>2, <2>3, <2>6, Zenon DEF LogInv, LogType, JournalType, Place, Tid, TidMod,
       LogBlocks, Values, CommitFields, RunningFields
  <2>8. SpaceInv' /\ ListInv' /\ TailInv'
    <3>1. Thinned(checkpoint', checkpoint) BY <1>t, <2>1, SameList
    <3>2. ~TailChosen' BY <2>1 DEF TailChosen
    <3> QED BY <2>1, <2>2, <2>5, <3>1, <3>2, PlacesKept, SMTT(20)
  <2>9. CommitInv' /\ FlushedInv' BY <2>1, <2>2 DEF CommitInv, FlushedInv
  <2> QED BY <2>7, <2>8, <2>9 DEF LogInv
<1>2. CASE CommitSwitch
  <2>1. /\ running.state = "locked" /\ running' = NoRunning
        /\ committing' = [NoCommit EXCEPT !.pc = "revoke", !.tid = RunTid,
                                          !.start = journal.head, !.out = running.out]
        /\ journal' = journal /\ sb' = sb /\ mode' = mode
    BY <1>2, Zenon DEF CommitSwitch, diskVars, sysVars
  <2>2. \E bufs : checkpoint' = StillNeeded(bufs) BY <1>2, Zenon DEF CommitSwitch
  <2>3. checkpoint' \in Seq(Place) /\ Thinned(checkpoint', checkpoint)
    BY <1>t, <2>2, KeptThins
  <2>4. /\ committing'.pc = "revoke" /\ committing'.tid = RunTid
        /\ committing'.start = journal.head
        /\ committing' = [f \in CommitFields |-> committing'[f]]
    BY <2>1, Zenon DEF NoCommit, CommitFields
  <2>5. running'.state = "none" /\ running' = [f \in RunningFields |-> running'[f]]
    BY <2>1, Zenon DEF NoRunning, RunningFields
  <2>6. committing.pc = "none" /\ ~journal.flushed
    BY <2>1 DEF LogInv, CommitInv, FlushedInv
  <2>7. RunTid \in Tid /\ OpenTid = RunTid /\ OpenTid' = TidPlus(RunTid, 1)
    BY <1>t, <2>1, <2>5, TidType, Zenon DEF RunTid, OpenTid
  <2>8. EndPlace' = EndPlace /\ TailPlace' = TailPlace
    BY <2>1, <2>4, <2>6, <2>7, SMTT(20) DEF EndPlace, TailPlace
  <2>9. LogType'
    BY <2>1, <2>3, <2>4, <2>5, Zenon DEF LogInv, LogType, JournalType, Place, Tid, TidMod,
       LogBlocks, Values, CommitFields, RunningFields
  <2>10. SpaceInv' /\ ListInv' /\ TailInv'
    <3>1. ~TailChosen' BY <2>4 DEF TailChosen
    <3> QED BY <2>1, <2>3, <2>4, <2>8, <3>1, PlacesKept, SMTT(20)
  <2>11. CommitInv' /\ FlushedInv'
    <3>1. ~RecordTaken' BY <2>4 DEF RecordTaken
    <3>2. journal.head \in LogBlocks BY <1>t, SMTT(20) DEF JournalType
    <3> QED BY <2>1, <2>4, <2>5, <2>6, <2>7, <3>1, <3>2, SMTT(20) DEF CommitInv, FlushedInv
  <2> QED BY <2>9, <2>10, <2>11, SMTT(20) DEF LogInv
<1> QED BY <1>1, <1>2

\* A step of the commit that takes blocks and leaves a chosen tail alone.
LEMMA CommitWrites ==
  ASSUME Maxlen <= TidHalf, LogInv, NEW n \in Nat, NEW p \in {"write", "tail", "record", "update"},
         committing.pc # "none",
         committing'.pc = p, committing' = [f \in CommitFields |-> committing'[f]],
         committing'.tid = committing.tid, committing'.start = committing.start,
         p \in {"record", "update"} =>
           committing.pc \in {"io", "record"} /\ committing'.tail = committing.tail,
         p = "record" => committing.pc = "io",
         p = "update" => committing.pc = "record" /\ (mode.async \/ n > 0),
         Takes(n), journal'.free >= 1,
         running' = running, checkpoint' = checkpoint, mode' = mode,
         \A v \in Values(sb') : v.seq \in Tid
  PROVE  LogInv'
<1>1. RecordTaken' => RecordTaken \/ n > 0 BY DEF RecordTaken
<1>2. /\ LogType' /\ SpaceInv' /\ CommitInv' /\ FlushedInv' /\ ListInv'
      /\ EndPlace' = EndPlace /\ TailPlace' = TailPlace
  BY <1>1, CommitTakes
<1>3. TailChosen' => /\ TailChosen /\ committing'.tail = committing.tail
                     /\ Age(EndPlace, committing.tail) < Age(EndPlace, TailPlace) =>
                          Room(EndPlace, committing.tail) <= Room(EndPlace, TailPlace)
  <2>1. TailChosen' => TailChosen /\ committing'.tail = committing.tail
    BY DEF TailChosen
  <2> QED BY <2>1 DEF LogInv, TailInv
<1>4. Thinned(checkpoint', checkpoint) BY SameList, TypeFacts, SMTT(20)
<1>5. TailInv' BY <1>2, <1>3, <1>4, EndFacts, ChoiceKept, SMTT(20)
<1> QED BY <1>2, <1>5, SMTT(20) DEF LogInv

\* A step that leaves the journal as it is takes no block.
LEMMA TakesNone ==
  ASSUME LogInv, journal' = journal
  PROVE  Takes(0)
<1>1. journal \in JournalType /\ journal.head \in LogBlocks /\ journal.free \in Int
  BY TypeFacts DEF JournalType
<1>2. LogAdd(journal.head, 0) = journal.head /\ journal.free - 0 = journal.free
  BY <1>1, Jbd2Assumption DEF LogAdd, LogBlocks
<1>3. journal = [journal EXCEPT !.head = LogAdd(journal.head, 0), !.free = @ - 0]
  BY <1>1, <1>2, Zenon DEF JournalType
<1> QED BY <1>3 DEF Takes

\* The steps of the commit that put blocks into the log.
LEMMA CommitWritesLog ==
  ASSUME Maxlen <= TidHalf, LogInv, journal.free >= 1, journal'.free >= 1,
         WriteRevokeRecords \/ (\E b \in Blocks : WriteMetadataBuffer(b))
           \/ SubmitLog \/ WaitLogIo \/ CommitRecord
  PROVE  LogInv'
<1>c. committing = [f \in CommitFields |-> committing[f]] BY TypeFacts
<1>s. \A v \in Values(sb) : v.seq \in Tid BY TypeFacts
<1>1. CASE WriteRevokeRecords
  <2>1. /\ committing.pc = "revoke" /\ committing' = [committing EXCEPT !.pc = "write"]
        /\ journal' = journal \/ journal' = Take(journal, 1)
        /\ running' = running /\ checkpoint' = checkpoint /\ sb' = sb /\ mode' = mode
    BY <1>1, Zenon DEF WriteRevokeRecords, sysVars
  <2>2. Takes(0) \/ Takes(1) BY <2>1, TakesNone DEF Takes, Take
  <2>3. /\ committing'.pc = "write" /\ committing' = [f \in CommitFields |-> committing'[f]]
        /\ committing'.tid = committing.tid /\ committing'.start = committing.start
    BY <1>c, <2>1, Zenon DEF CommitFields
  <2> QED BY <1>s, <2>1, <2>2, <2>3, CommitWrites, SMTT(20)
<1>2. ASSUME NEW b \in Blocks, WriteMetadataBuffer(b) PROVE LogInv'
  <2>1. /\ committing.pc = "write"
        /\ \E x, y, z : committing' = [committing EXCEPT !.desc = x, !.out = y, !.wbuf = z]
        /\ journal' = Take(journal, 2) \/ journal' = Take(journal, 1)
        /\ running' = running /\ checkpoint' = checkpoint /\ sb' = sb /\ mode' = mode
    BY <1>2, Zenon DEF WriteMetadataBuffer, sysVars, diskVars
  <2>2. Takes(1) \/ Takes(2) BY <2>1 DEF Takes, Take
  <2>3. /\ committing'.pc = "write" /\ committing' = [f \in CommitFields |-> committing'[f]]
        /\ committing'.tid = committing.tid /\ committing'.start = committing.start
    BY <1>c, <2>1, Zenon DEF CommitFields
  <2> QED BY <1>s, <2>1, <2>2, <2>3, CommitWrites
<1>3. CASE SubmitLog
  <2>1. /\ committing.pc = "write" /\ committing' = [committing EXCEPT !.pc = "tail"]
        /\ journal' = journal
        /\ running' = running /\ checkpoint' = checkpoint /\ sb' = sb /\ mode' = mode
    BY <1>3, Zenon DEF SubmitLog, sysVars
  <2>2. Takes(0) BY <2>1, TakesNone
  <2>3. /\ committing'.pc = "tail" /\ committing' = [f \in CommitFields |-> committing'[f]]
        /\ committing'.tid = committing.tid /\ committing'.start = committing.start
    BY <1>c, <2>1, Zenon DEF CommitFields
  <2> QED BY <1>s, <2>1, <2>2, <2>3, CommitWrites, SMTT(20)
<1>4. CASE WaitLogIo
  <2>1. /\ committing.pc = "io" /\ committing' = [committing EXCEPT !.pc = "record"]
        /\ journal' = journal
        /\ running' = running /\ checkpoint' = checkpoint /\ sb' = sb /\ mode' = mode
    BY <1>4, Zenon DEF WaitLogIo, sysVars
  <2>2. Takes(0) BY <2>1, TakesNone
  <2>3. /\ committing'.pc = "record" /\ committing' = [f \in CommitFields |-> committing'[f]]
        /\ committing'.tid = committing.tid /\ committing'.start = committing.start
        /\ committing'.tail = committing.tail
    BY <1>c, <2>1, Zenon DEF CommitFields
  <2> QED BY <1>s, <2>1, <2>2, <2>3, CommitWrites
<1>5. CASE CommitRecord
  <2>1. /\ committing.pc = "record" /\ committing' = [committing EXCEPT !.pc = "update"]
        /\ (mode.async /\ journal' = journal) \/ journal' = Take(journal, 1)
        /\ sb' = Cell(sb.cur)
        /\ running' = running /\ checkpoint' = checkpoint /\ mode' = mode
    BY <1>5, Zenon DEF CommitRecord, sysVars
  <2>2. (mode.async /\ Takes(0)) \/ Takes(1) BY <2>1, TakesNone DEF Takes, Take
  <2>3. /\ committing'.pc = "update" /\ committing' = [f \in CommitFields |-> committing'[f]]
        /\ committing'.tid = committing.tid /\ committing'.start = committing.start
        /\ committing'.tail = committing.tail
    BY <1>c, <2>1, Zenon DEF CommitFields
  <2>4. \A v \in Values(sb') : v.seq \in Tid BY <1>s, <2>1 DEF Values, Cell
  <2> QED BY <2>1, <2>2, <2>3, <2>4, CommitWrites
<1> QED BY <1>1, <1>2, <1>3, <1>4, <1>5, SMTT(20)

\* The commit looks up the new tail and, if it need not wait, sends its record.
LEMMA TailLookedUp ==
  ASSUME Maxlen <= TidHalf, LogInv, journal.free >= 1, journal'.free >= 1, FlushForTail
  PROVE  LogInv'
<1> DEFINE t == IF LogTailMoved /\ Freed(LogTail.start) >= Maxlen \div 4 THEN LogTail ELSE NoTail
<1>1. /\ committing.pc = "tail"
      /\ committing' = [committing EXCEPT !.pc = "io", !.tail = t]
      /\ IF mode.async THEN journal' = Take(journal, 1) ELSE journal' = journal
      /\ running' = running /\ checkpoint' = checkpoint /\ sb' = sb /\ mode' = mode
  BY Zenon DEF FlushForTail, sysVars
<1>2. t = NoTail \/ (t = LogTail /\ LogTailMoved) OBVIOUS
<1> HIDE DEF t
<1>3. /\ committing'.pc = "io" /\ committing' = [f \in CommitFields |-> committing'[f]]
      /\ committing'.tid = committing.tid /\ committing'.start = committing.start
      /\ committing'.tail = t
  BY <1>1, TypeFacts, Zenon DEF CommitFields
<1>4. PICK n \in {0, 1} : Takes(n) /\ (mode.async => n = 1)
  BY <1>1, TakesNone DEF Takes, Take
<1>5. RecordTaken' => n > 0 BY <1>1, <1>3, <1>4 DEF RecordTaken
<1>6. /\ LogType' /\ SpaceInv' /\ CommitInv' /\ FlushedInv' /\ ListInv'
      /\ EndPlace' = EndPlace /\ TailPlace' = TailPlace
  BY <1>1, <1>3, <1>4, <1>5, TypeFacts, CommitTakes
<1>7. TailInv'
  <2> SUFFICES ASSUME TailChosen' PROVE TailInv'
    BY DEF TailInv
  <2>1. committing'.tail = LogTail BY <1>2, <1>3 DEF TailChosen
  <2>2. /\ LogTail \in Place /\ Placed(EndPlace, LogTail)
        /\ \A i \in DOMAIN checkpoint : Later(EndPlace, LogTail, checkpoint[i])
        /\ Room(EndPlace, LogTail) <= Room(EndPlace, TailPlace)
    BY LogTailFacts
  <2>3. Place' = Place BY DEF Place, LogBlocks, Tid, TidMod
  <2> QED BY <1>1, <1>6, <2>1, <2>2, <2>3, Zenon DEF TailInv, Placed, Later, Age, Room
<1> QED BY <1>6, <1>7 DEF LogInv

\* jbd2_update_log_tail() moves the tail only if nobody has moved it past the chosen
\* place in the meantime.
LEMMA TailUpdated ==
  ASSUME Maxlen <= TidHalf, LogInv, UpdateLogTail
  PROVE  LogInv'
<1> DEFINE t == committing.tail
<1>1. /\ committing.pc = "update" /\ running' = running /\ checkpoint' = checkpoint /\ mode' = mode
      /\ committing' = [committing EXCEPT !.pc = "forget", !.wbuf = <<>>, !.desc = 0]
      /\ IF committing.tail # NoTail /\ tid_gt(committing.tail.tid, journal.tailSeq)
         THEN MoveTail(committing.tail) ELSE sb' = sb /\ journal' = journal
  BY Zenon DEF UpdateLogTail, sysVars
<1>2. /\ committing'.pc = "forget" /\ committing' = [f \in CommitFields |-> committing'[f]]
      /\ committing'.tid = committing.tid /\ committing'.start = committing.start
  BY <1>1, TypeFacts, Zenon DEF CommitFields
<1>3. RecordTaken /\ ~TailChosen' BY <1>1, <1>2 DEF RecordTaken, TailChosen
<1>4. CASE committing.tail # NoTail /\ tid_gt(committing.tail.tid, journal.tailSeq)
  <2>1. TailChosen BY <1>1, <1>4 DEF TailChosen
  <2>2. /\ t \in Place /\ Placed(EndPlace, t)
        /\ \A i \in DOMAIN checkpoint : Later(EndPlace, t, checkpoint[i])
        /\ Age(EndPlace, t) < Age(EndPlace, TailPlace) => Room(EndPlace, t) <= Room(EndPlace, TailPlace)
    BY <2>1 DEF LogInv, TailInv
  <2>3. Age(EndPlace, t) < Age(EndPlace, TailPlace)
    <3>1. Age(EndPlace, t) < TidHalf /\ Age(EndPlace, TailPlace) < TidHalf
      BY <2>2, EndFacts, Zenon DEF LogInv, SpaceInv
    <3>2. EndPlace.tid \in Tid /\ t.tid \in Tid /\ journal.tailSeq \in Tid
          /\ TailPlace.tid = journal.tailSeq
      BY <2>2, EndFacts, TypeFacts DEF Place, JournalType, TailPlace
    <3> QED BY <1>4, <3>1, <3>2, TidLater DEF Age
  <2>4. /\ sb' = Cell([seq |-> t.tid, start |-> t.start])
        /\ journal' = [journal EXCEPT !.free = @ + Freed(t.start), !.tailSeq = t.tid,
                                      !.tail = t.start, !.flushed = FALSE]
    BY <1>1, <1>4 DEF MoveTail
  <2> HIDE DEF t
  <2>5. \A v \in Values(sb') : v.seq \in Tid BY <2>2, <2>4 DEF Values, Cell, Place
  <2>6. /\ journal' \in JournalType /\ journal'.head = journal.head /\ journal'.seq = journal.seq
        /\ journal'.tail = t.start /\ journal'.tailSeq = t.tid /\ journal'.flushed = FALSE
        /\ journal'.free = journal.free + Freed(t.start)
    BY <2>2, <2>4, TypeFacts, FieldsMoved, Zenon
  <2> QED BY <1>1, <1>2, <1>3, <2>2, <2>3, <2>5, <2>6, TailMoves, Zenon DEF Later
<1>5. CASE ~(committing.tail # NoTail /\ tid_gt(committing.tail.tid, journal.tailSeq))
  <2>1. sb' = sb /\ journal' = journal BY <1>1, <1>5
  <2>2. EndPlace' = EndPlace /\ TailPlace' = TailPlace /\ OpenTid' = OpenTid
    BY <1>1, <1>2, <2>1, SMTT(20) DEF EndPlace, TailPlace, OpenTid, RunTid
  <2>3. LogType'
    BY <1>1, <1>2, <2>1, Zenon DEF LogInv, LogType, JournalType, Place, Tid, TidMod, LogBlocks,
       Values, CommitFields, RunningFields
  <2>4. SpaceInv' /\ ListInv' /\ TailInv'
    <3>1. Thinned(checkpoint', checkpoint) BY <1>1, SameList, TypeFacts
    <3> QED BY <1>2, <1>3, <2>1, <2>2, <3>1, PlacesKept, SMTT(20)
  <2>5. CommitInv'
    BY <1>1, <1>2, <1>3, <2>1, <2>2, Zenon DEF LogInv, CommitInv, Tid, TidMod, LogBlocks
  <2>6. FlushedInv' BY <1>1, <2>1 DEF LogInv, FlushedInv
  <2> QED BY <2>3, <2>4, <2>5, <2>6, SMTT(20) DEF LogInv
<1> QED BY <1>4, <1>5

\* The commit is over: its transaction goes to the list of checkpoints, and the end
\* point to where the next one begins.
LEMMA CommitEnds ==
  ASSUME Maxlen <= TidHalf, LogInv, CommitDone
  PROVE  LogInv'
<1> DEFINE c == [tid |-> committing.tid, start |-> committing.start]
           e == EndPlace
           f == [tid |-> OpenTid, start |-> journal.head]
<1>1. /\ committing.pc = "forget" /\ committing' = NoCommit
      /\ journal' = [journal EXCEPT !.commitSeq = committing.tid]
      /\ checkpoint' = Append(checkpoint, c) \/ checkpoint' = checkpoint
      /\ running' = running /\ sb' = sb /\ mode' = mode
  BY Zenon DEF CommitDone, diskVars, sysVars
<1>2. /\ committing.tid \in Tid /\ committing.start \in LogBlocks
      /\ OpenTid = TidPlus(committing.tid, 1) /\ committing.start # journal.head
      /\ running.state # "locked" /\ ~journal.flushed
  BY <1>1 DEF LogInv, CommitInv, RecordTaken, FlushedInv
<1>3. journal \in JournalType /\ checkpoint \in Seq(Place) BY TypeFacts
<1>4. /\ journal' \in JournalType /\ journal'.head = journal.head /\ journal'.seq = journal.seq
      /\ journal'.tail = journal.tail /\ journal'.tailSeq = journal.tailSeq
      /\ journal'.free = journal.free /\ journal'.flushed = journal.flushed
  BY <1>1, <1>2, <1>3 DEF JournalType
<1>5. committing'.pc = "none" /\ committing' = [g \in CommitFields |-> committing'[g]]
  BY <1>1, Zenon DEF NoCommit, CommitFields
<1>6. e = c BY <1>1 DEF EndPlace
<1>7. EndPlace' = f /\ TailPlace' = TailPlace
  <2>1. OpenTid' = OpenTid BY <1>1, <1>4 DEF OpenTid, RunTid
  <2> QED BY <1>4, <1>5, <2>1, Zenon DEF EndPlace, TailPlace
<1>8. e \in Place /\ f \in Place /\ c \in Place /\ TailPlace \in Place
  BY <1>2, <1>3, EndFacts, SMTT(20) DEF Place, JournalType
<1>9. f.tid = TidPlus(e.tid, 1) /\ e.start # f.start BY <1>2, <1>6
<1>10. /\ Ahead(journal.tail, journal.head) = Room(e, TailPlace) + Room(f, e)
       /\ Room(e, TailPlace) + Room(f, e) < Ring
  <2>1. Room(f, e) = Ahead(EndPlace.start, journal.head)
        /\ Room(e, TailPlace) = Ahead(journal.tail, EndPlace.start)
    BY DEF Room, TailPlace
  <2> QED BY <2>1, Distances, RingType, SMTT(20)
<1>11. /\ Age(f, TailPlace) = Age(e, TailPlace) + 1 /\ Room(f, TailPlace) = Room(e, TailPlace) + Room(f, e)
       /\ Placed(f, TailPlace) /\ Age(f, e) = 1 /\ Room(f, e) >= 1 /\ Placed(f, e)
  <2>1. Placed(e, TailPlace) BY Zenon DEF LogInv, SpaceInv
  <2> HIDE DEF e, f
  <2> QED BY <1>8, <1>9, <1>10, <2>1, PlaceAdvance, SMTT(20)
<1>12. Room(e, TailPlace) \in Nat /\ Room(f, e) \in Nat /\ Age(e, TailPlace) \in Nat
  <2> HIDE DEF e, f
  <2> QED BY <1>8, PlaceType, RingType DEF Tid
<1>13. /\ \A i \in DOMAIN checkpoint :
             Placed(e, checkpoint[i]) /\ Room(e, checkpoint[i]) <= Room(e, TailPlace)
       /\ \A i, j \in DOMAIN checkpoint : i < j => Later(e, checkpoint[i], checkpoint[j])
       /\ Placed(e, TailPlace)
       /\ checkpoint' = Append(checkpoint, e) \/ checkpoint' = checkpoint
  BY <1>1, <1>6, ZenonT(30) DEF LogInv, ListInv, SpaceInv
<1>14. /\ checkpoint' \in Seq(Place)
       /\ \A i \in DOMAIN checkpoint' :
            /\ Placed(f, checkpoint'[i]) /\ Age(f, checkpoint'[i]) >= 1
            /\ Room(f, checkpoint'[i]) <= Room(f, TailPlace)
       /\ \A i, j \in DOMAIN checkpoint' : i < j => Later(f, checkpoint'[i], checkpoint'[j])
  <2> HIDE DEF e, f
  <2> QED BY <1>3, <1>8, <1>9, <1>10, <1>13, ListAdvance, SMTT(20)
<1>15. ListInv'
  <2> HIDE DEF f
  <2> QED BY <1>7, <1>14, Zenon DEF ListInv, Placed, Later, Age, Room
<1>16. SpaceInv'
  <2>1. journal.free = Ring - Ahead(journal.tail, journal.head) BY DEF LogInv, SpaceInv
  <2>2. Ahead(f.start, journal.head) = 0 /\ f.start = journal.head
    BY <1>8, AheadType DEF Place
  <2>3. Ahead(journal.tail, journal.head) = Room(f, TailPlace) + Ahead(f.start, journal.head)
    BY <1>10, <1>11, <1>12, <2>2
  <2>4. Age(f, TailPlace) # 0 BY <1>11, <1>12
  <2> HIDE DEF f
  <2> QED BY <1>4, <1>7, <1>11, <2>1, <2>3, <2>4, Zenon DEF SpaceInv, Placed, Age, Room, Ahead, Ring
<1>17. LogType'
  BY <1>1, <1>4, <1>5, <1>14, Zenon DEF LogInv, LogType, JournalType, Place, Tid, TidMod, LogBlocks,
     Values, CommitFields, RunningFields
<1>18. CommitInv' /\ FlushedInv' /\ TailInv'
  BY <1>1, <1>2, <1>4, <1>5 DEF CommitInv, FlushedInv, TailInv, TailChosen
<1> QED BY <1>15, <1>16, <1>17, <1>18, SMTT(20) DEF LogInv

\* journal_reset() leaves an empty log.
LEMMA ResetLog ==
  ASSUME NEW q \in Tid, NEW h \in LogBlocks, NEW empty \in BOOLEAN,
         journal = Reset(q, h, empty), running = NoRunning, committing = NoCommit,
         checkpoint = <<>>, \A v \in Values(sb) : v.seq \in Tid
  PROVE  LogInv
<1>1. /\ journal \in JournalType /\ journal.head = h /\ journal.tail = h /\ journal.tailSeq = q
      /\ journal.seq = q /\ journal.free = Ring /\ journal.flushed = empty
  <2>1. TidMinus(q, 1) \in Tid /\ Maxlen - 1 \in Int /\ Ring = Maxlen - 1
    BY TidType, RingType DEF Ring
  <2> QED BY <2>1 DEF Reset, JournalType
<1>2. running.state = "none" /\ running = [f \in RunningFields |-> running[f]]
  BY Zenon DEF NoRunning, RunningFields
<1>3. committing.pc = "none" /\ committing = [f \in CommitFields |-> committing[f]]
  BY Zenon DEF NoCommit, CommitFields
<1>4. EndPlace = [tid |-> q, start |-> h] /\ TailPlace = [tid |-> q, start |-> h]
  BY <1>1, <1>2, <1>3 DEF EndPlace, TailPlace, OpenTid
<1>5. EndPlace \in Place /\ EndPlace = TailPlace BY <1>4 DEF Place
<1>6. Age(EndPlace, TailPlace) = 0 /\ Room(EndPlace, TailPlace) = 0 BY <1>5, PlaceType
<1>7. Ahead(h, h) = 0 /\ EndPlace.start = h BY <1>4, AheadType
<1>8. LogType BY <1>1, <1>2, <1>3 DEF LogType
<1>9. SpaceInv BY <1>1, <1>6, <1>7, RingType DEF SpaceInv, Placed
<1>10. CommitInv /\ FlushedInv /\ TailInv
  BY <1>2, <1>3, <1>6 DEF CommitInv, FlushedInv, TailInv, TailChosen
<1>11. ListInv BY DEF ListInv
<1> QED BY <1>8, <1>9, <1>10, <1>11 DEF LogInv

\* The same of a step that resets the journal.
ResetStarts ==
  \A q \in Tid, h \in LogBlocks, empty \in BOOLEAN :
    (/\ journal = Reset(q, h, empty) /\ running = NoRunning /\ committing = NoCommit
     /\ checkpoint = <<>> /\ (\A v \in Values(sb) : v.seq \in Tid)) => LogInv

\* It holds in every state ...
LEMMA ResetHolds == ResetStarts
BY ResetLog, Zenon DEF ResetStarts

\* ... and so in the state a step ends in.
LEMMA ResetStep ==
  ASSUME NEW q \in Tid, NEW h \in LogBlocks, NEW empty \in BOOLEAN,
         journal' = Reset(q, h, empty), running' = NoRunning, committing' = NoCommit,
         checkpoint' = <<>>, \A v \in Values(sb') : v.seq \in Tid
  PROVE  LogInv'
<1>1. ResetStarts' BY ResetHolds, PTL
<1> QED BY <1>1, Zenon DEF ResetStarts

\* The journal as jbd2_journal_load() sets it up.
LEMMA InitLog == Init => LogInv
<1> SUFFICES ASSUME Init PROVE LogInv
  OBVIOUS
<1>1. FirstTid \in Tid /\ FirstHead \in LogBlocks BY Jbd2Assumption DEF LogBlocks
<1>2. \A v \in Values(sb) : v.seq \in Tid BY <1>1 DEF Init, Values, Cell
<1> QED BY <1>1, <1>2, ResetLog, Zenon DEF Init

\* Only a power failure takes the machine down, and only the recovery brings it up.
LEMMA NextDown == DownIdle /\ [Next]_vars => DownIdle'
<1> SUFFICES ASSUME DownIdle, [Next]_vars PROVE DownIdle'
  OBVIOUS
<1>1. CASE HandleStep
  <2>1. up' = up /\ up
    BY <1>1, Zenon DEF HandleStep, GetTransaction, StartHandle, ExtendHandle, ClearDirty,
       MayTake, GetWriteAccess, GetCreateAccess, DirtyMetadata, Revoke, StopHandle, sysVars
  <2> QED BY <2>1 DEF DownIdle
<1>2. CASE CommitStep
  <2>1. up' = up /\ up
    BY <1>2, Zenon DEF CommitStep, CommitLock, CommitSwitch, WriteRevokeRecords,
       WriteMetadataBuffer, ForgetBuffer, SubmitLog, FlushForTail, WaitLogIo, CommitRecord,
       UpdateLogTail, CommitDone, sysVars
  <2> QED BY <2>1 DEF DownIdle
<1>3. CASE CheckpointStep \/ BufferStep
  <2>1. up' = up /\ up
    BY <1>3, Zenon DEF CheckpointStep, BufferStep, WaitForSpace, WaitCommit, CheckpointDone,
       JournalFlush, ProcessBuffer, FlushBatch, WaitCpIo, WriteBack, EndWrite,
       TryToFreeBuffer, WriteFileData, sysVars
  <2> QED BY <2>1 DEF DownIdle
<1>4. CASE Crash BY <1>4, Zenon DEF Crash, DownIdle
<1>5. CASE CrashInReplay BY <1>5, Zenon DEF CrashInReplay, DownIdle, sysVars
<1>6. CASE Recover BY <1>6, Zenon DEF Recover, DownIdle
<1>7. CASE UNCHANGED vars BY <1>7, Zenon DEF vars, DownIdle
<1> QED BY <1>1, <1>2, <1>3, <1>4, <1>5, <1>6, <1>7, SMTT(20) DEF Next

\* Every step keeps the invariant, as long as J_ASSERT(journal->j_free > 1) in
\* jbd2_journal_next_log_block() has not stopped the machine.
LEMMA NextLog ==
  ASSUME Maxlen <= TidHalf, LogInv, DownIdle, [Next]_vars, journal.free >= 1, (journal.free >= 1)'
  PROVE  LogInv'
<1>f. journal'.free >= 1 OBVIOUS
<1>1. CASE HandleStep BY <1>1, HandleLog
<1>2. CASE CheckpointStep \/ BufferStep BY <1>2, CheckpointLog
<1>3. CASE CommitStep
  <2>1. CASE CommitLock \/ CommitSwitch BY <2>1, CommitBegins
  <2>2. CASE WriteRevokeRecords \/ (\E b \in Blocks : WriteMetadataBuffer(b))
               \/ SubmitLog \/ WaitLogIo \/ CommitRecord
    BY <1>f, <2>2, CommitWritesLog
  <2>3. CASE FlushForTail BY <1>f, <2>3, TailLookedUp
  <2>4. CASE UpdateLogTail BY <2>4, TailUpdated
  <2>5. CASE CommitDone BY <2>5, CommitEnds
  <2>6. ASSUME NEW b \in Blocks, ForgetBuffer(b) PROVE LogInv'
    <3>1. /\ running' = running /\ committing' = committing /\ journal' = journal
          /\ checkpoint' = StillNeeded(bh') /\ sb' = sb /\ mode' = mode
      BY <2>6, Zenon DEF ForgetBuffer, diskVars, sysVars
    <3>2. checkpoint' \in Seq(Place) /\ Thinned(checkpoint', checkpoint)
      BY <3>1, TypeFacts, KeptThins
    <3> QED BY <3>1, <3>2, TypeFacts, LogUntouched
  <2> QED BY <1>3, <2>1, <2>2, <2>3, <2>4, <2>5, <2>6, Zenon DEF CommitStep
<1>4. CASE Crash
  <2>1. /\ journal' = Reset(FirstTid, 1, FALSE) /\ running' = NoRunning /\ committing' = NoCommit
        /\ checkpoint' = <<>> /\ \E v \in Values(sb) : sb' = Cell(v)
    BY <1>4, Zenon DEF Crash
  <2>2. FirstTid \in Tid /\ 1 \in LogBlocks BY Jbd2Assumption, RingType
  <2>3. \A v \in Values(sb') : v.seq \in Tid BY <2>1, TypeFacts DEF Values, Cell
  <2> QED BY <2>1, <2>2, <2>3, ResetStep, Zenon
<1>5. CASE CrashInReplay
  <2>1. /\ running' = running /\ committing' = committing /\ journal' = journal
        /\ checkpoint' = checkpoint /\ sb' = sb /\ mode' = mode
    BY <1>5, Zenon DEF CrashInReplay, sysVars
  <2>2. Thinned(checkpoint', checkpoint) BY <2>1, TypeFacts, SameList
  <2> QED BY <2>1, <2>2, TypeFacts, LogUntouched
<1>6. CASE Recover
  <2> DEFINE end == IF sb.cur.start = 0 THEN sb.cur.seq ELSE Scan.end
             seq == TidPlus(end, 1)
  <2>1. /\ ~up
        /\ sb' = sb \/ sb' = Cell([seq |-> seq, start |-> 1])
        /\ journal' = Reset(seq, 1, sb.cur.start = 0)
        /\ running' = running /\ committing' = committing /\ checkpoint' = checkpoint
    BY <1>6, Zenon DEF Recover
  <2>2. sb.cur.seq \in Tid BY TypeFacts DEF Values
  <2>3. seq \in Tid BY <2>2, ScanEnds, TidType, SMTT(20)
  <2> HIDE DEF seq
  <2>4. \A v \in Values(sb') : v.seq \in Tid
    <3>1. CASE sb' = sb BY <3>1, TypeFacts
    <3>2. CASE sb' = Cell([seq |-> seq, start |-> 1]) BY <2>3, <3>2 DEF Values, Cell
    <3> QED BY <2>1, <3>1, <3>2
  <2>5. running = NoRunning /\ committing = NoCommit /\ checkpoint = <<>>
    BY <2>1 DEF DownIdle
  <2>6. 1 \in LogBlocks BY RingType
  <2> QED BY <2>1, <2>3, <2>4, <2>5, <2>6, ResetStep, Zenon
<1>7. CASE UNCHANGED vars
  <2>1. /\ running' = running /\ committing' = committing /\ journal' = journal
        /\ checkpoint' = checkpoint /\ sb' = sb /\ mode' = mode
    BY <1>7 DEF vars
  <2>2. Thinned(checkpoint', checkpoint) BY <2>1, TypeFacts, SameList
  <2> QED BY <2>1, <2>2, TypeFacts, LogUntouched
<1> QED BY <1>1, <1>2, <1>3, <1>4, <1>5, <1>6, <1>7, SMTT(20) DEF Next

\* LogInv holds in every state, as long as no block is taken that is not there.
LEMMA LogInvHolds ==
  Maxlen <= TidHalf /\ Spec /\ []BlockLeft => [](LogInv /\ DownIdle)
<1>1. Init => DownIdle BY Zenon DEF Init, DownIdle
<1> SUFFICES ASSUME Maxlen <= TidHalf
             PROVE  Spec /\ []BlockLeft => [](LogInv /\ DownIdle)
  OBVIOUS
<1>2. LogInv /\ DownIdle /\ [Next]_vars /\ BlockLeft /\ BlockLeft' => LogInv' /\ DownIdle'
  BY NextLog, NextDown DEF BlockLeft
<1> QED BY <1>1, <1>2, InitLog, PTL DEF Spec

\* As long as J_ASSERT(journal->j_free > 1) in jbd2_journal_next_log_block() has
\* not failed, j_free is the number of blocks from the head of the log forward to
\* its tail: what the commits take and what the checkpoints, the commits and
\* jbd2_journal_flush() give back, in any order and across the wrap of the log and
\* of the transaction numbers, adds up.  For every log of at most half as many
\* blocks as there are transaction numbers.
THEOREM FreeIsWhatIsLeft ==
  Maxlen <= TidHalf /\ Spec /\ []BlockLeft => []FreeIsDistance
<1> SUFFICES ASSUME Maxlen <= TidHalf
             PROVE  Spec /\ []BlockLeft => []FreeIsDistance
  OBVIOUS
<1>1. LogInv => FreeIsDistance
  <2> SUFFICES ASSUME LogInv PROVE FreeIsDistance
    OBVIOUS
  <2>1. /\ journal.free = Ring - Ahead(journal.tail, journal.head)
        /\ journal.head \in LogBlocks /\ journal.tail \in LogBlocks
    BY Distances
  <2> QED BY <2>1, RingType DEF FreeIsDistance, Ahead, Ring
<1> QED BY <1>1, LogInvHolds, PTL

\* While JBD2_FLUSHED is set the log is empty, and its tail is the transaction
\* that the next handle joins, so that the next commit may write j_tail and
\* j_tail_sequence to the superblock as they are: the J_ASSERTs at the end of
\* jbd2_journal_flush(), kept until that commit.  For the same logs.
THEOREM FlushedLogIsEmpty ==
  Maxlen <= TidHalf /\ Spec /\ []BlockLeft => []FlushedIsEmpty
<1> SUFFICES ASSUME Maxlen <= TidHalf
             PROVE  Spec /\ []BlockLeft => []FlushedIsEmpty
  OBVIOUS
<1>1. LogInv => FlushedIsEmpty
  <2> SUFFICES ASSUME LogInv, journal.flushed PROVE FlushedIsEmpty
    BY DEF FlushedIsEmpty
  <2>1. committing.pc = "none" /\ Age(EndPlace, TailPlace) = 0 BY DEF LogInv, FlushedInv
  <2>2. journal.head = journal.tail BY <2>1 DEF LogInv, SpaceInv
  <2>3. EndPlace.tid = TailPlace.tid BY <2>1, EndFacts, PlaceType
  <2>4. OpenTid = journal.tailSeq BY <2>1, <2>3 DEF EndPlace, TailPlace
  <2> QED BY <2>2, <2>4 DEF FlushedIsEmpty, OpenTid
<1> QED BY <1>1, LogInvHolds, PTL

=============================================================================
