# TLA+ models of the block layer, the journal and the mounts of linux-3.10.96

The repository is a Linux 3.10.96 tree with comments. Its annotated core is the block
layer, in two versions: the multi-queue code of the 957.27 kernel (`block/blk-mq*.c`,
`block/blk-core_957-27.c`, `block/elevator_957_27.c`, `include/linux/blk-mq.h`) and the
single-queue code of 3.10.96 (`block/blk-core.c`, `blk-flush.c`, `blk-timeout.c`,
`elevator.c`, `blk.h`). The journal (`fs/jbd2`), ext4 and the mount code (`fs/namespace.c`,
`fs/pnode.c`) are annotated as well; the rest is mostly upstream code. Paths below are
relative to `src/linux-3.10.96/`.

## 1. Inventory

| part | state | operations | what is hard |
|---|---|---|---|
| queue usage reference | `q_usage_counter`, `mq_freeze_depth`, DYING, DEAD, PREEMPT_ONLY | enter, exit, freeze, unfreeze, set dying, cleanup | counter and depth change in separate steps; sleepers and wake-ups; the timeout worker needs a reference while a freezer waits |
| hardware queue dispatch | software queues or scheduler, `hctx->dispatch`, driver tags, SCHED_RESTART, `dispatch_wait`, STOPPED, QUIESCED | insert, run, dispatch, refuse, complete, restart, stop, quiesce, direct issue | several dispatchers, answers of the driver, who runs the queue again |
| request life | STARTED, COMPLETE, deadline, `tags->rqs[]`, the one timer | start, complete, time out, requeue, free | completion, timeout and reuse of a structure race without a lock |
| flush machinery | `flush_queue[2]`, pending and running index, `flush_data_in_flight`, `flush_rq`, `queue_head` | insert, kick, end of flush, end of data, hold, requeue | what a flush in progress covers; errors of each step; stalls |
| tag allocation | bitmaps, wait queues, `active_queues` | get, wait, put, resize | sleepers that move to another hardware queue; fair shares |
| schedulers, merging | sorted and fifo lists, hash | insert, merge, dispatch, switch | starvation, merging across the lists, switching under load |
| jbd2 | handles, buffer lists, transactions, log, checkpoint list, revoke table | start, extend, stop, get access, dirty, forget, revoke, commit, checkpoint, flush, recover | power failure at any write, volatile cache of the disk, a buffer in two transactions, wrap of log and ids |
| mounts | mount trees, peer groups, masters and slaves, namespaces | mount, bind, move, umount, change type, copy a namespace | a walk that inserts into the lists it follows; failure in its middle |

They meet as follows. A task enters the queue (usage reference), gets a request and a
scheduler tag, and inserts it; a dispatcher takes it with a driver tag to the driver, which
starts it (life of a request); the interrupt or the timeout worker ends it, which frees the
tags, restarts hardware queues and drops the reference. Freezing stops entry and waits for
all of this; quiescing stops the dispatchers only. A file system orders its writes with
FLUSH and FUA, which the flush machinery turns into steps: jbd2 is the main user of that
promise, and its model takes it as given (a flush makes durable what has completed before).
The mount code is on its own: it shares nothing with the others but `is_subdir()`.

`PROJECT.json` lists all components, with those not modelled and why, and the hazards each
at its line.

## 2. Modules

| module | models | size of an atomic step |
|---|---|---|
| `QueueUsage` | `blk_queue_enter/exit`, freeze and unfreeze, `blk_set_queue_dying`, `blk_cleanup_queue`, the reference of `blk_mq_timeout_work` | one atomic operation, test of a wait condition or wake-up |
| `BlkMqDispatch` | `blk_mq_dispatch_rq_list` and all that feeds it or must come back to it | one access to shared state, or a critical section of `hctx->lock` |
| `BlkMqRequest` | the bits and the deadline of a request under issue, interrupt, timeout worker and requeue worker | one access to a flag, a tag or the timer |
| `BlkFlush` | `blk-flush.c` with the dispatch queue below and a disk with a volatile cache | a critical section of `queue_lock`; the loop of `flush_end_io` is one step per request with the lock held |
| `Jbd2Log` | `fs/jbd2`: handles, commit, checkpoint, log tail, revoke, recovery; the disk below | one critical section of `j_state_lock` or `j_list_lock`, one submission or completion of a write |
| `Jbd2Tid` | transaction numbers of any width, `tid_gt`, `tid_geq` | operators |
| `JournaledStore` | the abstract specification of the journal: states are closed one after another, a reported commit is never lost, recovery gives exactly one closed state | |
| `MountPropagation` | `fs/pnode.c` and the calls of `fs/namespace.c` that change mounts | one system call: it holds `namespace_sem` from its first look to its last change; the kernel functions are operators on the state inside it |
| `QueueUsage_proof`, `BlkMqDispatch_proof`, `BlkMqRequest_proof`, `BlkFlush_proof`, `Jbd2Log_proof` | the theorems of section 5 | |
| `BlkMqDispatchInv` | the inductive invariant of `BlkMqDispatch_proof` | |
| `BlkMqDispatchMoves` | every step keeps its part on where requests, tags and threads are | |
| `BlkMqDispatchWakes` | who comes back for a request that waits: that invariant, and that every step keeps it | |
| `Jbd2LogInv` | the invariant of `Jbd2Log_proof` on the geometry of the log | |
| `Jbd2LogSpace` | what taking blocks, moving the tail and checkpointing do to it; what the scan of recovery ends with | |
| `MC_*` | instances for TLC | |

Definitions carry the names of the functions they translate where a function is one action
(`TryEnter`, `FreezeWait`, `GetDriverTag`, `BtIter`, `CompleteSeq`, `KickFlush`,
`DirtyMetadata`, `do_loopback`); where it is several, the step names what it does
(`FreezeInc`, `FreezeKill`). `map` in `PROJECT.json` gives the lines. A definition whose
comment begins with "(fault)" is a plausible mistake and is used by no specification: put in
the place of the definition it mutates, it must make the property named in `PROJECT.json`
fail.

External parts, modelled from their use: `percpu_ref` (a counter that can be killed and
revived), wait queues, the bitmap of tags, drivers (any answer the
core accepts), the device (may lose a request), the disk (a flush makes durable the writes
that were in the cache when it was sent, nothing else is assumed). The disk of `Jbd2Log` is
a cell per block that holds what was written last and what a power failure may leave there
instead; a flush forgets the latter.

## 3. Runs

| run | instance | result |
|---|---|---|
| `queue_usage` | 2 submitters (one with PREEMPT), 2 freezers under one mutex, cleanup, timeouts | freezing excludes users, no lost wake-up, DYING shuts, DEAD is drained; freezes, entries and cleanup end |
| `queue_usage_two_locks` | one freezer under `tag_list_lock` | **violation**: cleanup waits for ever |
| `dispatch` | 1 hardware queue, with a scheduler or with direct issue, up to 3 requests, 2 tags, up to 2 troubles of any kind | a request is in one place, with the driver only with a tag, waits without; nothing reaches the driver of a quiesced queue; quiet means done; all requests end |
| `dispatch_shared` | 2 queues, 1 shared tag | restart counter right; quiet means done without DEV_BUSY |
| `dispatch_shared_dev_busy` | 2 queues, DEV_BUSY | **violation**: a request is left behind |
| `request` | 2 structures, 1 tag; the driver may refuse one of the requests after it has started it | the timeout handler is alone with a request that is not refused; completions are heard; what waits is not STARTED; lost requests are timed out if the timer is set |
| `request_recycled` | structure used again between the two looks | **violation**: early timeout |
| `flush` | 3 requests of 5 kinds, every device, errors, requeues | FUA and FLUSH keep their promise; one flush at a time; one place per request; quiet means ended |
| `jbd2` | 2 blocks, a log of 12 blocks, 3 transactions, 16 tids, power failure anywhere, ordinary, asynchronous and external log | implements `JournaledStore` unless one of four named lapses has happened; aborted for lack of space only while tid 0 commits; replay spares reused blocks; the log never overflows |
| `jbd2_checkpoint_race` | the ordinary log, 2 transactions | **violation**: a committed transaction is lost |
| `mounts` | 2 namespaces, 3 mounts and room for 2 more | what is mounted or unmounted reaches exactly the mounts that receive it; a failed call leaves nothing behind |
| `mounts_root` | the same | **violation**: a lazy umount of the root of a namespace meets a `BUG_ON()` |

Each violation contradicts a comment of the code, quoted in `findings` of `PROJECT.json`.
The races among them need rare timing: a CPU delayed between two adjacent operations, in
`request_recycled` for as long as a request takes to complete and be issued again, in
`jbd2_checkpoint_race` between the gathering of a batch and its submission. Where a passing
run checks a property with an exception, the property names the exception (section 4); the
models leave out none of the steps that lead to it.

**Bounds.** Two freezers are what it takes for one to overlap the other; two submitters, for
one to be in while another sleeps. Three requests and two tags leave one request without a
tag while others run; `MaxTrouble` bounds how often a driver misbehaves or the queue is
stopped or quiesced, and two allow a refusal during the recovery from another. `Eventful`
bounds requests and troubles together by four: three requests with one trouble, two with
two, and at most two requests under way while a queue is stopped or quiesced. It cuts off no
step that fairness asks for. In `dispatch_shared` no more than
three threads and ends of requests are under way at once (`ThreeAtOnce`): two dispatchers
and a completion, or two completions and a dispatcher; `InTurn` bounds only the search for
the counterexample of `dispatch_shared_dev_busy`. Two request structures that share a tag
let a tag be used again while the worker still looks at its last user. In `BlkFlush` three
requests fill the running list, the pending list and the data in flight at once; every
request is submitted once.

In `jbd2` three transactions are what it takes to have one on the checkpoint list, one
committing and one running. `Maxlen` 13 and `MinLogReserved` 7 keep the proportions of the
code: a transaction may have a quarter of the log, and four do not fit. The log starts at
block 11 and the tids at 15 of 16, so both wrap, and tid 0 is the second. `Bounds` in
`MC_Jbd2Log` explores long histories of one block with the ordinary log, and histories of
`WideTxs` 2 transactions of one block with the other logs and of two blocks with the
ordinary one. `Swaps` exchanges the two blocks, which nothing tells apart; all properties of
the run are safety properties, for which that is sound.

In `mounts` every call is tried on every arrangement of up to `Crowded` 3 mounts; a call may
bring their number to `MaxMounts` 5, beyond which allocation fails, and from there mounts
are only unmounted. Three mounts are a peer group of three, a master with two slaves, a
master, a slave group and its slave, or two groups in two namespaces. `Shape` is the VIEW:
the state up to the numbering of mounts and group ids. The last call, `call`, is a history
variable outside the view, so only action properties mention it: TLC evaluates those on
every transition, also to a state whose view it knows.

Larger instances have been checked once: `dispatch` without `Eventful` (893,347 states); an
earlier `jbd2`, in which a handle took a buffer in one step and no lapse could happen, with
one block and four transactions (1.77 million states), with two blocks and three
transactions to depth 49 (15 million), and with two blocks, two transactions and no bound on
the contents (1.81 million); `mounts` with 6 mounts (136,394 states), which has room for the
copies of a mount on a master, a slave group of two and back, and all sequences of calls on
4 mounts in 3 namespaces for `PeerGroups` and `SlaveLists` (174,541 states). All properties
held.

Symmetry is used only in runs without liveness properties, over values no definition
tells apart.

**Deadlock** is checked in `queue_usage`. In the others the system may stop: all requests
are submitted once and done, a request is lost and has no timer (section 4), the journal
was aborted, the bounds are used up, or there is nothing left to unmount.

**Fairness.** Weak fairness of a step means that a runnable task or queued work runs. In
`QueueUsage` a freezer unfreezes, and requests end or are timed out; nobody has to submit,
freeze or clean up. In `BlkMqDispatch` the device completes what it accepted, one request or the other, a driver
restarts what it stopped, and whoever quiesces unquiesces. In `BlkMqRequest` time passes
and the timer fires. `BlkFlush` needs no fairness: `QuietMeansEnded` says that a queue at
rest has nothing left, which is a statement about states. C3 is modelled (`Age`) but never
needed for it: finitely many FUA writes all end up waiting for the flush, which C2 then
lets through. The journal and the mounts have safety properties only.

## 4. What the properties say

`TypeOK` of each module is an invariant of its instance; the runs do not repeat it. For
`QueueUsage`, `BlkMqRequest` and `BlkFlush` it is proved, for `BlkMqDispatch` for the
variables its theorems are about.

`QueueUsage`: `FrozenMeansUnused`, `DyingBlocksEntry`, `NoLostWakeup`, `DeadMeansDrained`;
`FreezeCompletes`, `EntryResolves`, `CleanupDrains`, `SleepersRefused` (temporal).
`BlkMqDispatch`: `OnePlace`, `DriverHasTag`, `WaitingHoldsNoTag`, `RestartCounted`,
`QuietMeansDone` (when nobody is active and no run is scheduled, nothing is left),
`NoDispatchWhenQuiesced`, `NoStall` (temporal).
`BlkMqRequest`: `TimeoutOwnsRequest`, `CompletionHeard`, `WaitingNotStarted`;
`LostIsTimedOut` (temporal). `OnlyLateTimeOut` fails (run `request_recycled`).
`BlkFlush`: `FuaDurable`, `FlushedBefore` (data of a FLUSH request is not sent, and it does
not complete, before what had completed earlier is on the media), `OneFlush`, `OnePlace`,
`QuietMeansEnded`.
`Jbd2Log`: `LogNeverFull` (the head never reaches the tail, and `j_free` is their distance),
`NoSpaceAbort` (the journal is not given up for lack of space unless tid 0 commits),
`FlushedIsEmpty`, `JournalledNotDirty` (writeback cannot carry a change home before its
commit), `ReplaySparesData` (no recovery writes over a block that was freed and given to a
file) and `StoreUnlessLapsed`, the refinement of `JournaledStore` up to the first lapse.
`ImplementsStore`, without exception, fails (run `jbd2_checkpoint_race`).
`MountPropagation`: `PeerGroups`, `SlaveLists`, `MountTrees` (the linked structures agree
with each other), `FailureUndone` (which also says that no NULL master is followed),
`Propagated`, `UnmountPropagated`, `StillReceives` (no call cuts off mounts it is not
about), `NamespaceCopied`. The reference for the walks of `pnode.c` is `Receives`: b
receives from a if they are peers or the master of b receives from a. `UmountHasParent`
fails (run `mounts_root`).

The models reach the following. Where a property that holds makes an exception for one, it
is named; most are recorded as hazards. The variable `lapses` of `Jbd2Log` is a history of
those that break the promise of the journal; TLC finds a loss after each of the four alone.

* *Checkpoint race* (lapse "taken", run `jbd2_checkpoint_race`). The checkpoint puts a dirty
  buffer into its batch and drops `j_list_lock`; a handle takes the buffer into the running
  transaction, which clears the dirty bit; the batch writes nothing; the checkpoint waits for
  a write that is not under way and drops the buffer; the tail moves; power fails; recovery
  does not find the committed content. The same happens without the batch if
  `__process_buffer()` meets the buffer after `do_get_write_access()` has cleared the dirty
  bit (`ClearDirty`) and before it has filed the buffer (`GetWriteAccess`).
* *Revoke after a change* (lapse "revoked", `transaction.c:1393`). A handle changes and then
  revokes a buffer the previous transaction is committing. The buffer leaves the running
  transaction, its new content stays, and goes home when the old transaction is
  checkpointed.
* *External log* (lapse "unflushed", `commit.c:918`). With the log on a device of its own, and
  a transaction for which `t_need_data_flush` is not set, the cache of the file system's
  device is not flushed but the tail moves. The flag is set only by
  `jbd2_journal_file_inode()`, so the model lets it have either value.
* *Tid 0.* A sequence that wraps uses it. `__jbd2_log_wait_for_space()` takes it for "none
  commits" (`checkpoint.c:163`) and aborts the journal: the exception of `NoSpaceAbort`. What
  an aborted journal does is not modelled. And `do_one_pass()` takes `end_transaction` 0 for
  "not set" (`recovery.c:746`): after a power failure in the asynchronous commit of tid 0 it
  replays a transaction with a bad checksum (lapse "tid 0").
* *Refused after its start* (`Refusable` of `BlkMqRequest`). A request that `queue_rq` starts
  and then refuses goes back to `hctx->dispatch` without COMPLETE; a worker that has found the
  structure late in its previous use marks it COMPLETE, finds it STARTED still, and calls the
  timeout handler for it. The exception of
  `TimeoutOwnsRequest`: with every request refusable the property would say nothing, so the
  run has one request of each sort on one tag.
* *Timer lost.* The one timer of the queue, pending for an earlier deadline, fires between
  `blk_add_timer()` and the setting of STARTED; the worker passes over the request and sets
  no timer. If the device then loses the request, nothing ends it until another request is
  started. So `LostIsTimedOut` asks for a timer that is set, for whichever request.
* *Mutex cycle.* `NoMutexCycle` of `Jbd2Log` says that no task sleeps for the committing
  transaction with `j_checkpoint_mutex` held while that commit needs the mutex. TLC refutes
  it within seconds: `checkpoint.c:294` waits for the commit, `commit.c:1089` takes the mutex.
* *Root of a namespace* (run `mounts_root`, `pnode.c:514`). MNT_DETACH of a mount that is its
  own parent meets the `BUG_ON()` of `__propagate_umount()`: `do_umount()` does not look
  whether the mount is the root of a namespace. The root of the first namespace is rootfs,
  which a process has as its root if nothing is mounted over it, or after `setns()`
  (`mntns_install()`, `namespace.c:3122`) once what was mounted over it is unmounted lazily.
* *Tail after an abort* (`commit.c:1089`). I/O errors are not modelled; by reading, the tail
  moves also after the journal was aborted, which `checkpoint.c:437` rules out.
* *Restart read early* (`blk-mq.c:1374`). Nothing but a `spin_unlock()` orders the addition to
  `hctx->dispatch` before the read of SCHED_RESTART. A variant of `BlkMqDispatch` in which the
  read may come first left a request behind; the model kept here is sequentially consistent.

## 5. Proofs

The runs check small instances; the theorems hold for every number of tasks, freezers,
threads, hardware queues, requests, blocks and tags:

* `QueueUsage_proof`, if all freezers hold the `sysfs_lock` (`OneMutex`): `TypeOK`,
  `FrozenMeansUnused`, `NoLostWakeup`, `DeadMeansDrained` and `DyingBlocksEntry`. The
  invariant `IInv` adds to the types who holds the mutex in which phase (`LockInv`), the
  freeze depth as the number of freezers and cleanup steps that count, with the counter
  killed exactly in their phases (`DepthInv`), and the counter as one initial reference plus
  the users (`RefInv`). None of the properties is inductive without the last two: they are
  what a reinit at the wrong time would break.
* `BlkMqDispatch_proof`, for hardware queues of any number, shared tags or not, with or
  without scheduler, and any troubles: `OnePlace`, `DriverHasTag`, `WaitingHoldsNoTag`,
  `RestartCounted` and the action property `NoDispatchWhenQuiesced`. `IInv` has four parts.
  `MoveInv` says where requests and tags are: no list holds a
  request twice (`ListInv`), a request is in one place and that belongs to its hardware queue
  (`PlaceInv`), at which lines a thread has requests on its list (`ThreadInv`), and which of
  them may hold a tag there: the first, or the second, for which one was taken ahead
  (`TagInv`). The last is what makes `WaitingHoldsNoTag` inductive: a dispatcher that puts
  its list back must have given away every tag on it. `TagCount` says that the tags in use are
  no more than the tag set has. `RestartInv` is `RestartCounted` with
  the threads between mark and count finite in number. `QuiesceInv` says that a thread past
  the test of QUIESCED is among those that `synchronize_rcu()` waits for. `MoveInv` and
  `QuiesceInv` are shown inductive in `BlkMqDispatchMoves`, the two that count in
  `BlkMqDispatch_proof`.
  And, with `BlkMqDispatchWakes`, who comes back for a request that waits. `WakeInv`
  adds to `IInv` that what is on `hctx->dispatch` without the mark SCHED_RESTART is looked at
  again (`DispatchInv`): by a run that is pending or that starting or unquiescing the queue
  brings, by a thread that has yet to look at the list, or by a completion that has cleared
  the mark and is about to run the queue. What is in the scheduler is looked at again too, or
  waits behind something on `hctx->dispatch` (`SchedInv`). So when all is quiet only requests
  behind a mark can be left (`OnlyMarkedIsLeft`), however many queues share the tags. If the
  tag set serves one hardware queue (`LoneQueue`), nothing is left: `QuietMeansDone`
  (`OwnTagsLeaveNothing`). For that `MarkInv` says that a mark is always answered: a request
  is in flight and will look for marks when it ends, or a thread still tries to get one to
  the driver, or the list is not empty and a run is to come. The case to watch is a
  dispatcher that finds no tag after it has set the mark: all tags are out, and whoever holds
  one has a request in flight or is on the way (`TagsOut`).
* `BlkFlush_proof`, for any number of requests, every device, and errors and requeues
  anywhere: `FuaDurable`, `FlushedBefore`, `OneFlush`, `OnePlace` and `QuietMeansEnded`. `IInv`
  says where a request is (`PlaceInv`), that the flush request is out exactly while the
  indices differ (`FlushInv`), that `flush_end_io()` walks the list that has just stopped
  running and that this list is empty otherwise (`WalkInv`), that the place of a request
  follows from the steps it has done (`SeqInv`), what the flush in progress covers for those
  who wait for it (`MediaInv`), and who will run the queue again (`RunInv`). The two promises
  to file systems need all but the last: a request may only take a flush for its own if it
  was on the list before that flush was sent. `QuietMeansEnded` needs the last: if no data is
  in flight, `blk_kick_flush()` has found nothing to wait for.
* `BlkMqRequest_proof`, whatever drivers refuse, requeue or lose: `TypeOK`,
  `CompletionHeard`, `WaitingNotStarted` and, for every request that its driver does not
  refuse once it has started it, `TimeoutOwnsRequest`. `IInv` says where STARTED is set and
  where it is clear (`StartedInv`), that a request just started is not late and that one that
  ends after the device had it is COMPLETE (`EndingInv`), and what the worker may still
  believe of the request it looks at (`WorkerInv`); the last two except what may be refused.
  A request is not late before `blk_mq_start_request()` and `queue_rq` return (`Expire`): a
  timeout is seconds long.
* `Jbd2Log_proof`: `JournalledNotDirty`, for any number of blocks, any log, any number of
  transactions, checkpoints, power failures and recoveries. The invariant `BuffersGood` says
  of each buffer on its own that a transaction has it or it may be dirty, never both, and
  that it has a frozen copy or a next transaction only while the committing one has it:
  without the second part the refiling at the end of a commit could leave a dirty buffer
  with the next transaction. One lemma per function on buffers (`GoodRefile`, `GoodAccess`,
  ...), then one step per action. In the same module: `tid_gt()` and `tid_geq()` order by
  age all transactions within half of the numbers, for every width of the word (`TidOrder`),
  and the bound is tight (`TidHalfApart`). With `Jbd2LogSpace`, the geometry of the log,
  from `LogInv` (module `Jbd2LogInv`): `j_free` is the distance from the head to the tail
  (`FreeIsWhatIsLeft`, the second half of `LogNeverFull`), and `FlushedIsEmpty`
  (`FlushedLogIsEmpty`). A *place* is a transaction and the block where it begins; all
  places are measured back from the one where the last transaction begins (`EndPlace`), in
  transactions (`Age`) and in blocks (`Room`). `SpaceInv` says that `j_free` is what the
  ring has outside the log and that this place lies between tail and head.
  `__jbd2_update_log_tail()` computes what it frees from the old and the new tail alone, so
  that needs every place that may become the tail to lie between the two: the transactions
  of the checkpoint list, each at or after the one before (`ListInv`), and the tail that the
  commit looked up before it waited for its I/O, which checkpoints may overtake meanwhile
  (`TailInv`). `tid_gt()` decides whether the tail moves, by transactions and not by blocks;
  a transaction has at least one block (`Placed`), so at most as many are in the log as it
  has blocks. `CommitInv` says which tid commits, and `FlushedInv` that nothing commits
  while JBD2_FLUSHED is set. TLC checked `LogInv` on the instance of `jbd2` first. The two
  theorems have two hypotheses. `Maxlen <= TidHalf`: the log has at most 2^31 blocks, so
  that `tid_gt()` sees the tail move. `[]BlockLeft`: `J_ASSERT(journal->j_free > 1)` has not
  failed, as the code stops the machine there.

The assumptions on constants are the named `ASSUME`s of the modules. `BlkFlush_proof` and
`BlkMqDispatchMoves` begin with lemmas on what adding at either end, concatenation and
removal of the head do to the set of entries of a list and to its being without duplicates.
What the two recursive functions of `Jbd2Log` that the geometry needs return (`StillNeeded`,
the list that a checkpoint leaves, and the scan of recovery) is proved by the least number
for which it would fail (`LeastNatural`).

Checked by TLC only:

* all liveness properties (`FreezeCompletes`, `EntryResolves`, `CleanupDrains`,
  `SleepersRefused`, `NoStall`, `LostIsTimedOut`), which are out of the prover's reach;
* `QuietMeansDone` of `BlkMqDispatch` for hardware queues that share tags: it fails if drivers
  answer DEV_BUSY (`dispatch_shared_dev_busy`). Without that, whether a mark is answered
  depends on a chain of completions across queues, each of which restarts the first queue it
  finds that has something to run; no invariant for that chain has been found;
* `BlockLeft`, the first half of `LogNeverFull`, and `NoSpaceAbort` of `Jbd2Log`. They are
  about the credits of handles and do not follow from them alone: `start_this_handle()` begins
  a transaction before it looks for space, and one that commits before a handle has joined
  takes a commit block nobody has reserved. A row of such transactions longer than
  `MinLogReserved` would use up the log of the model, where nothing forces the task that
  waits for space to get on; the run has three transactions;
* `ReplaySparesData` and `StoreUnlessLapsed`: what recovery makes of every log would need an
  invariant on the contents of each block of the log with all that a power failure may leave
  there, and an induction over the three passes for each of them;
* all of `MountPropagation`, which is written with recursive operators.

## 6. Not modelled, and limits

`blk_abort_flushes` and `elv_abort_queue` have no caller. In `BlkFlush` a request without
data asks for FLUSH only, as the head of `blk-flush.c` says, `q->flush_flags` does not
change, requests cloned by stacking drivers are not told from others, and each request is
submitted once. Flush requests of the multi-queue path, request statistics, debugfs, polling
and merging are left out of the dispatch model; the choice between taking one or all
requests of the software queues is left open. All models assume sequential consistency.

`Jbd2Log` leaves out I/O errors and what a journal does once it was aborted, mounts without
barriers, buffers that truncate unmaps (`journal_unmap_buffer`), undo access, the inode
lists of ordered mode, `lock_updates`, transactions with more than one descriptor block and
checksums of version 2; one handle is open at a time. `MountPropagation` leaves out
`pivot_root`, remount, the expiry of automounts, private clones (`collect_mounts`), mounts
that stay open after a lazy umount (so that a change of type of a mount that belongs to no
namespace is left out), the flags that lock mounts for user namespaces, and several file
systems: all mounts show one file system with a root and one directory, which is enough for
a mount of a subdirectory that does not show the mount point.

Tag allocation (`blk_mq_get_tag`, `hctx_may_queue`) rests on the wait queues of
`lib/sbitmap.c`, which is not in the tree, so that a model of who is woken would not be a
translation. Schedulers and merging are sequential choices under a lock, which
`BlkMqDispatch` takes for a list with requests that nothing tells apart (`TakeFromSched`
takes its head). The tree is a whole kernel of more
than two million lines, of which the models cover the parts with a protocol among several
actors that the repository annotates; for the other components see `PROJECT.json`.

## 7. Further work

I/O errors and abort in `Jbd2Log`, with the tail update of `commit.c:1089`; an abstract queue
(each request ends once) implemented by `BlkMqRequest` and `BlkMqDispatch`; the switch of the
elevator over both; proofs of `QuietMeansDone` without DEV_BUSY on shared tags, and that the
journal implements `JournaledStore`.
