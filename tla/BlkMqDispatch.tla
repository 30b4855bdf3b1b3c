---------------------------- MODULE BlkMqDispatch ----------------------------
(***************************************************************************)
(* Running a hardware queue of blk-mq: requests wait in the scheduler (or   *)
(* the software queues), a run of the queue takes them to the driver, what  *)
(* the driver or the lack of a driver tag refuses goes to hctx->dispatch,   *)
(* and a completion, a freed tag or a later run has to come back for it.    *)
(* SCHED_RESTART, dispatch_wait, the STOPPED bit and quiescing are all here.*)
(*                                                                         *)
(* block/blk-mq.c        blk_mq_dispatch_rq_list, blk_mq_mark_tag_wait,     *)
(*                       blk_mq_run_hw_queue, __blk_mq_try_issue_directly,  *)
(*                       __blk_mq_finish_request, blk_mq_quiesce_queue ...  *)
(* block/blk-mq-sched.c  blk_mq_sched_dispatch_requests,                    *)
(*                       blk_mq_sched_restart ...                          *)
(*                                                                         *)
(* Every hardware queue belongs to a request queue of its own; with more    *)
(* than one they share one tag set (BLK_MQ_F_TAG_SHARED).  A thread is the  *)
(* kblockd worker of a hardware queue or a task that submits requests.      *)
(***************************************************************************)
EXTENDS Integers, Sequences, FiniteSets, Functions

CONSTANTS
    Hctxs,        \* hardware queues; each names its kblockd worker as well
    Tasks,        \* submitting tasks
    Requests,     \* the requests submitted, numbered in their order on each queue
    HctxOf,       \* HctxOf[r]: the hardware queue r is mapped to
    NTags,        \* driver tags of the tag set
    WaitQueues,   \* wait queues of the bitmap of the tags (SBQ_WAIT_QUEUES)
    Elevators,    \* whether an I/O scheduler may be attached, may be missing
    Direct,       \* whether tasks may issue directly: no scheduler, or a queue with
                  \* more hardware queues than this one
    Troubles,     \* what may go wrong: the answers "BUSY", "DEV_BUSY", "ERROR" of
                  \* queue_rq, "STOP" by the driver, "QUIESCE" by another task
    MaxTrouble    \* bound: how often something goes wrong

ASSUME SomeHctx == Hctxs # {}
ASSUME RequestNumbers == Requests \subseteq Nat
ASSUME MapType == HctxOf \in [Requests -> Hctxs]
ASSUME TagsPositive == NTags \in Nat \ {0} /\ WaitQueues \in Nat \ {0}
ASSUME NamesDistinct == Hctxs \cap Tasks = {}
ASSUME FlagTypes == Elevators \subseteq BOOLEAN /\ Direct \in BOOLEAN

VARIABLES
    submitted,    \* requests submitted so far: every one is, at most once
    live,         \* those not yet freed
    sched,        \* sched[h]: requests in the scheduler or software queues of h
    dispatch,     \* hctx->dispatch
    tagged,       \* requests that hold a driver tag
    inDriver,     \* requests queue_rq accepted
    restart,      \* BLK_MQ_S_SCHED_RESTART of each hardware queue
    nrestart,     \* shared_hctx_restart of the queue of each hctx
    waitOn,       \* the wait queue of the tags that dispatch_wait of h is on, or None
    waitIndex,    \* hctx->wait_index: the wait queue h takes next
    wakeIndex,    \* wake_index of the bitmap: the wait queue to wake next
    work,         \* work[h]: hctx->run_work is pending
    stopped,      \* BLK_MQ_S_STOPPED
    quiesced,     \* QUEUE_FLAG_QUIESCED of the queue of each hctx
    qpc,          \* the task in blk_mq_quiesce_queue() / unquiesce, per queue
    readers,      \* RCU readers synchronize_rcu() still waits for, per queue
    pc, cur, list, more, noTag, ret,        \* what each thread does, and its locals
    rphase, todo, \* the end of each request: blk_mq_sched_restart()
    elevator,     \* q->elevator is set
    trouble       \* how often something went wrong

locals == <<pc, cur, list, more, noTag, ret>>
ending == <<rphase, todo>>
waiting == <<waitOn, waitIndex, wakeIndex>>
quiesce == <<quiesced, qpc, readers>>
vars == <<submitted, live, sched, dispatch, tagged, inDriver, restart, nrestart, waiting,
          work, stopped, quiesce, locals, ending, elevator, trouble>>

Threads == Hctxs \cup Tasks
Shared == Cardinality(Hctxs) > 1

None == -1

\* What cur[t] of an idle task holds: nothing reads it.
AnyHctx == CHOOSE h \in Hctxs : TRUE

\* Threads inside hctx_lock(): dispatching, or issuing directly.
Reading == {"start", "mark", "count", "take", "loop", "tag", "twait", "retry", "next",
            "queue", "splice", "check", "direct", "directq", "sync"}

TypeOK ==
    /\ live \subseteq submitted /\ submitted \subseteq Requests
    /\ tagged \subseteq Requests
    /\ inDriver \subseteq Requests
    /\ \A h \in Hctxs : Range(sched[h]) \cup Range(dispatch[h]) \subseteq Requests
    /\ restart \in [Hctxs -> BOOLEAN]
    /\ nrestart \in [Hctxs -> -Cardinality(Threads)..1]
    /\ waitOn \in [Hctxs -> {None} \cup 0..WaitQueues - 1]
    /\ waitIndex \in [Hctxs -> 0..WaitQueues - 1]
    /\ wakeIndex \in 0..WaitQueues - 1
    /\ work \in [Hctxs -> BOOLEAN]
    /\ stopped \in [Hctxs -> BOOLEAN]
    /\ quiesced \in [Hctxs -> BOOLEAN]
    /\ qpc \in [Hctxs -> {"off", "sync", "on", "rerun"}]
    /\ readers \in [Hctxs -> SUBSET Threads]
    /\ pc \in [Threads -> Reading \cup {"idle", "kick"}]
    /\ cur \in [Threads -> Hctxs]
    /\ \A t \in Threads : Range(list[t]) \subseteq Requests
    /\ more \in [Threads -> BOOLEAN]
    /\ noTag \in [Threads -> BOOLEAN]
    /\ ret \in [Threads -> {"OK", "BUSY", "DEV_BUSY"}]
    /\ rphase \in [Requests -> {"none", "read", "scan", "rerun"}]
    /\ \A r \in Requests : Range(todo[r]) \subseteq Hctxs
    /\ elevator \in Elevators /\ trouble \in 0..MaxTrouble

Init ==
    /\ elevator \in Elevators
    /\ submitted = {} /\ live = {} /\ tagged = {} /\ inDriver = {}
    /\ sched = [h \in Hctxs |-> <<>>]
    /\ dispatch = [h \in Hctxs |-> <<>>]
    /\ restart = [h \in Hctxs |-> FALSE]
    /\ nrestart = [h \in Hctxs |-> 0]
    /\ waitOn = [h \in Hctxs |-> None]
    /\ waitIndex = [h \in Hctxs |-> 0]
    /\ wakeIndex = 0
    /\ work = [h \in Hctxs |-> FALSE]
    /\ stopped = [h \in Hctxs |-> FALSE]
    /\ quiesced = [h \in Hctxs |-> FALSE]
    /\ qpc = [h \in Hctxs |-> "off"]
    /\ readers = [h \in Hctxs |-> {}]
    /\ pc = [t \in Threads |-> "idle"]
    /\ cur = [t \in Threads |-> IF t \in Hctxs THEN t ELSE AnyHctx]
    /\ list = [t \in Threads |-> <<>>]
    /\ more = [t \in Threads |-> FALSE]
    /\ noTag = [t \in Threads |-> FALSE]
    /\ ret = [t \in Threads |-> "OK"]
    /\ rphase = [r \in Requests |-> "none"]
    /\ todo = [r \in Requests |-> <<>>]
    /\ trouble = 0

-----------------------------------------------------------------------------
(* Running a queue. *)

\* blk_mq_hctx_has_pending()
HasPending(h) == dispatch[h] # <<>> \/ sched[h] # <<>>

\* need_run of blk_mq_run_hw_queue()
NeedRun(h) == ~quiesced[h] /\ HasPending(h)

\* blk_mq_run_hw_queue(h, true): run_work as it is afterwards.
RunAsync(h) ==
    [work EXCEPT ![h] = @ \/ (NeedRun(h) /\ ~stopped[h])]

\* blk_mq_delay_run_hw_queue(h, msecs): it does not look at what is pending.
DelayRun(h) ==
    [work EXCEPT ![h] = @ \/ ~stopped[h]]

TagFree == Cardinality(tagged) < NTags

\* sbq_index_inc()
IndexInc(i) == (i + 1) % WaitQueues

\* sbitmap_queue_clear() wakes one of the wait queues, the next that has waiters:
\* all of them are on it as non-exclusive ones, so all of them are run
\* (blk_mq_dispatch_wake).  W is the state of the wait queues and of run_work.
Wake(W) ==
    LET ahead(i) == (W.index + i) % WaitQueues
        hits == {i \in 0..WaitQueues - 1 : \E h \in Hctxs : W.on[h] = ahead(i)}
        q == ahead(CHOOSE i \in hits : \A j \in hits : i <= j)
    IN  IF hits = {} THEN W
        ELSE [on |-> [h \in Hctxs |-> IF W.on[h] = q THEN None ELSE W.on[h]],
              index |-> IndexInc(q),
              work |-> [h \in Hctxs |-> W.work[h] \/ (W.on[h] = q /\ RunAsync(h)[h])]]

\* The tags of the requests in R, two at most, are put.
PutTags(R) ==
    LET W0 == [on |-> waitOn, index |-> wakeIndex, work |-> work]
        n == Cardinality(R \cap tagged)
        W == IF n = 0 THEN W0 ELSE IF n = 1 THEN Wake(W0) ELSE Wake(Wake(W0))
    IN  /\ tagged' = tagged \ R
        /\ waitOn' = W.on
        /\ wakeIndex' = W.index
        /\ work' = W.work

Goto(t, label) == pc' = [pc EXCEPT ![t] = label]

\* The thread returns from the code modelled here and drops its locals.
Return(t) ==
    /\ pc' = [pc EXCEPT ![t] = "idle"]
    /\ cur' = [cur EXCEPT ![t] = IF t \in Hctxs THEN t ELSE AnyHctx]
    /\ list' = [list EXCEPT ![t] = <<>>]
    /\ more' = [more EXCEPT ![t] = FALSE]
    /\ noTag' = [noTag EXCEPT ![t] = FALSE]
    /\ ret' = [ret EXCEPT ![t] = "OK"]

-----------------------------------------------------------------------------
(* Submitting. *)

\* Allocation: without a scheduler the request gets its driver tag at once, and
\* a task that finds none sleeps until one is free.
Alloc(r) ==
    /\ r \notin submitted
    /\ \A x \in Requests : x < r /\ HctxOf[x] = HctxOf[r] => x \in submitted
    /\ submitted' = submitted \cup {r}
    /\ live' = live \cup {r}
    /\ \/ elevator /\ UNCHANGED tagged
       \/ ~elevator /\ TagFree /\ tagged' = tagged \cup {r}

\* The request goes to the scheduler or to the software queue ...
InsertRequest(t, r) ==
    /\ t \in Tasks /\ pc[t] = "idle"
    /\ Alloc(r)
    /\ sched' = [sched EXCEPT ![HctxOf[r]] = Append(@, r)]
    /\ cur' = [cur EXCEPT ![t] = HctxOf[r]]
    /\ Goto(t, "kick")
    /\ UNCHANGED <<dispatch, inDriver, restart, nrestart, waiting, work, stopped,
                   quiesce, list, more, noTag, ret, ending, trouble>>

\* ... and the hardware queue is run.
RunHwQueue(t) ==
    /\ pc[t] = "kick"
    /\ work' = RunAsync(cur[t])
    /\ Return(t)
    /\ UNCHANGED <<submitted, live, sched, dispatch, tagged, inDriver, restart, nrestart,
                   waiting, stopped, quiesced, qpc, ending, trouble>>

\* blk_mq_try_issue_directly(): hctx_lock() is taken ...
TryIssueDirectly(t, r) ==
    /\ Direct
    /\ t \in Tasks /\ pc[t] = "idle"
    /\ Alloc(r)
    /\ cur' = [cur EXCEPT ![t] = HctxOf[r]]
    /\ list' = [list EXCEPT ![t] = <<r>>]
    /\ Goto(t, "direct")
    /\ UNCHANGED <<sched, dispatch, inDriver, restart, nrestart, waiting, work,
                   stopped, quiesce, more, noTag, ret, ending, trouble>>

\* blk_mq_request_bypass_insert(), before it runs the queue
BypassInsert(t) ==
    dispatch' = [dispatch EXCEPT ![cur[t]] = @ \o list[t]]

\* ... and the queue must be neither stopped nor quiesced; under a scheduler
\* the request goes to hctx->dispatch all the same.
CheckDirect(t) ==
    LET shut == stopped[cur[t]] \/ quiesced[cur[t]] IN
    /\ pc[t] = "direct"
    /\ \/ /\ shut
          /\ BypassInsert(t)
          /\ Return(t)
       \/ /\ ~shut /\ elevator
          /\ BypassInsert(t)
          /\ list' = [list EXCEPT ![t] = <<>>]
          /\ Goto(t, "sync")
          /\ UNCHANGED <<cur, more, noTag, ret>>
       \/ /\ ~shut /\ ~elevator
          /\ Goto(t, "directq")
          /\ UNCHANGED <<dispatch, cur, list, more, noTag, ret>>
    /\ UNCHANGED <<submitted, live, sched, tagged, inDriver, restart, nrestart, waiting, work,
                   stopped, quiesced, qpc, ending, trouble>>

\* queue_rq of the driver answers `reply' for r.  DEV_BUSY is for a resource of
\* the device that requests in flight on it give back when they complete
\* (include/linux/blk-mq.h:274); BUSY may come with nothing in flight.
DriverReply(reply, r) ==
    /\ reply \in (Troubles \cap {"BUSY", "DEV_BUSY", "ERROR"}) \cup {"OK"}
    /\ reply = "DEV_BUSY" => \E x \in inDriver : HctxOf[x] = HctxOf[r]
    /\ trouble' = IF reply = "OK" THEN trouble ELSE trouble + 1
    /\ trouble' <= MaxTrouble

\* blk_mq_end_request(): r gives its driver tag back; the rest of its end follows
\* step by step (ReadRestart ...).
EndRequest(r) ==
    /\ PutTags({r})
    /\ rphase' = [rphase EXCEPT ![r] = "read"]

\* __blk_mq_issue_directly() and what its callers do with the answer.  Without
\* a scheduler the request keeps its tag (internal_tag = -1).
IssueDirectly(t) ==
    LET r == Head(list[t]) IN
    /\ pc[t] = "directq"
    /\ \E reply \in {"OK", "BUSY", "DEV_BUSY", "ERROR"} :
        /\ DriverReply(reply, r)
        /\ \/ /\ reply = "OK"
              /\ inDriver' = inDriver \cup {r}
              /\ Return(t)
              /\ UNCHANGED <<dispatch, tagged, waitOn, wakeIndex, work, rphase>>
           \/ /\ reply = "ERROR"
              /\ EndRequest(r)
              /\ Return(t)
              /\ UNCHANGED <<dispatch, inDriver>>
           \/ /\ reply \in {"BUSY", "DEV_BUSY"}
              /\ BypassInsert(t)
              /\ list' = [list EXCEPT ![t] = <<>>]
              /\ Goto(t, "sync")
              /\ UNCHANGED <<tagged, waitOn, wakeIndex, work, inDriver, rphase, cur, more,
                             noTag, ret>>
    /\ UNCHANGED <<submitted, live, sched, restart, nrestart, waitIndex, stopped, quiesced,
                   qpc, todo>>

\* blk_mq_run_hw_queue(h, false) by the submitting task, on a CPU of the hctx
RunSync(t) ==
    /\ pc[t] = "sync"
    /\ IF NeedRun(cur[t]) /\ ~stopped[cur[t]]
          THEN Goto(t, "start") /\ UNCHANGED <<cur, list, more, noTag, ret>>
          ELSE Return(t)
    /\ UNCHANGED <<submitted, live, sched, dispatch, tagged, inDriver, restart, nrestart,
                   waiting, work, stopped, quiesced, qpc, ending, trouble>>

-----------------------------------------------------------------------------
(* A run of the queue: blk_mq_sched_dispatch_requests(). *)

\* blk_mq_run_work_fn(): the worker of h enters hctx_lock().
RunWork(h) ==
    /\ pc[h] = "idle" /\ work[h]
    /\ work' = [work EXCEPT ![h] = FALSE]
    /\ Goto(h, "start")
    /\ UNCHANGED <<elevator, submitted, live, sched, dispatch, tagged, inDriver, restart, nrestart,
                   waiting, stopped, quiesce, cur, list, more, noTag, ret,
                   ending, trouble>>

\* Nothing if the queue is stopped or quiesced; the residual requests of
\* hctx->dispatch if there are any; else the scheduler's or the software queues'.
StartDispatch(t) ==
    LET h == cur[t] IN
    /\ pc[t] = "start"
    /\ \/ /\ stopped[h] \/ quiesced[h]
          /\ Return(t)
          /\ UNCHANGED dispatch
       \/ /\ ~stopped[h] /\ ~quiesced[h] /\ dispatch[h] # <<>>
          /\ list' = [list EXCEPT ![t] = dispatch[h]]
          /\ dispatch' = [dispatch EXCEPT ![h] = <<>>]
          /\ more' = [more EXCEPT ![t] = TRUE]
          /\ Goto(t, "mark")
          /\ UNCHANGED <<cur, noTag, ret>>
       \/ /\ ~stopped[h] /\ ~quiesced[h] /\ dispatch[h] = <<>>
          /\ Goto(t, "take")
          /\ UNCHANGED <<dispatch, cur, list, more, noTag, ret>>
    /\ UNCHANGED <<submitted, live, sched, tagged, inDriver, restart, nrestart, waiting, work,
                   stopped, quiesced, qpc, ending, trouble>>

\* blk_mq_sched_mark_restart_hctx(): the bit ...
MarkRestart(t) ==
    LET h == cur[t] IN
    /\ pc[t] = "mark"
    /\ restart' = [restart EXCEPT ![h] = TRUE]
    /\ Goto(t, IF Shared /\ ~restart[h] THEN "count" ELSE "tag")
    /\ UNCHANGED <<submitted, live, sched, dispatch, tagged, inDriver, nrestart, waiting, work,
                   stopped, quiesced, qpc, cur, list, more, noTag, ret, ending, trouble>>

\* ... and, for shared tags, the count of the queue.
CountRestart(t) ==
    /\ pc[t] = "count"
    /\ nrestart' = [nrestart EXCEPT ![cur[t]] = @ + 1]
    /\ Goto(t, "tag")
    /\ UNCHANGED <<submitted, live, sched, dispatch, tagged, inDriver, restart, waiting, work,
                   stopped, quiesced, qpc, cur, list, more, noTag, ret, ending, trouble>>

\* blk_mq_do_dispatch_sched() and blk_mq_do_dispatch_ctx() take one request and
\* come back for more while it can be dispatched; blk_mq_flush_busy_ctxs()
\* takes all there is.  Which of the last two is used depends on
\* hctx->dispatch_busy, a running average that is not modelled.
TakeFromSched(t) ==
    LET h == cur[t] IN
    /\ pc[t] \in {"take", "loop"}
    /\ \/ /\ sched[h] = <<>>
          /\ Return(t)
          /\ UNCHANGED sched
       \/ /\ sched[h] # <<>>
          /\ list' = [list EXCEPT ![t] = <<Head(sched[h])>>]
          /\ sched' = [sched EXCEPT ![h] = Tail(@)]
          /\ more' = [more EXCEPT ![t] = TRUE]
          /\ Goto(t, "tag")
          /\ UNCHANGED <<cur, noTag, ret>>
       \/ /\ sched[h] # <<>> /\ pc[t] = "take" /\ ~elevator
          /\ list' = [list EXCEPT ![t] = sched[h]]
          /\ sched' = [sched EXCEPT ![h] = <<>>]
          /\ Goto(t, "tag")
          /\ UNCHANGED <<cur, more, noTag, ret>>
    /\ UNCHANGED <<submitted, live, dispatch, tagged, inDriver, restart, nrestart, waiting, work,
                   stopped, quiesced, qpc, ending, trouble>>

-----------------------------------------------------------------------------
(* blk_mq_dispatch_rq_list(). *)

\* With the tag of its first request, the thread looks for one for the second.
AfterTag(t) == IF Len(list[t]) > 1 THEN "next" ELSE "queue"

\* blk_mq_get_driver_tag() for the first request of the list
GetDriverTag(t) ==
    LET r == Head(list[t]) IN
    /\ pc[t] = "tag"
    /\ \/ /\ r \in tagged \/ TagFree
          /\ tagged' = tagged \cup {r}
          /\ Goto(t, AfterTag(t))
       \/ /\ r \notin tagged /\ ~TagFree
          /\ Goto(t, "twait")
          /\ UNCHANGED tagged
    /\ UNCHANGED <<submitted, live, sched, dispatch, inDriver, restart, nrestart, waiting, work,
                   stopped, quiesced, qpc, cur, list, more, noTag, ret, ending, trouble>>

\* blk_mq_mark_tag_wait(): whoever frees a tag from now on is to come back ...
MarkTagWait(t) ==
    LET h == cur[t] IN
    /\ pc[t] = "twait"
    /\ \/ /\ ~Shared
          /\ restart' = [restart EXCEPT ![h] = TRUE]
          /\ Goto(t, "retry")
          /\ UNCHANGED <<waitOn, waitIndex, noTag>>
       \/ /\ Shared /\ waitOn[h] = None
          /\ waitOn' = [waitOn EXCEPT ![h] = waitIndex[h]]
          /\ waitIndex' = [waitIndex EXCEPT ![h] = IndexInc(@)]
          /\ Goto(t, "retry")
          /\ UNCHANGED <<restart, noTag>>
       \/ /\ Shared /\ waitOn[h] # None
          /\ noTag' = [noTag EXCEPT ![t] = TRUE]
          /\ Goto(t, "splice")
          /\ UNCHANGED <<restart, waitOn, waitIndex>>
    /\ UNCHANGED <<submitted, live, sched, dispatch, tagged, inDriver, nrestart, wakeIndex, work,
                   stopped, quiesced, qpc, cur, list, more, ret, ending, trouble>>

\* (fault) the wait is taken for a tag
RetryBlind(t) ==
    LET h == cur[t] IN
    /\ pc[t] = "retry"
    /\ \/ /\ tagged' = IF TagFree THEN tagged \cup {Head(list[t])} ELSE tagged
          /\ waitOn' = [waitOn EXCEPT ![h] = None]
          /\ Goto(t, AfterTag(t))
          /\ UNCHANGED noTag
       \/ /\ ~TagFree
          /\ noTag' = [noTag EXCEPT ![t] = Shared]
          /\ Goto(t, "splice")
          /\ UNCHANGED <<tagged, waitOn>>
    /\ UNCHANGED <<submitted, live, sched, dispatch, inDriver, restart, nrestart, waitIndex,
                   wakeIndex, work, stopped,
                   quiesced, qpc, cur, list, more, ret, ending, trouble>>

\* (fault) no second look after marking
NoRetry(t) ==
    LET h == cur[t] IN
    /\ pc[t] = "retry"
    /\ \/ /\ FALSE
          /\ tagged' = tagged \cup {Head(list[t])}
          /\ waitOn' = [waitOn EXCEPT ![h] = None]
          /\ Goto(t, AfterTag(t))
          /\ UNCHANGED noTag
       \/ /\ TRUE
          /\ noTag' = [noTag EXCEPT ![t] = Shared]
          /\ Goto(t, "splice")
          /\ UNCHANGED <<tagged, waitOn>>
    /\ UNCHANGED <<submitted, live, sched, dispatch, inDriver, restart, nrestart, waitIndex,
                   wakeIndex, work, stopped,
                   quiesced, qpc, cur, list, more, ret, ending, trouble>>

\* ... and a tag freed before that is looked for once more.
RetryTag(t) ==
    LET h == cur[t] IN
    /\ pc[t] = "retry"
    /\ \/ /\ TagFree
          /\ tagged' = tagged \cup {Head(list[t])}
          /\ waitOn' = [waitOn EXCEPT ![h] = None]
          /\ Goto(t, AfterTag(t))
          /\ UNCHANGED noTag
       \/ /\ ~TagFree
          /\ noTag' = [noTag EXCEPT ![t] = Shared]
          /\ Goto(t, "splice")
          /\ UNCHANGED <<tagged, waitOn>>
    /\ UNCHANGED <<submitted, live, sched, dispatch, inDriver, restart, nrestart, waitIndex,
                   wakeIndex, work, stopped,
                   quiesced, qpc, cur, list, more, ret, ending, trouble>>

\* A driver tag for the request after the first, if there is one to have
GetNextTag(t) ==
    /\ pc[t] = "next"
    /\ tagged' = IF TagFree THEN tagged \cup {list[t][2]} ELSE tagged
    /\ Goto(t, "queue")
    /\ UNCHANGED <<submitted, live, sched, dispatch, inDriver, restart, nrestart, waiting, work,
                   stopped, quiesced, qpc, cur, list, more, noTag, ret, ending, trouble>>

\* (fault) the tag taken ahead is kept
RefusedOnly(t) == {Head(list[t])}

\* The requests that give their driver tag back when the driver refuses the
\* first of the list: it, and the next one, if a scheduler is attached.
Refused(t) == {list[t][i] : i \in DOMAIN list[t] \cap 1..2}

\* queue_rq() for the first request of the list
QueueRq(t) ==
    LET r == Head(list[t])
        rest == Tail(list[t])
        Advance == /\ list' = [list EXCEPT ![t] = rest]
                   /\ \/ rest # <<>> /\ Goto(t, "tag") /\ UNCHANGED <<cur, more, noTag, ret>>
                      \/ rest = <<>> /\ more[t] /\ Goto(t, "loop") /\ UNCHANGED <<cur, more, noTag, ret>>
                      \/ rest = <<>> /\ ~more[t] /\ Return(t)
    IN
    /\ pc[t] = "queue"
    /\ \E reply \in {"OK", "BUSY", "DEV_BUSY", "ERROR"} :
        /\ DriverReply(reply, r)
        /\ \/ /\ reply = "OK"
              /\ inDriver' = inDriver \cup {r}
              /\ Advance
              /\ UNCHANGED <<tagged, waitOn, wakeIndex, work, rphase>>
           \/ /\ reply = "ERROR"
              /\ EndRequest(r)
              /\ Advance
              /\ UNCHANGED inDriver
           \/ /\ reply \in {"BUSY", "DEV_BUSY"}
              /\ PutTags(IF elevator THEN Refused(t) ELSE {})
              /\ ret' = [ret EXCEPT ![t] = reply]
              /\ Goto(t, "splice")
              /\ UNCHANGED <<inDriver, rphase, cur, list, more, noTag>>
    /\ UNCHANGED <<submitted, live, sched, dispatch, restart, nrestart, waitIndex, stopped, quiesced, qpc, todo>>

\* (fault) the list replaces hctx->dispatch
SpliceOver(t) ==
    LET h == cur[t] IN
    /\ pc[t] = "splice"
    /\ dispatch' = [dispatch EXCEPT ![h] = list[t]]
    /\ list' = [list EXCEPT ![t] = <<>>]
    /\ Goto(t, "check")
    /\ UNCHANGED <<submitted, live, sched, tagged, inDriver, restart, nrestart, waiting, work,
                   stopped, quiesced, qpc, cur, more, noTag, ret, ending, trouble>>

\* What is left of the list goes back to hctx->dispatch ...
SpliceBack(t) ==
    LET h == cur[t] IN
    /\ pc[t] = "splice"
    /\ dispatch' = [dispatch EXCEPT ![h] = list[t] \o @]
    /\ list' = [list EXCEPT ![t] = <<>>]
    /\ Goto(t, "check")
    /\ UNCHANGED <<submitted, live, sched, tagged, inDriver, restart, nrestart, waiting, work,
                   stopped, quiesced, qpc, cur, more, noTag, ret, ending, trouble>>

\* (fault) a wakeup that came before the splice is forgotten
IgnoreDispatchWait(t) ==
    LET h == cur[t]
        needsRestart == restart[h]
        runNow == ~needsRestart
    IN
    /\ pc[t] = "check"
    /\ work' = IF runNow THEN RunAsync(h)
                ELSE IF ret[t] = "BUSY" THEN DelayRun(h) ELSE work
    /\ Return(t)
    /\ UNCHANGED <<submitted, live, sched, dispatch, tagged, inDriver, restart, nrestart, waiting,
                   stopped, quiesced, qpc, ending, trouble>>

\* ... and the queue is run again, unless a completion is sure to do that.
CheckRestart(t) ==
    LET h == cur[t]
        needsRestart == restart[h]
        runNow == ~needsRestart \/ (noTag[t] /\ waitOn[h] = None)
    IN
    /\ pc[t] = "check"
    /\ work' = IF runNow THEN RunAsync(h)
                ELSE IF ret[t] = "BUSY" THEN DelayRun(h) ELSE work
    /\ Return(t)
    /\ UNCHANGED <<submitted, live, sched, dispatch, tagged, inDriver, restart, nrestart, waiting,
                   stopped, quiesced, qpc, ending, trouble>>

-----------------------------------------------------------------------------
(* The end of a request: __blk_mq_finish_request(). *)

\* The driver completes r.
Complete(r) ==
    /\ r \in inDriver
    /\ inDriver' = inDriver \ {r}
    /\ EndRequest(r)
    /\ UNCHANGED <<elevator, submitted, live, sched, dispatch, restart, nrestart, waitIndex,
                   stopped, quiesce, locals, todo, trouble>>

\* The request is free: blk_queue_exit().
Finish(r) ==
    /\ live' = live \ {r}
    /\ rphase' = [rphase EXCEPT ![r] = "none"]
    /\ todo' = [todo EXCEPT ![r] = <<>>]

\* The hardware queues blk_mq_sched_restart(h) looks at, in one of their orders:
\* those of the other queues of the tag set, its own last.
RestartOrders(h) ==
    {o \in [1..Cardinality(Hctxs) -> Hctxs] :
        o[Cardinality(Hctxs)] = h /\ Range(o) = Hctxs}

\* blk_mq_sched_restart() begins: shared tags, and no hardware queue of
\* this request queue marked for a restart: done.
ReadRestart(r) ==
    LET h == HctxOf[r] IN
    /\ rphase[r] = "read"
    /\ \/ /\ Shared /\ nrestart[h] = 0
          /\ Finish(r)
       \/ /\ Shared => nrestart[h] # 0
          /\ \E o \in RestartOrders(h) : todo' = [todo EXCEPT ![r] = o]
          /\ rphase' = [rphase EXCEPT ![r] = "scan"]
          /\ UNCHANGED live
    /\ UNCHANGED <<submitted, sched, dispatch, tagged, inDriver, restart, nrestart, waiting, work,
                   stopped, quiesce, locals, trouble>>

\* (fault) the count is not taken down with the bit
ClearUncounted(r) ==
    LET h == Head(todo[r]) IN
    /\ rphase[r] = "scan"
    /\ \/ /\ todo[r] = <<>>
          /\ Finish(r)
          /\ UNCHANGED <<restart, nrestart>>
       \/ /\ todo[r] # <<>> /\ ~restart[h]
          /\ todo' = [todo EXCEPT ![r] = Tail(@)]
          /\ UNCHANGED <<restart, nrestart, live, rphase>>
       \/ /\ todo[r] # <<>> /\ restart[h]
          /\ restart' = [restart EXCEPT ![h] = FALSE]
          /\ nrestart' = nrestart
          /\ rphase' = [rphase EXCEPT ![r] = "rerun"]
          /\ UNCHANGED <<todo, live>>
    /\ UNCHANGED <<submitted, sched, dispatch, tagged, inDriver, waiting, work, stopped, quiesce,
                   locals, trouble>>

\* blk_mq_sched_restart_hctx() for the next one: its bit is cleared if it is set
ClearRestart(r) ==
    LET h == Head(todo[r]) IN
    /\ rphase[r] = "scan"
    /\ \/ /\ todo[r] = <<>>
          /\ Finish(r)
          /\ UNCHANGED <<restart, nrestart>>
       \/ /\ todo[r] # <<>> /\ ~restart[h]
          /\ todo' = [todo EXCEPT ![r] = Tail(@)]
          /\ UNCHANGED <<restart, nrestart, live, rphase>>
       \/ /\ todo[r] # <<>> /\ restart[h]
          /\ restart' = [restart EXCEPT ![h] = FALSE]
          /\ nrestart' = IF Shared THEN [nrestart EXCEPT ![h] = @ - 1] ELSE nrestart
          /\ rphase' = [rphase EXCEPT ![r] = "rerun"]
          /\ UNCHANGED <<todo, live>>
    /\ UNCHANGED <<submitted, sched, dispatch, tagged, inDriver, waiting, work, stopped, quiesce,
                   locals, trouble>>

\* and that queue is run; one that had something to run ends the search.
RestartHctx(r) ==
    LET h == Head(todo[r]) IN
    /\ rphase[r] = "rerun"
    /\ work' = RunAsync(h)
    /\ \/ /\ NeedRun(h)
          /\ Finish(r)
       \/ /\ ~NeedRun(h)
          /\ todo' = [todo EXCEPT ![r] = Tail(@)]
          /\ rphase' = [rphase EXCEPT ![r] = "scan"]
          /\ UNCHANGED live
    /\ UNCHANGED <<submitted, sched, dispatch, tagged, inDriver, restart, nrestart, waiting,
                   stopped, quiesce, locals, trouble>>

-----------------------------------------------------------------------------
(* Stopping and quiescing. *)

\* blk_mq_stop_hw_queue()
StopHwQueue(h) ==
    /\ ~stopped[h] /\ "STOP" \in Troubles /\ trouble < MaxTrouble
    /\ work' = [work EXCEPT ![h] = FALSE]
    /\ stopped' = [stopped EXCEPT ![h] = TRUE]
    /\ trouble' = trouble + 1
    /\ UNCHANGED <<elevator, submitted, live, sched, dispatch, tagged, inDriver, restart, nrestart, waiting,
                   quiesce, locals, ending>>

\* (fault) the queue is run and stays STOPPED
RunStopped(h) ==
    /\ stopped[h]
    /\ work' = [work EXCEPT ![h] = @ \/ NeedRun(h)]
    /\ UNCHANGED <<elevator, submitted, live, sched, dispatch, tagged, inDriver, restart, nrestart, waiting,
                   stopped, quiesce, locals, ending, trouble>>

\* blk_mq_start_stopped_hw_queues()
StartHwQueue(h) ==
    /\ stopped[h]
    /\ stopped' = [stopped EXCEPT ![h] = FALSE]
    /\ work' = [work EXCEPT ![h] = @ \/ NeedRun(h)]
    /\ UNCHANGED <<elevator, submitted, live, sched, dispatch, tagged, inDriver, restart, nrestart, waiting,
                   quiesce, locals, ending, trouble>>

\* (fault) blk_mq_quiesce_queue_nowait(): no grace period
QuiesceNowait(h) ==
    /\ qpc[h] = "off" /\ "QUIESCE" \in Troubles /\ trouble < MaxTrouble
    /\ quiesced' = [quiesced EXCEPT ![h] = TRUE]
    /\ readers' = [readers EXCEPT ![h] = {}]
    /\ qpc' = [qpc EXCEPT ![h] = "sync"]
    /\ trouble' = trouble + 1
    /\ UNCHANGED <<elevator, submitted, live, sched, dispatch, tagged, inDriver, restart, nrestart, waiting,
                   work, stopped, locals, ending>>

\* blk_mq_quiesce_queue(): the flag is set, synchronize_rcu() begins ...
QuiesceQueue(h) ==
    /\ qpc[h] = "off" /\ "QUIESCE" \in Troubles /\ trouble < MaxTrouble
    /\ quiesced' = [quiesced EXCEPT ![h] = TRUE]
    /\ readers' = [readers EXCEPT ![h] = {t \in Threads : pc[t] \in Reading /\ cur[t] = h}]
    /\ qpc' = [qpc EXCEPT ![h] = "sync"]
    /\ trouble' = trouble + 1
    /\ UNCHANGED <<elevator, submitted, live, sched, dispatch, tagged, inDriver, restart, nrestart, waiting,
                   work, stopped, locals, ending>>

\* ... and returns.
Quiesced(h) ==
    /\ qpc[h] = "sync" /\ readers[h] = {}
    /\ qpc' = [qpc EXCEPT ![h] = "on"]
    /\ UNCHANGED <<submitted, live, sched, dispatch, tagged, inDriver, restart, nrestart, waiting,
                   work, stopped, quiesced, readers, locals, ending, trouble>>

\* blk_mq_unquiesce_queue(): the flag is cleared ...
UnquiesceQueue(h) ==
    /\ qpc[h] = "on"
    /\ quiesced' = [quiesced EXCEPT ![h] = FALSE]
    /\ qpc' = [qpc EXCEPT ![h] = "rerun"]
    /\ UNCHANGED <<submitted, live, sched, dispatch, tagged, inDriver, restart, nrestart, waiting,
                   work, stopped, readers, locals, ending, trouble>>

\* ... and the hardware queues are run.
RunAfterQuiesce(h) ==
    /\ qpc[h] = "rerun"
    /\ work' = RunAsync(h)
    /\ qpc' = [qpc EXCEPT ![h] = "off"]
    /\ UNCHANGED <<submitted, live, sched, dispatch, tagged, inDriver, restart, nrestart, waiting,
                   stopped, quiesced, readers, locals, ending, trouble>>

-----------------------------------------------------------------------------
Submit(t) ==
    (\E r \in Requests : InsertRequest(t, r) \/ TryIssueDirectly(t, r)) /\ UNCHANGED elevator

\* hctx_unlock() ends the RCU (or SRCU) critical section that t was in.
LeaveRcu(t) ==
    readers' = [h \in Hctxs |-> IF pc'[t] \in Reading THEN readers[h] ELSE readers[h] \ {t}]

\* What a thread does without choice once it has begun
Step(t) ==
    /\ \/ RunHwQueue(t) \/ CheckDirect(t) \/ IssueDirectly(t) \/ RunSync(t)
       \/ StartDispatch(t) \/ MarkRestart(t) \/ CountRestart(t) \/ TakeFromSched(t)
       \/ GetDriverTag(t) \/ MarkTagWait(t) \/ RetryTag(t) \/ GetNextTag(t) \/ QueueRq(t)
       \/ SpliceBack(t) \/ CheckRestart(t)
    /\ LeaveRcu(t) /\ UNCHANGED elevator

End(r) == (ReadRestart(r) \/ ClearRestart(r) \/ RestartHctx(r)) /\ UNCHANGED elevator

Quiescing(h) ==
    (Quiesced(h) \/ UnquiesceQueue(h) \/ RunAfterQuiesce(h)) /\ UNCHANGED elevator

Next ==
    \/ \E t \in Tasks : Submit(t)
    \/ \E t \in Threads : Step(t)
    \/ \E h \in Hctxs : RunWork(h) \/ StopHwQueue(h) \/ StartHwQueue(h)
                        \/ QuiesceQueue(h) \/ Quiescing(h)
    \/ \E r \in Requests : Complete(r) \/ End(r)

Spec == Init /\ [][Next]_vars

\* Threads and workers are scheduled, the driver completes what it accepted, one request
\* or the other, and restarts what it stopped, and whoever quiesced a queue unquiesces it.
\* Nobody has to submit, stop or quiesce anything.
Fairness ==
    /\ \A t \in Tasks : WF_vars(Step(t))
    /\ \A h \in Hctxs : /\ WF_vars(RunWork(h) \/ Step(h))
                        /\ WF_vars(StartHwQueue(h)) /\ WF_vars(Quiescing(h))
    /\ WF_vars(\E r \in Requests : Complete(r) \/ End(r))

FairSpec == Spec /\ Fairness

-----------------------------------------------------------------------------
(* Properties. *)

\* Where a request is
Places(r) ==
    [sched |-> {h \in Hctxs : r \in Range(sched[h])},
     dispatch |-> {h \in Hctxs : r \in Range(dispatch[h])},
     lists |-> {t \in Threads : r \in Range(list[t])},
     driver |-> {0} \cap {IF r \in inDriver THEN 0 ELSE 1},
     ending |-> {0} \cap {IF rphase[r] # "none" THEN 0 ELSE 1}]

\* A request that is allocated is in exactly one place (the scheduler,
\* hctx->dispatch, the local list of one thread, the driver, or its own end): the
\* splices between the lists neither lose nor duplicate it, however many threads
\* run the queue at once.
OnePlace ==
    \A r \in Requests :
        LET p == Places(r)
            n == Cardinality(p.sched) + Cardinality(p.dispatch) + Cardinality(p.lists)
                 + Cardinality(p.driver) + Cardinality(p.ending)
        IN  n = IF r \in live THEN 1 ELSE 0

\* The driver never holds a request without a driver tag, and there are no more
\* of those than the tag set has (blk_mq_get_driver_tag before every queue_rq).
DriverHasTag ==
    /\ inDriver \subseteq tagged
    /\ Cardinality(tagged) <= NTags

\* With a scheduler, a request that waits on hctx->dispatch or in the scheduler
\* holds no driver tag: the tag taken ahead for the next request is given back
\* when the driver refuses the one before it (blk_mq_put_driver_tag(nxt)).
WaitingHoldsNoTag ==
    elevator => \A h \in Hctxs : \A r \in Range(sched[h]) \cup Range(dispatch[h]) :
        r \notin tagged

\* shared_hctx_restart counts the hardware queues marked SCHED_RESTART, but for
\* the marks whose atomic_inc() is still to come.
RestartCounted ==
    Shared => \A h \in Hctxs :
        nrestart[h] = (IF restart[h] THEN 1 ELSE 0)
                      - Cardinality({t \in Threads : pc[t] = "count" /\ cur[t] = h})

\* Once blk_mq_quiesce_queue() has returned, and until the queue is unquiesced,
\* queue_rq is not called for the queue, by its worker or by a task that issues
\* directly.
NoDispatchWhenQuiesced ==
    [][\A h \in Hctxs : qpc[h] = "on" =>
            \A r \in Requests : HctxOf[r] = h =>
                /\ r \in inDriver' => r \in inDriver
                /\ rphase[r] = "none" /\ rphase'[r] # "none" => r \in inDriver]_vars

\* Nothing is left behind: when no thread runs a queue, no run is pending, no
\* queue is stopped or quiesced and the driver has nothing to complete, then
\* nothing is waiting on hctx->dispatch or in the scheduler, because nobody
\* would come back for it.
QuietMeansDone ==
    /\ \A t \in Threads : pc[t] = "idle"
    /\ \A h \in Hctxs : ~work[h] /\ ~stopped[h] /\ qpc[h] = "off"
    /\ \A r \in Requests : rphase[r] = "none"
    /\ inDriver = {}
    => live = {}

\* No request is forgotten: whatever is submitted completes, although the threads
\* that met a refusal or ran out of tags left it on hctx->dispatch for somebody
\* else to come back to.  As each request is submitted once, in the end none is left.
NoStall == []<>(live = {})
====
