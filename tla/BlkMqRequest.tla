----------------------------- MODULE BlkMqRequest -----------------------------
(***************************************************************************)
(* The life of a blk-mq request under a scheduler: it gets a driver tag, is *)
(* started, and then ends exactly once although the completion interrupt,   *)
(* the timeout worker and the driver that refuses or requeues it all race.  *)
(* They settle it with two bits of rq->atomic_flags, STARTED and COMPLETE,   *)
(* and rq->deadline; the request structure is used again afterwards.        *)
(*                                                                         *)
(* block/blk-mq.c      blk_mq_get_driver_tag, blk_mq_start_request,         *)
(*                     blk_mq_complete_request, __blk_mq_finish_request,    *)
(*                     __blk_mq_requeue_request, blk_mq_requeue_work,       *)
(*                     blk_mq_timeout_work, blk_mq_check_expired,           *)
(*                     blk_mq_rq_timed_out                                 *)
(* block/blk-mq-tag.c  bt_iter                                             *)
(*                                                                         *)
(* Every read and write of a bit, of the deadline and of tags->rqs[] that   *)
(* another CPU can see is a step of its own.                               *)
(***************************************************************************)
EXTENDS Integers, FiniteSets

CONSTANTS
    Rqs,          \* the request structures, used again and again
    Tags,         \* driver tags
    None,         \* no tag, no request
    Refusable     \* the requests that queue_rq may refuse after it has started them

ASSUME NoneIsNew == None \notin Rqs \cup Tags \cup {"due"} /\ "due" \notin Rqs
ASSUME SomeRefusable == Refusable \subseteq Rqs

VARIABLES
    rpc,          \* rpc[r]: where request r is
    started,      \* REQ_ATOM_STARTED
    complete,     \* REQ_ATOM_COMPLETE
    late,         \* jiffies have passed rq->deadline
    tagOf,        \* rq->tag
    busy,         \* tags whose bit is set in tags->bitmap_tags
    rqs,          \* tags->rqs[]
    aborted,      \* the driver has asked for more time for this command already
    timer,        \* q->timeout: the request whose deadline it is set to, "due" if
                  \* that request has a later deadline by now, None: not pending
    twork,        \* q->timeout_work is pending
    tpc,          \* what the timeout worker does
    todo,         \* tags it has not looked at yet
    cur,          \* the request it looks at
    next,         \* data->next: the request with the first deadline to come
    requeueWork   \* q->requeue_work is pending

bits == <<started, complete, late>>
tagging == <<tagOf, busy, rqs>>
worker == <<tpc, todo, cur, next>>
vars == <<rpc, bits, tagging, aborted, timer, twork, worker, requeueWork>>

\* free: not allocated.  queued: in the scheduler or in hctx->dispatch.
\* tag: a driver tag was taken.  ready: tags->rqs[] points to it.
\* timer, flag: inside blk_mq_start_request().  issued: queue_rq still runs.
\* device: the device has it.  silent: so, and no interrupt will come.
\* ending: softirq_done_fn will end or requeue it.  cleared: STARTED cleared,
\* tag not yet put.  refused, untagged: tag put, STARTED not yet cleared.
\* requeued: on q->requeue_list.
Places == {"free", "queued", "tag", "ready", "timer", "flag", "issued", "device",
           "silent", "ending", "cleared", "refused", "untagged", "requeued"}

TypeOK ==
    /\ rpc \in [Rqs -> Places]
    /\ started \in [Rqs -> BOOLEAN] /\ complete \in [Rqs -> BOOLEAN]
    /\ late \in [Rqs -> BOOLEAN] /\ aborted \in [Rqs -> BOOLEAN]
    /\ tagOf \in [Rqs -> Tags \cup {None}] /\ busy \subseteq Tags
    /\ rqs \in [Tags -> Rqs \cup {None}]
    /\ timer \in Rqs \cup {None, "due"} /\ next \in Rqs \cup {None}
    /\ twork \in BOOLEAN /\ requeueWork \in BOOLEAN
    /\ tpc \in {"idle", "walk", "deadline", "mark", "test", "call", "reset"}
    /\ todo \subseteq Tags
    /\ cur \in Rqs \cup {None} /\ (cur = None => tpc \in {"idle", "walk"})

Init ==
    /\ rpc = [r \in Rqs |-> "free"]
    /\ started = [r \in Rqs |-> FALSE] /\ complete = [r \in Rqs |-> FALSE]
    /\ late = [r \in Rqs |-> FALSE] /\ aborted = [r \in Rqs |-> FALSE]
    /\ tagOf = [r \in Rqs |-> None] /\ busy = {}
    /\ rqs = [t \in Tags |-> None]
    /\ timer = None /\ next = None /\ twork = FALSE /\ requeueWork = FALSE
    /\ tpc = "idle" /\ todo = {} /\ cur = None

Move(r, from, to) == rpc[r] = from /\ rpc' = [rpc EXCEPT ![r] = to]
\* The tag is put, and with it what the driver kept of the command.
PutTag(r) == /\ busy' = busy \ {tagOf[r]}
             /\ tagOf' = [tagOf EXCEPT ![r] = None]
             /\ rqs' = rqs
             /\ aborted' = [aborted EXCEPT ![r] = FALSE]

-----------------------------------------------------------------------------
(* Issue: allocation, driver tag, blk_mq_start_request(), queue_rq.         *)

\* __blk_mq_alloc_request() with a scheduler: rq->tag = -1, the flags stay.
Alloc(r) ==
    /\ Move(r, "free", "queued")
    /\ UNCHANGED <<bits, tagging, aborted, timer, twork, worker, requeueWork>>

\* blk_mq_get_driver_tag(): the bit of the tag is set ...
GetDriverTag(r) ==
    /\ Move(r, "queued", "tag")
    /\ \E t \in Tags \ busy : busy' = busy \cup {t} /\ tagOf' = [tagOf EXCEPT ![r] = t]
    /\ UNCHANGED <<bits, rqs, aborted, timer, twork, worker, requeueWork>>

\* ... and only then tags->rqs[] points to the request.
SetRqs(r) ==
    /\ Move(r, "tag", "ready")
    /\ rqs' = [rqs EXCEPT ![tagOf[r]] = r]
    /\ UNCHANGED <<bits, tagOf, busy, aborted, timer, twork, worker, requeueWork>>

\* blk_add_timer() (block/blk-timeout.c): a new deadline, later than all others; the
\* timer of the queue is set to it unless it is pending for an earlier one.
AddTimer(r) ==
    /\ late' = [late EXCEPT ![r] = FALSE]
    /\ timer' = CASE timer = None -> r [] timer = r -> "due" [] OTHER -> timer

\* blk_mq_start_request(): the deadline, behind a barrier the STARTED bit ...
StartTimer(r) ==
    /\ Move(r, "ready", "timer")
    /\ AddTimer(r)
    /\ UNCHANGED <<started, complete, tagging, aborted, twork, worker, requeueWork>>

SetStarted(r) ==
    /\ Move(r, "timer", "flag")
    /\ started' = [started EXCEPT ![r] = TRUE]
    /\ UNCHANGED <<complete, late, tagging, aborted, timer, twork, worker, requeueWork>>

\* Mutant: COMPLETE is not cleared, as if it could only be clear here.
KeepComplete(r) ==
    /\ Move(r, "flag", "issued")
    /\ UNCHANGED <<bits, tagging, aborted, timer, twork, worker, requeueWork>>

\* ... and then COMPLETE is cleared, which a completion or a timeout of the
\* previous use left set.
ClearComplete(r) ==
    /\ Move(r, "flag", "issued")
    /\ complete' = [complete EXCEPT ![r] = FALSE]
    /\ UNCHANGED <<started, late, tagging, aborted, timer, twork, worker, requeueWork>>

\* queue_rq gives the request to the device ...
Queued(r) ==
    /\ Move(r, "issued", "device")
    /\ UNCHANGED <<bits, tagging, aborted, timer, twork, worker, requeueWork>>

\* ... or answers BUSY: __blk_mq_requeue_request() puts the driver tag first ...
Busy(r) ==
    /\ r \in Refusable
    /\ Move(r, "issued", "refused")
    /\ PutTag(r)
    /\ UNCHANGED <<bits, timer, twork, worker, requeueWork>>

\* ... or ERROR: blk_mq_end_request(), without COMPLETE; __blk_mq_finish_request()
\* clears STARTED before it puts the tag.
Error(r) ==
    /\ r \in Refusable
    /\ Move(r, "issued", "cleared")
    /\ started' = [started EXCEPT ![r] = FALSE]
    /\ UNCHANGED <<complete, late, tagging, aborted, timer, twork, worker, requeueWork>>

-----------------------------------------------------------------------------
(* Completion and requeue.                                                 *)

\* The device loses the request.
Lose(r) ==
    /\ Move(r, "device", "silent")
    /\ UNCHANGED <<bits, tagging, aborted, timer, twork, worker, requeueWork>>

\* blk_mq_complete_request(): test_and_set of COMPLETE; a request the timeout
\* worker has already is left to it.
CompleteRequest(r) ==
    /\ Move(r, "device", IF complete[r] THEN "silent" ELSE "ending")
    /\ complete' = [complete EXCEPT ![r] = TRUE]
    /\ UNCHANGED <<started, late, tagging, aborted, timer, twork, worker, requeueWork>>

\* softirq_done_fn ends the request: __blk_mq_finish_request() clears STARTED ...
FinishRequest(r) ==
    /\ Move(r, "ending", "cleared")
    /\ started' = [started EXCEPT ![r] = FALSE]
    /\ UNCHANGED <<complete, late, tagging, aborted, timer, twork, worker, requeueWork>>

\* ... puts the tags, and the structure is free.
FreeRequest(r) ==
    /\ Move(r, "cleared", "free")
    /\ PutTag(r)
    /\ UNCHANGED <<bits, timer, twork, worker, requeueWork>>

\* ... or it calls blk_mq_requeue_request(), which puts the driver tag first.
RequeueRequest(r) ==
    /\ Move(r, "ending", "untagged")
    /\ PutTag(r)
    /\ UNCHANGED <<bits, timer, twork, worker, requeueWork>>

\* Mutant: a request that goes back keeps its STARTED bit.
KeepStarted(r) ==
    /\ Move(r, "refused", "queued") \/ Move(r, "untagged", "requeued")
    /\ UNCHANGED <<bits, tagging, aborted, timer, twork, worker, requeueWork>>

\* STARTED is cleared; a refused request goes to hctx->dispatch, one the driver
\* requeues to q->requeue_list.  The driver kicks the list now or later.
ClearStarted(r) ==
    /\ \/ Move(r, "refused", "queued") /\ UNCHANGED requeueWork
       \/ Move(r, "untagged", "requeued") /\ requeueWork' \in {requeueWork, TRUE}
    /\ started' = [started EXCEPT ![r] = FALSE]
    /\ UNCHANGED <<complete, late, tagging, aborted, timer, twork, worker>>

\* blk_mq_kick_requeue_list() by the driver.
KickRequeueList ==
    /\ ~requeueWork /\ \E r \in Rqs : rpc[r] = "requeued"
    /\ requeueWork' = TRUE
    /\ UNCHANGED <<rpc, bits, tagging, aborted, timer, twork, worker>>

\* blk_mq_requeue_work(): the whole list goes back to the scheduler.
RequeueWork ==
    /\ requeueWork
    /\ requeueWork' = FALSE
    /\ rpc' = [r \in Rqs |-> IF rpc[r] = "requeued" THEN "queued" ELSE rpc[r]]
    /\ UNCHANGED <<bits, tagging, aborted, timer, twork, worker>>

-----------------------------------------------------------------------------
(* The timeout worker.                                                     *)

\* Time passes the deadline of a request.  "rq->timeout should be set as big
\* enough to cover the window between blk_mq_start_request() called from
\* .queue_rq() and clearing REQ_ATOM_STARTED" (blk-mq.c:686).
Expire(r) ==
    /\ ~late[r] /\ rpc[r] \notin {"timer", "flag", "issued", "refused"}
    /\ late' = [late EXCEPT ![r] = TRUE]
    /\ UNCHANGED <<rpc, started, complete, tagging, aborted, timer, twork, worker,
                   requeueWork>>

\* The timer of the queue fires, not before the deadline it was set to.
TimerFires ==
    /\ timer = "due" \/ \E r \in Rqs : timer = r /\ late[r]
    /\ timer' = None /\ twork' = TRUE
    /\ UNCHANGED <<rpc, bits, tagging, aborted, worker, requeueWork>>

\* blk_mq_timeout_work() walks the tags in use.
TimeoutWork ==
    /\ twork /\ tpc = "idle"
    /\ twork' = FALSE
    /\ tpc' = "walk" /\ todo' = Tags /\ cur' = None /\ next' = None
    /\ UNCHANGED <<rpc, bits, tagging, aborted, timer, requeueWork>>

\* bt_iter() takes the request tags->rqs[] has for a tag whose bit is set, and
\* blk_mq_check_expired() passes over one that is not STARTED.
BtIter(t) ==
    /\ tpc = "walk" /\ t \in todo
    /\ todo' = todo \ {t}
    /\ IF t \in busy /\ rqs[t] # None /\ started[rqs[t]]
       THEN tpc' = "deadline" /\ cur' = rqs[t]
       ELSE UNCHANGED <<tpc, cur>>
    /\ UNCHANGED <<rpc, bits, tagging, aborted, timer, twork, next, requeueWork>>

\* The worker goes on with the request it looks at, or with the next tag.
Goes(place) == tpc' = place /\ cur' = IF place = "walk" THEN None ELSE cur

\* Mutant: a deadline that has passed counts as one still to come.
AllToCome ==
    /\ tpc = "deadline"
    /\ Goes("walk") /\ next' \in ({cur, next} \ {None})
    /\ UNCHANGED <<rpc, bits, tagging, aborted, timer, twork, todo, requeueWork>>

\* blk_mq_check_expired() reads the deadline.  Which of two deadlines still to
\* come is the first does not matter below, so either may be kept.
CheckDeadline ==
    /\ tpc = "deadline"
    /\ \/ ~late[cur] /\ Goes("walk") /\ next' \in ({cur, next} \ {None})
       \/ late[cur] /\ Goes("mark") /\ UNCHANGED next
    /\ UNCHANGED <<rpc, bits, tagging, aborted, timer, twork, todo, requeueWork>>

\* Mutant: blk_set_rq_complete() without the test.
MarkAnyway ==
    /\ tpc = "mark"
    /\ complete' = [complete EXCEPT ![cur] = TRUE]
    /\ Goes("test")
    /\ UNCHANGED <<rpc, started, late, tagging, aborted, timer, twork, todo, next,
                   requeueWork>>

\* blk_mark_rq_complete(): test_and_set.
MarkComplete ==
    /\ tpc = "mark"
    /\ complete' = [complete EXCEPT ![cur] = TRUE]
    /\ Goes(IF complete[cur] THEN "walk" ELSE "test")
    /\ UNCHANGED <<rpc, started, late, tagging, aborted, timer, twork, todo, next,
                   requeueWork>>

\* blk_mq_rq_timed_out() looks at STARTED again, and calls the driver.
TestStarted ==
    /\ tpc = "test"
    /\ Goes(IF started[cur] THEN "call" ELSE "walk")
    /\ UNCHANGED <<rpc, bits, tagging, aborted, timer, twork, todo, next,
                   requeueWork>>

\* BLK_EH_HANDLED, or BLK_EH_NOT_HANDLED and the driver ends it in its own time.
\* If the driver had refused it meanwhile it is ended off the list it waits on; what
\* the two ends do to that list is not followed.
TimedOut ==
    /\ tpc = "call"
    /\ rpc' = [rpc EXCEPT ![cur] = "ending"]
    /\ Goes("walk")
    /\ UNCHANGED <<bits, tagging, aborted, timer, twork, todo, next, requeueWork>>

\* BLK_EH_RESET_TIMER: a new deadline, and then COMPLETE is cleared.  A driver
\* asks for more time once, and gives up the request at the next timeout.
ResetTimer ==
    /\ tpc = "call" /\ ~aborted[cur]
    /\ AddTimer(cur)
    /\ aborted' = [aborted EXCEPT ![cur] = TRUE]
    /\ Goes("reset")
    /\ UNCHANGED <<rpc, started, complete, tagging, twork, todo, next, requeueWork>>

ResetClear ==
    /\ tpc = "reset"
    /\ complete' = [complete EXCEPT ![cur] = FALSE]
    /\ Goes("walk")
    /\ UNCHANGED <<rpc, started, late, tagging, aborted, timer, twork, todo, next,
                   requeueWork>>

\* The end of the walk: mod_timer() for the first deadline still to come.
TimeoutDone ==
    /\ tpc = "walk" /\ todo = {}
    /\ tpc' = "idle" /\ cur' = None /\ next' = None
    /\ timer' = CASE next = None -> timer [] next # None /\ late[next] -> "due" [] OTHER -> next
    /\ UNCHANGED <<rpc, bits, tagging, aborted, twork, todo, requeueWork>>

-----------------------------------------------------------------------------

Issue(r) == \/ Alloc(r) \/ GetDriverTag(r) \/ SetRqs(r) \/ StartTimer(r) \/ SetStarted(r)
            \/ ClearComplete(r) \/ Queued(r) \/ Busy(r) \/ Error(r)
End(r) == \/ FinishRequest(r) \/ FreeRequest(r) \/ RequeueRequest(r) \/ ClearStarted(r)
Timeout == \/ TimeoutWork \/ (\E t \in Tags : BtIter(t)) \/ CheckDeadline \/ MarkComplete
           \/ TestStarted \/ TimedOut \/ ResetTimer \/ ResetClear \/ TimeoutDone

Next ==
    \/ \E r \in Rqs : Issue(r) \/ Lose(r) \/ CompleteRequest(r) \/ End(r) \/ Expire(r)
    \/ KickRequeueList \/ RequeueWork \/ TimerFires \/ Timeout

\* Running code goes on, time passes, the timer fires, a pending work item runs
\* and a driver that requeues kicks the list.  Nothing is assumed of the device.
Fairness ==
    /\ \A r \in Rqs : WF_vars(Expire(r)) /\ WF_vars(\/ SetRqs(r) \/ StartTimer(r) \/ SetStarted(r)
                                                   \/ ClearComplete(r) \/ Queued(r) \/ End(r))
    /\ WF_vars(TimerFires) /\ WF_vars(Timeout) /\ WF_vars(KickRequeueList \/ RequeueWork)

Spec == Init /\ [][Next]_vars
FairSpec == Spec /\ Fairness

-----------------------------------------------------------------------------
(* Properties.                                                             *)

\* While the driver's timeout handler runs for a request, the request is the
\* device's: nobody else ends it, requeues it, frees it or starts it again.
\* Two ends of one request is what REQ_ATOM_COMPLETE is there to prevent.  It does so
\* for every request that queue_rq keeps once it has started it, also if the
\* structure was used again under the worker's eyes.
TimeoutOwnsRequest ==
    tpc \in {"call", "reset"} /\ cur \notin Refusable =>
        rpc[cur] \in {"issued", "device", "silent"} /\ complete[cur]

\* The driver's timeout handler is called only for a request whose own deadline
\* has passed, also when the structure was freed and used again under the
\* worker's eyes ("this rq won't be timed out too", blk-mq.c:854).
OnlyLateTimeOut == tpc = "call" => late[cur]

\* A request that waits for a tag or on a list is not STARTED, so that a worker
\* that finds it through a stale tags->rqs[] leaves it alone.
WaitingNotStarted ==
    \A r \in Rqs : rpc[r] \in {"free", "queued", "tag", "ready", "requeued"} => ~started[r]

\* The interrupt is heard: while the device has a request, COMPLETE is clear
\* unless the timeout worker holds it.
CompletionHeard ==
    \A r \in Rqs : rpc[r] \in {"issued", "device"} /\ complete[r] =>
        cur = r /\ tpc \in {"test", "call", "reset"}

\* A request the device never answers is ended by a timeout, as long as the one timer
\* of the queue is set, for whichever request: each pass of blk_mq_timeout_work() ends
\* the request or sets the timer again.
LostIsTimedOut ==
    \A r \in Rqs : rpc[r] = "silent" /\ timer # None ~> rpc[r] = "ending"
====
