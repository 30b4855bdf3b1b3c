------------------------------- MODULE BlkFlush -------------------------------
(***************************************************************************)
(* Sequencing of FLUSH and FUA requests: a request is decomposed into the   *)
(* steps PREFLUSH, DATA and POSTFLUSH; those that wait for a flush share one *)
(* flush request, q->flush_rq, through two lists that are swapped when it   *)
(* is issued.  Below is a disk with a volatile cache, above the users who   *)
(* rely on what a completed FLUSH or FUA request promises.                  *)
(*                                                                         *)
(* block/blk-flush.c  blk_insert_flush, blk_flush_complete_seq,             *)
(*                    blk_kick_flush, flush_end_io, flush_data_end_io      *)
(* block/blk.h        __elv_next_request                                   *)
(* block/elevator.c   __elv_add_request                                    *)
(* block/blk-core.c   blk_queue_bio, generic_make_request_checks,           *)
(*                    blk_requeue_request, blk_run_queue_async             *)
(*                                                                         *)
(* Everything here runs under q->queue_lock.  flush_end_io() walks a list    *)
(* while it holds the lock: its walk is several steps, and no other action  *)
(* is enabled between them.                                                *)
(***************************************************************************)
EXTENDS Integers, Sequences, FiniteSets

CONSTANTS
    Requests,     \* the requests submitted, each at most once
    Kinds,        \* what a request may ask for: records of flush, fua, data
    FlushRq,      \* q->flush_rq
    Features      \* the values q->flush_flags may have

ASSUME KindType ==
    /\ Kinds \subseteq [flush : BOOLEAN, fua : BOOLEAN, data : BOOLEAN]
    \* "If a request doesn't have data, only REQ_FLUSH makes sense"
    /\ \A k \in Kinds : k.data \/ (k.flush /\ ~k.fua)
ASSUME FlushRqIsNew == FlushRq \notin Requests
ASSUME FeatureType == Features \subseteq {{}, {"FLUSH"}, {"FLUSH", "FUA"}}

VARIABLES
    flags,        \* q->flush_flags
    queueable,    \* q->flush_not_queueable, negated
    kind,         \* what each submitted request asks for
    before,       \* the writes that had completed when the request was submitted
    seq,          \* rq->flush.seq: the steps completed
    result,       \* how the request ended
    sorted,       \* requests in the I/O scheduler
    queueHead,    \* q->queue_head
    flushQueue,   \* q->flush_queue[2]
    pendingIdx, runningIdx,
    dataInFlight, \* q->flush_data_in_flight
    old,          \* the pending list has waited for FLUSH_PENDING_TIMEOUT
    delayed,      \* q->flush_queue_delayed
    run,          \* request_fn runs, or blk_run_queue_async() was called
    device,       \* what the device works on
    walk,         \* the requests flush_end_io() has still to push on
    walkError,    \* the error of that flush
    walkQueued,   \* queued of flush_end_io()
    locked,       \* flush_end_io() is in its walk
    cache,        \* writes in the volatile cache of the device
    media,        \* writes that survive a loss of power
    covered       \* the writes in the cache when the flush request was sent

submission == <<flags, queueable, kind, before>>
lists == <<queueHead, flushQueue, pendingIdx, dataInFlight, old, seq, result>>
walking == <<walk, walkError, walkQueued, locked>>
storage == <<cache, media, covered>>
vars == <<submission, lists, sorted, runningIdx, delayed, run, device, walking, storage>>

Steps == {"PREFLUSH", "DATA", "POSTFLUSH"}
NoKind == [flush |-> FALSE, fua |-> FALSE, data |-> FALSE]
Submitted(r) == kind[r] # NoKind
Rqs == Requests \cup {FlushRq}

TypeOK ==
    /\ flags \in Features /\ queueable \in BOOLEAN
    /\ kind \in [Requests -> Kinds \cup {NoKind}]
    /\ before \in [Requests -> SUBSET Requests]
    /\ seq \in [Requests -> SUBSET Steps]
    /\ result \in [Requests -> {"none", "ok", "error"}]
    /\ sorted \subseteq Requests /\ dataInFlight \subseteq Requests
    /\ queueHead \in Seq(Rqs) /\ device \subseteq Rqs
    /\ flushQueue \in [{0, 1} -> Seq(Requests)]
    /\ pendingIdx \in {0, 1} /\ runningIdx \in {0, 1}
    /\ {old, delayed, run, walkError, walkQueued, locked} \subseteq BOOLEAN
    /\ walk \in Seq(Requests)
    /\ cache \subseteq Requests /\ media \subseteq Requests /\ covered \subseteq Requests

Init ==
    /\ flags \in Features /\ queueable \in BOOLEAN
    /\ kind = [r \in Requests |-> NoKind]
    /\ before = [r \in Requests |-> {}]
    /\ seq = [r \in Requests |-> {}]
    /\ result = [r \in Requests |-> "none"]
    /\ sorted = {} /\ dataInFlight = {} /\ queueHead = <<>> /\ device = {}
    /\ flushQueue = [i \in {0, 1} |-> <<>>]
    /\ pendingIdx = 0 /\ runningIdx = 0
    /\ old = FALSE /\ delayed = FALSE /\ run = FALSE
    /\ walk = <<>> /\ walkError = FALSE /\ walkQueued = FALSE /\ locked = FALSE
    /\ cache = {} /\ media = {} /\ covered = {}

-----------------------------------------------------------------------------
(* The state machine of one request.                                       *)

\* (fault) REQ_FLUSH is honoured only on a request without data.
PolicyEmptyOnly(k) ==
    {s \in Steps :
        \/ s = "DATA" /\ k.data
        \/ s = "PREFLUSH" /\ "FLUSH" \in flags /\ k.flush /\ ~k.data
        \/ s = "POSTFLUSH" /\ "FLUSH" \in flags /\ "FUA" \notin flags /\ k.fua}

\* blk_flush_policy(): the steps a request of kind k needs.
Policy(k) ==
    {s \in Steps :
        \/ s = "DATA" /\ k.data
        \/ s = "PREFLUSH" /\ "FLUSH" \in flags /\ k.flush
        \/ s = "POSTFLUSH" /\ "FLUSH" \in flags /\ "FUA" \notin flags /\ k.fua}

\* blk_flush_cur_seq(): the first step not completed.
CurSeq(done) ==
    CASE "PREFLUSH" \notin done -> "PREFLUSH"
      [] "PREFLUSH" \in done /\ "DATA" \notin done -> "DATA"
      [] {"PREFLUSH", "DATA"} \subseteq done /\ "POSTFLUSH" \notin done -> "POSTFLUSH"
      [] OTHER -> "DONE"

\* (fault) C1 is not checked, a flush is issued while one is in progress.
KickUnchecked(s, running) ==
    IF s.queue[s.idx] = <<>> \/ (s.data # {} /\ ~s.old)
    THEN s
    ELSE [s EXCEPT !.idx = 1 - @, !.head = Append(@, FlushRq), !.queued = TRUE]

\* blk_kick_flush(): C1, C2 and C3, then the lists are swapped.
KickFlush(s, running) ==
    IF s.idx # running \/ s.queue[s.idx] = <<>> \/ (s.data # {} /\ ~s.old)
    THEN s
    ELSE [s EXCEPT !.idx = 1 - @, !.head = Append(@, FlushRq), !.queued = TRUE]

\* list_move_tail() first takes an entry off the list it is on.
ListDel(s, r) ==
    IF \E i \in DOMAIN s : s[i] = r
    THEN LET i == CHOOSE i \in DOMAIN s : s[i] = r
         IN  SubSeq(s, 1, i - 1) \o SubSeq(s, i + 1, Len(s))
    ELSE s

\* blk_flush_complete_seq(): the steps are done; list_move_tail() takes the
\* request from the list it is on.
CompleteSeq(r, steps, error, running) ==
    LET done == seq[r] \cup steps
        next == IF error THEN "DONE" ELSE CurSeq(done)
        off == [queue |-> [i \in {0, 1} |-> ListDel(flushQueue[i], r)],
                idx |-> pendingIdx, data |-> dataInFlight \ {r}, head |-> queueHead,
                old |-> old, seq |-> [seq EXCEPT ![r] = done], result |-> result,
                queued |-> FALSE]
    IN  KickFlush(
          CASE next \in {"PREFLUSH", "POSTFLUSH"} ->
                 [off EXCEPT !.queue[pendingIdx] = Append(@, r),
                             !.old = IF flushQueue[pendingIdx] = <<>> THEN FALSE ELSE @]
            [] next = "DATA" ->
                 [off EXCEPT !.data = @ \cup {r}, !.head = <<r>> \o @, !.queued = TRUE]
            [] next = "DONE" ->
                 [off EXCEPT !.result[r] = IF error THEN "error" ELSE "ok"],
          running)

\* The lists become those of s.
SetLists(s) ==
    /\ flushQueue' = s.queue /\ pendingIdx' = s.idx /\ dataInFlight' = s.data
    /\ queueHead' = s.head /\ old' = s.old /\ seq' = s.seq /\ result' = s.result

-----------------------------------------------------------------------------
(* Submission.                                                             *)

\* submit_bio(): generic_make_request_checks() strips FLUSH and FUA when the
\* device has no cache, and ends what has no data; blk_queue_bio() adds the
\* request through blk_insert_flush() or the I/O scheduler and runs the queue.
Submit(r, k) ==
    /\ ~locked /\ ~Submitted(r)
    /\ kind' = [kind EXCEPT ![r] = k]
    /\ before' = [before EXCEPT ![r] = {w \in Requests : result[w] = "ok" /\ kind[w].data}]
    /\ LET policy == Policy(k)
           plain == flags = {} \/ (~k.flush /\ ~k.fua)
       IN  \/ /\ policy = {}
              /\ result' = [result EXCEPT ![r] = "ok"]
              /\ UNCHANGED <<queueHead, flushQueue, pendingIdx, dataInFlight, old, seq,
                             sorted, run>>
           \/ /\ policy # {} /\ plain
              /\ sorted' = sorted \cup {r}
              /\ run' = TRUE
              /\ UNCHANGED lists
           \/ /\ policy = {"DATA"} /\ ~plain
              /\ queueHead' = Append(queueHead, r)
              /\ run' = TRUE
              /\ UNCHANGED <<flushQueue, pendingIdx, dataInFlight, old, seq, result, sorted>>
           \/ /\ policy \cap {"PREFLUSH", "POSTFLUSH"} # {} /\ ~plain
              /\ SetLists(CompleteSeq(r, Steps \ policy, FALSE, runningIdx))
              /\ run' = TRUE
              /\ UNCHANGED sorted
    /\ UNCHANGED <<flags, queueable, runningIdx, delayed, device, walking, storage>>

\* Time passes: the pending list has waited for FLUSH_PENDING_TIMEOUT.
Age ==
    /\ ~locked /\ ~old /\ flushQueue[pendingIdx] # <<>>
    /\ old' = TRUE
    /\ UNCHANGED <<submission, queueHead, flushQueue, pendingIdx, dataInFlight, seq, result,
                   sorted, runningIdx, delayed, run, device, walking, storage>>

-----------------------------------------------------------------------------
(* request_fn takes requests with __elv_next_request() until there is none. *)

\* The first request of queue_head goes to the device.
Fetch ==
    /\ ~locked /\ run /\ queueHead # <<>>
    /\ queueHead' = Tail(queueHead)
    /\ device' = device \cup {Head(queueHead)}
    /\ covered' = IF Head(queueHead) = FlushRq THEN cache ELSE covered
    /\ UNCHANGED <<submission, flushQueue, pendingIdx, dataInFlight, old, seq, result, sorted,
                   runningIdx, delayed, run, walking, cache, media>>

\* The device cannot queue anything behind a flush: the queue is held.
Hold ==
    /\ ~locked /\ run /\ queueHead = <<>>
    /\ pendingIdx # runningIdx /\ ~queueable
    /\ delayed' = TRUE /\ run' = FALSE
    /\ UNCHANGED <<submission, lists, sorted, runningIdx, device, walking, storage>>

\* (fault) the request stays in the I/O scheduler.
ElevatorDispatchKeep ==
    /\ ~locked /\ run /\ queueHead = <<>>
    /\ pendingIdx = runningIdx \/ queueable
    /\ \/ \E r \in sorted : queueHead' = <<r>> /\ UNCHANGED <<run, sorted>>
       \/ sorted = {} /\ run' = FALSE /\ UNCHANGED <<queueHead, sorted>>
    /\ UNCHANGED <<submission, flushQueue, pendingIdx, dataInFlight, old, seq, result,
                   runningIdx, delayed, device, walking, storage>>

\* The I/O scheduler dispatches a request, or it has none and request_fn ends.
ElevatorDispatch ==
    /\ ~locked /\ run /\ queueHead = <<>>
    /\ pendingIdx = runningIdx \/ queueable
    /\ \/ \E r \in sorted : queueHead' = <<r>> /\ sorted' = sorted \ {r} /\ UNCHANGED run
       \/ sorted = {} /\ run' = FALSE /\ UNCHANGED <<queueHead, sorted>>
    /\ UNCHANGED <<submission, flushQueue, pendingIdx, dataInFlight, old, seq, result,
                   runningIdx, delayed, device, walking, storage>>

\* The device is busy: blk_requeue_request() puts the request back in front, and
\* the driver runs the queue again.
Requeue(x) ==
    /\ ~locked /\ x \in device
    /\ device' = device \ {x}
    /\ queueHead' = <<x>> \o queueHead
    /\ run' = TRUE
    /\ UNCHANGED <<submission, flushQueue, pendingIdx, dataInFlight, old, seq, result, sorted,
                   runningIdx, delayed, walking, storage>>

-----------------------------------------------------------------------------
(* Completion.                                                             *)

\* A write reaches the media if it was sent with FUA or there is no cache.
Stored(r) ==
    IF flags = {} \/ ("FUA" \in flags /\ kind[r].fua)
    THEN media' = media \cup {r} /\ UNCHANGED <<cache, covered>>
    ELSE cache' = cache \cup {r} /\ UNCHANGED <<media, covered>>

\* A request outside the flush machinery completes.
EndPlain(r, error) ==
    /\ ~locked /\ r \in device /\ r \notin dataInFlight
    /\ device' = device \ {r}
    /\ result' = [result EXCEPT ![r] = IF error THEN "error" ELSE "ok"]
    /\ IF error THEN UNCHANGED storage ELSE Stored(r)
    /\ UNCHANGED <<submission, queueHead, flushQueue, pendingIdx, dataInFlight, old, seq,
                   sorted, runningIdx, delayed, run, walking>>

\* flush_data_end_io(): the data of a sequence completes.
EndData(r, error) ==
    /\ ~locked /\ r \in device /\ r \in dataInFlight
    /\ device' = device \ {r}
    /\ IF error THEN UNCHANGED storage ELSE Stored(r)
    /\ LET s == CompleteSeq(r, {"DATA"}, error, runningIdx)
       IN  SetLists(s) /\ run' = (run \/ s.queued)
    /\ UNCHANGED <<submission, sorted, runningIdx, delayed, walking>>

\* (fault) all waiting requests are pushed on, also those that came too late for
\* this flush.
FlushEndAll(error) ==
    /\ ~locked /\ FlushRq \in device
    /\ device' = device \ {FlushRq}
    /\ media' = IF error THEN media ELSE media \cup covered
    /\ runningIdx' = 1 - runningIdx
    /\ walk' = flushQueue[runningIdx] \o flushQueue[1 - runningIdx]
    /\ walkError' = error /\ walkQueued' = FALSE /\ locked' = TRUE
    /\ UNCHANGED <<submission, lists, sorted, delayed, run, cache, covered>>

\* The device has done the flush: what it had in its cache when it got it is on
\* the media.  flush_end_io() starts.
FlushEnd(error) ==
    /\ ~locked /\ FlushRq \in device
    /\ device' = device \ {FlushRq}
    /\ media' = IF error THEN media ELSE media \cup covered
    /\ runningIdx' = 1 - runningIdx
    /\ walk' = flushQueue[runningIdx]
    /\ walkError' = error /\ walkQueued' = FALSE /\ locked' = TRUE
    /\ UNCHANGED <<submission, lists, sorted, delayed, run, cache, covered>>

\* The loop of flush_end_io(): push the next waiting request to its next step.
FlushEndNext ==
    /\ locked /\ walk # <<>>
    /\ LET r == Head(walk)
           s == CompleteSeq(r, {CurSeq(seq[r])}, walkError, runningIdx)
       IN  SetLists(s) /\ walkQueued' = (walkQueued \/ s.queued)
    /\ walk' = Tail(walk)
    /\ UNCHANGED <<submission, sorted, runningIdx, delayed, run, device, walkError, locked,
                   storage>>

\* (fault) a queue held behind the flush is not restarted.
FlushEndNoRestart ==
    /\ locked /\ walk = <<>>
    /\ run' = (run \/ walkQueued)
    /\ delayed' = FALSE /\ locked' = FALSE /\ walkQueued' = FALSE /\ walkError' = FALSE
    /\ UNCHANGED <<submission, lists, sorted, runningIdx, device, walk, storage>>

\* The end of flush_end_io(): the queue is run if anything was queued or held.
FlushEndDone ==
    /\ locked /\ walk = <<>>
    /\ run' = (run \/ walkQueued \/ delayed)
    /\ delayed' = FALSE /\ locked' = FALSE /\ walkQueued' = FALSE /\ walkError' = FALSE
    /\ UNCHANGED <<submission, lists, sorted, runningIdx, device, walk, storage>>

-----------------------------------------------------------------------------

Complete(r) == \E error \in BOOLEAN : EndPlain(r, error) \/ EndData(r, error)
CompleteFlush == \E error \in BOOLEAN : FlushEnd(error)
RunQueue == Fetch \/ Hold \/ ElevatorDispatch
EndFlush == FlushEndNext \/ FlushEndDone

Next ==
    \/ \E r \in Requests, k \in Kinds : Submit(r, k)
    \/ Age \/ RunQueue \/ (\E x \in Rqs : Requeue(x))
    \/ (\E r \in Requests : Complete(r)) \/ CompleteFlush \/ EndFlush

Spec == Init /\ [][Next]_vars

-----------------------------------------------------------------------------
(* Properties.                                                             *)

\* A completed FUA write is on the media, whether the device knows FUA or the
\* machinery has to flush after the data ("REQ_FUA means that the data must be
\* on non-volatile media on request completion", blk-flush.c:16).
FuaDurable ==
    \A r \in Requests : result[r] = "ok" /\ kind[r].fua => r \in media

\* When a request with FLUSH sends its data or completes, every write that had
\* completed before it was submitted is on the media ("the device cache should
\* be flushed before the data is executed", blk-flush.c:15).
FlushedBefore ==
    \A r \in Requests :
        kind[r].flush /\ (r \in device \/ result[r] = "ok") => before[r] \subseteq media

\* C1: the one flush_rq is on its way exactly while the two list indices differ,
\* and it is in one place ("At any given time, only one flush shall be in
\* progress", blk-flush.c:40; it is not initialised again while the device has it).
OneFlush ==
    LET n == Cardinality({i \in DOMAIN queueHead : queueHead[i] = FlushRq})
             + (IF FlushRq \in device THEN 1 ELSE 0)
    IN  n = (IF pendingIdx # runningIdx THEN 1 ELSE 0)

\* Every request is in one place: in the scheduler, in the dispatch queue, with
\* the device, waiting for a flush, or ended; and those that wait have a flush
\* as their next step (the BUG_ONs of flush_end_io and blk_flush_complete_seq).
OnePlace ==
    \A r \in Requests :
        LET n(i) == Cardinality({j \in DOMAIN flushQueue[i] : flushQueue[i][j] = r})
            places == Cardinality({j \in DOMAIN queueHead : queueHead[j] = r}) + n(0) + n(1)
                      + (IF r \in sorted THEN 1 ELSE 0) + (IF r \in device THEN 1 ELSE 0)
                      + (IF result[r] # "none" THEN 1 ELSE 0)
        IN  /\ places = (IF Submitted(r) THEN 1 ELSE 0)
            /\ n(0) + n(1) = 1 => CurSeq(seq[r]) \in {"PREFLUSH", "POSTFLUSH"}
            /\ r \in dataInFlight =>
                   (r \in device \/ \E j \in DOMAIN queueHead : queueHead[j] = r)
                   /\ CurSeq(seq[r]) = "DATA"

\* Nothing is left behind: when the queue is not run and the device has nothing
\* to complete, every request has ended, although flushes wait for data, data for
\* flushes, and the queue may be held behind a flush ("Kick the queue to avoid
\* stall for two cases", blk-flush.c:216).
QuietMeansEnded ==
    ~run /\ ~locked /\ device = {} => \A r \in Requests : Submitted(r) => result[r] # "none"
====
