------------------------------ MODULE QueueUsage ------------------------------
(***************************************************************************)
(* The usage reference of a request queue (q->q_usage_counter): entering   *)
(* and leaving the queue, freezing and unfreezing it, the DYING queue, the *)
(* PREEMPT_ONLY flag and the reference the timeout worker takes.           *)
(*                                                                         *)
(* block/blk-core_957-27.c  blk_queue_enter, blk_queue_exit,               *)
(*                          blk_set_queue_dying, blk_cleanup_queue         *)
(* block/blk-mq.c           blk_freeze_queue_start,                        *)
(*                          blk_mq_freeze_queue_wait,                      *)
(*                          blk_mq_unfreeze_queue, blk_mq_timeout_work     *)
(*                                                                         *)
(* One action is one step another CPU can observe: each atomic operation   *)
(* on mq_freeze_depth or q_usage_counter, each test of a wait condition,   *)
(* each wake_up_all() is a step of its own.                                *)
(***************************************************************************)
EXTENDS Integers, FiniteSets

CONSTANTS
    Submitters,   \* tasks that submit a request through blk_queue_enter()
    Freezers,     \* tasks that freeze and unfreeze the queue
    Locks,        \* the mutexes such callers hold (sysfs_lock, tag_list_lock)
    LockOf,       \* LockOf[f]: the mutex freezer f holds around its freeze
    SysfsLock,    \* the mutex blk_cleanup_queue() holds when it sets DYING
    Preempt,      \* submitters that pass BLK_MQ_REQ_PREEMPT
    Nowait        \* submitters that pass BLK_MQ_REQ_NOWAIT

ASSUME FiniteTasks == IsFiniteSet(Submitters) /\ IsFiniteSet(Freezers)
ASSUME LockTypes == LockOf \in [Freezers -> Locks] /\ SysfsLock \in Locks
ASSUME TaskNames == Freezers \cap {"nobody", "cleaner"} = {}
ASSUME FlagTypes == Preempt \subseteq Submitters /\ Nowait \subseteq Submitters

VARIABLES
    depth,        \* q->mq_freeze_depth
    killed,       \* __PERCPU_REF_DEAD of q->q_usage_counter
    refs,         \* references of q->q_usage_counter, the initial one included
    dying,        \* QUEUE_FLAG_DYING
    gone,         \* QUEUE_FLAG_DEAD
    preemptOnly,  \* QUEUE_FLAG_PREEMPT_ONLY
    holder,       \* holder[l]: the task that holds mutex l
    spc,          \* what each submitter does
    fpc,          \* what each freezer does
    cpc,          \* what the task in blk_cleanup_queue() does
    tpc,          \* what the timeout worker does
    hung          \* submitters whose request the device will not complete

vars == <<depth, killed, refs, dying, gone, preemptOnly, holder,
          spc, fpc, cpc, tpc, hung>>

Nobody == "nobody"
Cleaner == "cleaner"

SubmitterPC == {"idle", "try", "wait", "sleep", "in", "enodev"}
FreezerPC == {"idle", "start", "kill", "wait", "sleep", "frozen",
              "reinit", "wake", "unlock"}
CleanerPC == {"idle", "dying", "start", "kill", "wake", "freeze", "wait",
              "sleep", "drained", "dead"}

TypeOK ==
    /\ depth \in Nat
    /\ killed \in BOOLEAN
    /\ refs \in Nat
    /\ dying \in BOOLEAN
    /\ gone \in BOOLEAN
    /\ preemptOnly \in BOOLEAN
    /\ holder \in [Locks -> Freezers \cup {Nobody, Cleaner}]
    /\ spc \in [Submitters -> SubmitterPC]
    /\ fpc \in [Freezers -> FreezerPC]
    /\ cpc \in CleanerPC
    /\ tpc \in {"idle", "scan"}
    /\ hung \subseteq Submitters

Init ==
    /\ depth = 0
    /\ killed = FALSE
    /\ refs = 1
    /\ dying = FALSE
    /\ gone = FALSE
    /\ preemptOnly = FALSE
    /\ holder = [l \in Locks |-> Nobody]
    /\ spc = [s \in Submitters |-> "idle"]
    /\ fpc = [f \in Freezers |-> "idle"]
    /\ cpc = "idle"
    /\ tpc = "idle"
    /\ hung = {}

-----------------------------------------------------------------------------
(* The percpu reference count and the wait queue.                          *)

\* percpu_ref_is_zero(): FALSE as long as the counter is in percpu mode.
IsZero == killed /\ refs = 0

\* wake_up_all(&q->mq_freeze_wq): every sleeper tests its condition again.
WokenS(pcs) == [s \in Submitters |-> IF pcs[s] = "sleep" THEN "wait" ELSE pcs[s]]
WokenF(pcs) == [f \in Freezers |-> IF pcs[f] = "sleep" THEN "wait" ELSE pcs[f]]
WokenC(pc) == IF pc = "sleep" THEN "wait" ELSE pc

\* Mutant: the release callback does not wake the tasks that freeze.
NoReleaseCallback == FALSE

\* Whether one put brings the killed counter to zero: that put runs
\* blk_queue_usage_counter_release(), which wakes every sleeper.
LastPut == killed /\ refs = 1

-----------------------------------------------------------------------------
(* blk_queue_enter(), the life of the request, blk_queue_exit().           *)

MayPass(s) == s \in Preempt \/ ~preemptOnly

\* A new request: generic_make_request() calls blk_queue_enter().
Submit(s) ==
    /\ spc[s] = "idle"
    /\ spc' = [spc EXCEPT ![s] = "try"]
    /\ UNCHANGED <<depth, killed, refs, dying, gone, preemptOnly, holder,
                   fpc, cpc, tpc, hung>>

\* percpu_ref_tryget_live() and the PREEMPT_ONLY test under RCU.  A reference
\* taken and given back at once leaves the counter as it was.
TryEnter(s) ==
    /\ spc[s] = "try"
    /\ \/ /\ ~killed /\ MayPass(s)
          /\ refs' = refs + 1
          /\ spc' = [spc EXCEPT ![s] = "in"]
       \/ /\ killed \/ ~MayPass(s)
          /\ spc' = [spc EXCEPT ![s] = IF s \in Nowait THEN "idle" ELSE "wait"]
          /\ refs' = refs
    /\ UNCHANGED <<depth, killed, dying, gone, preemptOnly, holder,
                   fpc, cpc, tpc, hung>>

\* Mutant: the wait does not look at the DYING flag.
EnterIgnoringDying(s) == depth = 0 /\ MayPass(s)

\* The condition wait_event() of blk_queue_enter() waits for.
EnterCondition(s) == (depth = 0 /\ MayPass(s)) \/ dying

\* wait_event(): the task is on the wait queue before it tests, so testing and
\* going to sleep are one step.  A woken task looks at DYING once more.
WaitToEnter(s) ==
    /\ spc[s] = "wait"
    /\ spc' = [spc EXCEPT ![s] = IF ~EnterCondition(s) THEN "sleep"
                                 ELSE IF dying THEN "enodev" ELSE "try"]
    /\ UNCHANGED <<depth, killed, refs, dying, gone, preemptOnly, holder,
                   fpc, cpc, tpc, hung>>

\* The device loses the request: only a timeout will end it.
Hang(s) ==
    /\ spc[s] = "in" /\ s \notin hung
    /\ hung' = hung \cup {s}
    /\ UNCHANGED <<depth, killed, refs, dying, gone, preemptOnly, holder,
                   spc, fpc, cpc, tpc>>

\* blk_queue_exit() when the request is freed: percpu_ref_put().
Exit(s) ==
    /\ spc[s] = "in" /\ s \notin hung
    /\ refs' = refs - 1
    /\ LET left == [spc EXCEPT ![s] = "idle"]
       IN  IF LastPut
           THEN spc' = WokenS(left) /\ fpc' = WokenF(fpc) /\ cpc' = WokenC(cpc)
           ELSE spc' = left /\ UNCHANGED <<fpc, cpc>>
    /\ UNCHANGED <<depth, killed, dying, gone, preemptOnly, holder, tpc, hung>>

\* Mutant: the worker uses blk_queue_enter(), which needs a live counter.
TimeoutEnterLive ==
    /\ tpc = "idle"
    /\ ~killed
    /\ refs' = refs + 1
    /\ tpc' = "scan"
    /\ UNCHANGED <<depth, killed, dying, gone, preemptOnly, holder,
                   spc, fpc, cpc, hung>>

\* blk_mq_timeout_work() takes its reference with percpu_ref_tryget(), which
\* fails only at zero, so that it can run while a freeze is waiting.
TimeoutEnter ==
    /\ tpc = "idle"
    /\ ~IsZero
    /\ refs' = refs + 1
    /\ tpc' = "scan"
    /\ UNCHANGED <<depth, killed, dying, gone, preemptOnly, holder,
                   spc, fpc, cpc, hung>>

\* The busy-tag walk ends an expired request, which drops its reference; the
\* reference of the worker keeps the counter above zero.
TimeoutExpire(s) ==
    /\ tpc = "scan" /\ s \in hung
    /\ refs' = refs - 1
    /\ hung' = hung \ {s}
    /\ spc' = [spc EXCEPT ![s] = "idle"]
    /\ UNCHANGED <<depth, killed, dying, gone, preemptOnly, holder,
                   fpc, cpc, tpc>>

\* blk_queue_exit() at the end of the worker.
TimeoutExit ==
    /\ tpc = "scan" /\ hung = {}
    /\ refs' = refs - 1
    /\ tpc' = "idle"
    /\ IF LastPut
       THEN spc' = WokenS(spc) /\ fpc' = WokenF(fpc) /\ cpc' = WokenC(cpc)
       ELSE UNCHANGED <<spc, fpc, cpc>>
    /\ UNCHANGED <<depth, killed, dying, gone, preemptOnly, holder, hung>>

-----------------------------------------------------------------------------
(* blk_mq_freeze_queue() ... blk_mq_unfreeze_queue() under the caller's    *)
(* mutex.                                                                  *)

LockFreezer(f) ==
    /\ fpc[f] = "idle" /\ holder[LockOf[f]] = Nobody
    /\ holder' = [holder EXCEPT ![LockOf[f]] = f]
    /\ fpc' = [fpc EXCEPT ![f] = "start"]
    /\ UNCHANGED <<depth, killed, refs, dying, gone, preemptOnly,
                   spc, cpc, tpc, hung>>

\* blk_freeze_queue_start(): atomic_inc_return().
FreezeInc(f) ==
    /\ fpc[f] = "start"
    /\ depth' = depth + 1
    /\ fpc' = [fpc EXCEPT ![f] = IF depth + 1 = 1 THEN "kill" ELSE "wait"]
    /\ UNCHANGED <<killed, refs, dying, gone, preemptOnly, holder,
                   spc, cpc, tpc, hung>>

\* percpu_ref_kill(): marks the counter dead and puts the initial reference.
FreezeKill(f) ==
    /\ fpc[f] = "kill"
    /\ killed' = TRUE
    /\ refs' = refs - 1
    /\ LET at == [fpc EXCEPT ![f] = "wait"]
       IN  IF refs = 1
           THEN spc' = WokenS(spc) /\ fpc' = WokenF(at) /\ cpc' = WokenC(cpc)
           ELSE fpc' = at /\ UNCHANGED <<spc, cpc>>
    /\ UNCHANGED <<depth, dying, gone, preemptOnly, holder, tpc, hung>>

\* Mutant: blk_freeze_queue_start() alone, without waiting for the users.
FreezeWithoutWait(f) ==
    /\ fpc[f] = "wait"
    /\ fpc' = [fpc EXCEPT ![f] = "frozen"]
    /\ UNCHANGED <<depth, killed, refs, dying, gone, preemptOnly, holder,
                   spc, cpc, tpc, hung>>

\* blk_mq_freeze_queue_wait().
FreezeWait(f) ==
    /\ fpc[f] = "wait"
    /\ fpc' = [fpc EXCEPT ![f] = IF IsZero THEN "frozen" ELSE "sleep"]
    /\ UNCHANGED <<depth, killed, refs, dying, gone, preemptOnly, holder,
                   spc, cpc, tpc, hung>>

\* blk_mq_unfreeze_queue(): atomic_dec_return().
UnfreezeDec(f) ==
    /\ fpc[f] = "frozen"
    /\ depth' = depth - 1
    /\ fpc' = [fpc EXCEPT ![f] = IF depth - 1 = 0 THEN "reinit" ELSE "unlock"]
    /\ UNCHANGED <<killed, refs, dying, gone, preemptOnly, holder,
                   spc, cpc, tpc, hung>>

\* percpu_ref_reinit(): alive again, with its initial reference.
UnfreezeReinit(f) ==
    /\ fpc[f] = "reinit"
    /\ killed' = FALSE
    /\ refs' = refs + 1
    /\ fpc' = [fpc EXCEPT ![f] = "wake"]
    /\ UNCHANGED <<depth, dying, gone, preemptOnly, holder, spc, cpc, tpc, hung>>

\* Mutant: unfreezing does not wake the waiting submitters.
UnfreezeWithoutWake(f) ==
    /\ fpc[f] = "wake"
    /\ fpc' = [fpc EXCEPT ![f] = "unlock"]
    /\ UNCHANGED <<depth, killed, refs, dying, gone, preemptOnly, holder,
                   spc, cpc, tpc, hung>>

UnfreezeWake(f) ==
    /\ fpc[f] = "wake"
    /\ spc' = WokenS(spc)
    /\ fpc' = WokenF([fpc EXCEPT ![f] = "unlock"])
    /\ cpc' = WokenC(cpc)
    /\ UNCHANGED <<depth, killed, refs, dying, gone, preemptOnly, holder, tpc, hung>>

UnlockFreezer(f) ==
    /\ fpc[f] = "unlock"
    /\ holder' = [holder EXCEPT ![LockOf[f]] = Nobody]
    /\ fpc' = [fpc EXCEPT ![f] = "idle"]
    /\ UNCHANGED <<depth, killed, refs, dying, gone, preemptOnly,
                   spc, cpc, tpc, hung>>

-----------------------------------------------------------------------------
(* blk_cleanup_queue(): DYING under sysfs_lock, drain, DEAD.               *)

CleanupLock ==
    /\ cpc = "idle" /\ holder[SysfsLock] = Nobody
    /\ holder' = [holder EXCEPT ![SysfsLock] = Cleaner]
    /\ cpc' = "dying"
    /\ UNCHANGED <<depth, killed, refs, dying, gone, preemptOnly,
                   spc, fpc, tpc, hung>>

\* blk_set_queue_dying(): the flag, then blk_freeze_queue_start().
SetDying ==
    /\ cpc = "dying"
    /\ dying' = TRUE
    /\ cpc' = "start"
    /\ UNCHANGED <<depth, killed, refs, gone, preemptOnly, holder,
                   spc, fpc, tpc, hung>>

\* Mutant: DYING without blk_freeze_queue_start().
DyingWithoutFreeze ==
    /\ cpc = "start"
    /\ cpc' = "wake"
    /\ UNCHANGED <<depth, killed, refs, dying, gone, preemptOnly, holder,
                   spc, fpc, tpc, hung>>

CleanupInc ==
    /\ cpc = "start"
    /\ depth' = depth + 1
    /\ cpc' = IF depth + 1 = 1 THEN "kill" ELSE "wake"
    /\ UNCHANGED <<killed, refs, dying, gone, preemptOnly, holder,
                   spc, fpc, tpc, hung>>

CleanupKill ==
    /\ cpc = "kill"
    /\ killed' = TRUE
    /\ refs' = refs - 1
    /\ cpc' = "wake"
    /\ IF refs = 1
       THEN spc' = WokenS(spc) /\ fpc' = WokenF(fpc)
       ELSE UNCHANGED <<spc, fpc>>
    /\ UNCHANGED <<depth, dying, gone, preemptOnly, holder, tpc, hung>>

\* "Make blk_queue_enter() reexamine the DYING flag", then sysfs_lock is dropped.
CleanupWake ==
    /\ cpc = "wake"
    /\ spc' = WokenS(spc)
    /\ fpc' = WokenF(fpc)
    /\ cpc' = "freeze"
    /\ holder' = [holder EXCEPT ![SysfsLock] = Nobody]
    /\ UNCHANGED <<depth, killed, refs, dying, gone, preemptOnly, tpc, hung>>

\* blk_freeze_queue(): the depth was raised above, so this one is nested.
CleanupFreeze ==
    /\ cpc = "freeze"
    /\ depth' = depth + 1
    /\ cpc' = "wait"
    /\ UNCHANGED <<killed, refs, dying, gone, preemptOnly, holder,
                   spc, fpc, tpc, hung>>

\* Mutant: blk_freeze_queue_start() instead of blk_freeze_queue().
CleanupWithoutWait ==
    /\ cpc = "wait"
    /\ cpc' = "drained"
    /\ UNCHANGED <<depth, killed, refs, dying, gone, preemptOnly, holder,
                   spc, fpc, tpc, hung>>

CleanupWait ==
    /\ cpc = "wait"
    /\ cpc' = IF IsZero THEN "drained" ELSE "sleep"
    /\ UNCHANGED <<depth, killed, refs, dying, gone, preemptOnly, holder,
                   spc, fpc, tpc, hung>>

SetDead ==
    /\ cpc = "drained"
    /\ gone' = TRUE
    /\ cpc' = "dead"
    /\ UNCHANGED <<depth, killed, refs, dying, preemptOnly, holder,
                   spc, fpc, tpc, hung>>

-----------------------------------------------------------------------------
(* blk_set_preempt_only() and blk_clear_preempt_only(), which wakes.       *)

SetPreemptOnly ==
    /\ ~preemptOnly
    /\ preemptOnly' = TRUE
    /\ UNCHANGED <<depth, killed, refs, dying, gone, holder,
                   spc, fpc, cpc, tpc, hung>>

ClearPreemptOnly ==
    /\ preemptOnly
    /\ preemptOnly' = FALSE
    /\ spc' = WokenS(spc) /\ fpc' = WokenF(fpc) /\ cpc' = WokenC(cpc)
    /\ UNCHANGED <<depth, killed, refs, dying, gone, holder, tpc, hung>>

-----------------------------------------------------------------------------

Enter == \E s \in Submitters : Submit(s) \/ TryEnter(s) \/ WaitToEnter(s)
Leave == \E s \in Submitters : Hang(s) \/ Exit(s)
Timeout == TimeoutEnter \/ (\E s \in Submitters : TimeoutExpire(s)) \/ TimeoutExit
Freeze == \E f \in Freezers :
    \/ LockFreezer(f) \/ FreezeInc(f) \/ FreezeKill(f) \/ FreezeWait(f)
    \/ UnfreezeDec(f) \/ UnfreezeReinit(f) \/ UnfreezeWake(f) \/ UnlockFreezer(f)
Cleanup ==
    \/ CleanupLock \/ SetDying \/ CleanupInc \/ CleanupKill \/ CleanupWake
    \/ CleanupFreeze \/ CleanupWait \/ SetDead
PreemptOnly == SetPreemptOnly \/ ClearPreemptOnly

Next == Enter \/ Leave \/ Timeout \/ Freeze \/ Cleanup \/ PreemptOnly

\* A task that is running goes on running, a request the device did not lose
\* completes, an expired request is found by the timeout worker.  Nothing is
\* assumed of new requests, of new freezes, of blk_cleanup_queue() being
\* called, or of the PREEMPT_ONLY flag.
Fairness ==
    /\ \A s \in Submitters : /\ WF_vars(TryEnter(s))
                             /\ WF_vars(WaitToEnter(s))
                             /\ WF_vars(Exit(s))
                             /\ WF_vars(TimeoutExpire(s))
    /\ WF_vars(TimeoutEnter) /\ WF_vars(TimeoutExit)
    /\ \A f \in Freezers : WF_vars(\/ FreezeInc(f) \/ FreezeKill(f) \/ FreezeWait(f)
                                   \/ UnfreezeDec(f) \/ UnfreezeReinit(f)
                                   \/ UnfreezeWake(f) \/ UnlockFreezer(f))
    /\ WF_vars(\/ SetDying \/ CleanupInc \/ CleanupKill \/ CleanupWake
               \/ CleanupFreeze \/ CleanupWait \/ SetDead)

Spec == Init /\ [][Next]_vars
FairSpec == Spec /\ Fairness

-----------------------------------------------------------------------------
(* Properties.                                                             *)

\* While any caller is between the return of blk_mq_freeze_queue() and its
\* blk_mq_unfreeze_queue(), no request is in use and the timeout worker is not
\* walking the tags ("Guarantee no request is in use, so we can change any data
\* structure of the queue afterward", blk-mq.c:157).
FrozenMeansUnused ==
    (\E f \in Freezers : fpc[f] = "frozen") =>
        /\ \A s \in Submitters : spc[s] # "in"
        /\ tpc = "idle"

\* Once blk_set_queue_dying() has done its freeze, no task crosses
\* blk_queue_enter() any more, whatever freezes and unfreezes the queue
\* meanwhile ("prevent I/O from crossing blk_queue_enter()",
\* blk-core_957-27.c:534).
DyingBlocksEntry ==
    [][\A s \in Submitters :
         cpc \in {"wake", "freeze", "wait", "sleep", "drained", "dead"}
         /\ spc'[s] = "in" => spc[s] = "in"]_vars

\* No wake-up is lost: a submitter asleep in blk_queue_enter() although its
\* condition holds is about to be woken by the task that made it hold, and a
\* task asleep in blk_mq_freeze_queue_wait() never sleeps on a drained queue.
NoLostWakeup ==
    /\ \A s \in Submitters : spc[s] = "sleep" /\ EnterCondition(s) =>
           \/ \E f \in Freezers : fpc[f] \in {"reinit", "wake"}
           \/ cpc \in {"start", "kill", "wake"}
    /\ (cpc = "sleep" \/ \E f \in Freezers : fpc[f] = "sleep") => ~IsZero

\* A DEAD queue is drained for good: blk_cleanup_queue() tears the queue down
\* only when nobody holds a reference, and nobody can get one again.
DeadMeansDrained == gone => killed /\ refs = 0 /\ depth >= 2

\* A freeze ends, even when the device lost a request and only the timeout
\* worker can end it while the counter is already killed ("A deadlock might
\* occur if a request is stuck requiring a timeout at the same time a queue
\* freeze is waiting completion", blk-mq.c:875).
FreezeCompletes == \A f \in Freezers : fpc[f] = "start" ~> fpc[f] = "frozen"

\* A submitter that found the queue frozen is let in or refused; it does not
\* stay asleep once the queue is usable again.
EntryResolves ==
    \A s \in Submitters : spc[s] = "sleep" ~> spc[s] # "sleep" \/ preemptOnly

\* blk_cleanup_queue() drains the queue and marks it DEAD, whatever freezes and
\* unfreezes the queue meanwhile ("Mark @q DYING, drain all pending requests,
\* mark @q DEAD", blk-core_957-27.c:560).
CleanupDrains == cpc = "dying" ~> cpc = "dead"

\* Every task asleep in blk_queue_enter() when the queue dies gets -ENODEV
\* ("All future requests will be failed immediately with -ENODEV").
SleepersRefused ==
    \A s \in Submitters : dying /\ spc[s] = "sleep" ~> spc[s] = "enodev"
====
