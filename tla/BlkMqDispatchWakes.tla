------------------------- MODULE BlkMqDispatchWakes -------------------------
(***************************************************************************)
(* Who comes back for what waits on a hardware queue, for any number of    *)
(* hardware queues, tasks, requests and tags: a run that is pending, a     *)
(* thread that will run the queue or look at it once more, or, for what is *)
(* on hctx->dispatch under the mark SCHED_RESTART, the completion of a     *)
(* request.  With tags of its own a queue is never left with something to  *)
(* do and nobody to come.                                                  *)
(***************************************************************************)
EXTENDS BlkMqDispatchInv, TLAPS

-----------------------------------------------------------------------------
(* The inductive invariant.                                                *)

\* A run of h is pending, or starting or unquiescing h will bring one.
Shut(h) == work[h] \/ stopped[h] \/ qpc[h] # "off"

\* Where a thread will look at hctx->dispatch again.
Coming == {"kick", "sync", "start", "check"}

\* Where a thread tries to get requests to the driver.
Flight == {"mark", "count", "tag", "twait", "retry", "next", "queue"}

\* The thread will look at the scheduler, or put what it has on hctx->dispatch.
Brings(t) ==
  \/ pc[t] \in {"kick", "sync", "start", "take", "loop"}
  \/ pc[t] \in Flight \cup {"splice"} /\ more[t]

\* A completion has cleared the mark of h and is about to run it.
Rerunning(h) == \E r \in Requests : rphase[r] = "rerun" /\ Head(todo[r]) = h

\* What waits on hctx->dispatch without a mark is looked at again.
DispatchInv ==
  \A h \in Hctxs : dispatch[h] # <<>> /\ ~restart[h] =>
    Shut(h) \/ Rerunning(h) \/ \E t \in Threads : cur[t] = h /\ pc[t] \in Coming

\* What waits in the scheduler is looked at again, or waits behind hctx->dispatch.
SchedInv ==
  \A h \in Hctxs : sched[h] # <<>> =>
    Shut(h) \/ dispatch[h] # <<>> \/ \E t \in Threads : cur[t] = h /\ Brings(t)

\* The types of all that, and three facts of the control: only between
\* blk_mq_quiesce_queue() and the clearing of the flag is a queue quiesced; a
\* worker runs its own queue; only under a scheduler is a tag looked for in vain.
WakeType ==
  /\ work \in [Hctxs -> BOOLEAN] /\ stopped \in [Hctxs -> BOOLEAN]
  /\ more \in [Threads -> BOOLEAN] /\ ret \in [Threads -> {"OK", "BUSY", "DEV_BUSY"}]
  /\ todo = [r \in Requests |-> todo[r]]
  /\ \A h \in Hctxs : quiesced[h] => qpc[h] \in {"sync", "on"}
  /\ \A h \in Hctxs : cur[h] = h
  /\ \A t \in Threads : pc[t] \in {"twait", "retry"} => elevator

WakeInv == IInv /\ WakeType /\ DispatchInv /\ SchedInv

\* The first request on the list of a thread that carries some.
LEMMA FirstCarried ==
  ASSUME MoveInv, NEW t \in Threads, pc[t] \in Carrying
  PROVE  /\ list[t] \in Seq(Requests) /\ list[t] # <<>> /\ Distinct(list[t])
         /\ Head(list[t]) \in Requests /\ InList(t, Head(list[t]))
<1>1. list[t] \in Seq(Requests) /\ list[t] # <<>> /\ Distinct(list[t])
  BY DEF MoveInv, MoveType, ThreadInv, Carries, ListInv
<1>2. Head(list[t]) = list[t][1] /\ 1 \in DOMAIN list[t] /\ list[t][1] \in Requests BY <1>1
<1> QED BY <1>1, <1>2, Zenon DEF InList, Range

-----------------------------------------------------------------------------
(* Running a queue.                                                        *)

\* blk_mq_run_hw_queue(): what is pending is run, unless somebody else has to
\* start or unquiesce the queue first.
LEMMA RunAsyncShut ==
  ASSUME WakeType, NEW h \in Hctxs, work' = RunAsync(h)
  PROVE  /\ work' \in [Hctxs -> BOOLEAN] /\ \A g \in Hctxs : work[g] => work'[g]
         /\ HasPending(h) => work'[h] \/ stopped[h] \/ qpc[h] # "off"
<1>1. work \in [Hctxs -> BOOLEAN] BY DEF WakeType
<1>2. work' \in [Hctxs -> BOOLEAN] /\ \A g \in Hctxs : work[g] => work'[g] BY <1>1, Zenon DEF RunAsync
<1>3. work'[h] <=> work[h] \/ (NeedRun(h) /\ ~stopped[h]) BY <1>1, Zenon DEF RunAsync
<1>4. quiesced[h] => qpc[h] # "off" BY DEF WakeType
<1> QED BY <1>2, <1>3, <1>4, Zenon DEF NeedRun

\* blk_mq_delay_run_hw_queue()
LEMMA DelayRunShut ==
  ASSUME WakeType, NEW h \in Hctxs, work' = DelayRun(h)
  PROVE  /\ work' \in [Hctxs -> BOOLEAN] /\ \A g \in Hctxs : work[g] => work'[g]
         /\ work'[h] \/ stopped[h]
<1>1. work \in [Hctxs -> BOOLEAN] BY DEF WakeType
<1> QED BY <1>1, Zenon DEF DelayRun

\* sbitmap_queue_clear(): waking runs queues, it takes back no run.
LEMMA WakeRuns ==
  ASSUME NEW W, W.work \in [Hctxs -> BOOLEAN]
  PROVE  Wake(W).work \in [Hctxs -> BOOLEAN] /\ \A h \in Hctxs : W.work[h] => Wake(W).work[h]
<1>1. PICK q, hits : Wake(W) = IF hits = {} THEN W
        ELSE [on |-> [h \in Hctxs |-> IF W.on[h] = q THEN None ELSE W.on[h]],
              index |-> IndexInc(q),
              work |-> [h \in Hctxs |-> W.work[h] \/ (W.on[h] = q /\ RunAsync(h)[h])]]
  BY Zenon DEF Wake
<1>2. CASE hits = {} BY <1>1, <1>2, Zenon
<1>3. CASE hits # {}
  <2>1. Wake(W).work = [h \in Hctxs |-> W.work[h] \/ (W.on[h] = q /\ RunAsync(h)[h])]
    BY <1>1, <1>3
  <2>2. \A h \in Hctxs : (W.work[h] \/ (W.on[h] = q /\ RunAsync(h)[h])) \in BOOLEAN OBVIOUS
  <2> QED BY <2>1, <2>2, Zenon
<1> QED BY <1>2, <1>3, Zenon

LEMMA PutTagsRuns ==
  ASSUME WakeType, NEW R, PutTags(R)
  PROVE  work' \in [Hctxs -> BOOLEAN] /\ \A h \in Hctxs : work[h] => work'[h]
<1> DEFINE W0 == [on |-> waitOn, index |-> wakeIndex, work |-> work]
<1>1. W0.work = work /\ W0.work \in [Hctxs -> BOOLEAN] BY DEF WakeType
<1>2. work' \in {W0.work, Wake(W0).work, Wake(Wake(W0)).work} BY DEF PutTags
<1> HIDE DEF W0
<1>3. Wake(W0).work \in [Hctxs -> BOOLEAN] /\ \A h \in Hctxs : work[h] => Wake(W0).work[h]
  BY <1>1, WakeRuns, Zenon
<1>4. Wake(Wake(W0)).work \in [Hctxs -> BOOLEAN]
      /\ \A h \in Hctxs : Wake(W0).work[h] => Wake(Wake(W0)).work[h]
  BY <1>3, WakeRuns, Zenon
<1> QED BY <1>1, <1>2, <1>3, <1>4, Zenon

-----------------------------------------------------------------------------
(* The steps of a thread.                                                  *)

\* What a step of t that works on queue g leaves alone.
Leaves(t, g) ==
  /\ \A x \in Threads : x # t =>
       pc'[x] = pc[x] /\ cur'[x] = cur[x] /\ more'[x] = more[x] /\ ret'[x] = ret[x]
  /\ pc[t] # "idle" => cur[t] = g
  /\ stopped' = stopped /\ qpc' = qpc /\ todo' = todo
  /\ \A h \in Hctxs : h # g =>
       dispatch'[h] = dispatch[h] /\ sched'[h] = sched[h] /\ (work[h] => work'[h])
  /\ \A h \in Hctxs : restart[h] => restart'[h]
  /\ inDriver \subseteq inDriver'
  /\ \A r \in Requests : rphase'[r] = rphase[r] \/ (rphase[r] = "none" /\ rphase'[r] = "read")

\* What t itself has to see to: requests new on hctx->dispatch or in the
\* scheduler of g, or those it was to come back for itself, have somebody to
\* come back for them.
DispatchStep(t, g) ==
  dispatch'[g] # <<>> /\ (dispatch[g] = <<>> \/ pc[t] \in Coming \/ ~(Shut(g) => Shut(g)')) =>
    restart'[g] \/ Shut(g)' \/ (cur'[t] = g /\ pc'[t] \in Coming)

SchedStep(t, g) ==
  sched'[g] # <<>> /\ (\/ sched[g] = <<>> \/ Brings(t) \/ dispatch[g] # <<>>
                      \/ ~(Shut(g) => Shut(g)')) =>
    Shut(g)' \/ dispatch'[g] # <<>> \/ (cur'[t] = g /\ Brings(t)')

LEMMA ThreadComes ==
  ASSUME DispatchInv, SchedInv, NEW t \in Threads, NEW g \in Hctxs, Leaves(t, g),
         DispatchStep(t, g), SchedStep(t, g)
  PROVE  DispatchInv' /\ SchedInv'
<1>1. \A h \in Hctxs : h # g /\ Shut(h) => Shut(h)' BY Zenon DEF Leaves, Shut
<1>2. \A h \in Hctxs : Rerunning(h) => Rerunning(h)'
  <2>1. \A r \in Requests : rphase[r] = "rerun" => rphase'[r] = "rerun" BY DEF Leaves
  <2> QED BY <2>1, Zenon DEF Leaves, Rerunning
<1>3. \A h \in Hctxs, x \in Threads : x # t /\ cur[x] = h /\ pc[x] \in Coming
         => cur'[x] = h /\ pc'[x] \in Coming
  BY Zenon DEF Leaves
<1>4. \A h \in Hctxs, x \in Threads : x # t /\ cur[x] = h /\ Brings(x)
         => cur'[x] = h /\ Brings(x)'
  BY Zenon DEF Leaves, Brings
<1>5. "idle" \notin Coming /\ "idle" \notin Flight /\ "idle" \notin {"kick", "sync", "start", "take", "loop"}
      /\ "idle" # "splice"
  BY DEF Coming, Flight
<1>6. \A h \in Hctxs : h # g /\ cur[t] = h => ~(pc[t] \in Coming) /\ ~Brings(t)
  BY <1>5, Zenon DEF Leaves, Brings
<1>7. ASSUME NEW h \in Hctxs, dispatch'[h] # <<>>, ~restart'[h]
      PROVE  Shut(h)' \/ Rerunning(h)' \/ \E x \in Threads : cur'[x] = h /\ pc'[x] \in Coming
  <2>1. ~restart[h] BY <1>7, Zenon DEF Leaves
  <2>2. CASE h # g
    <3>1. dispatch[h] # <<>> BY <1>7, <2>2, Zenon DEF Leaves
    <3>2. Shut(h) \/ Rerunning(h) \/ \E x \in Threads : cur[x] = h /\ pc[x] \in Coming
      BY <2>1, <3>1, Zenon DEF DispatchInv
    <3> QED BY <1>1, <1>2, <1>3, <1>6, <2>2, <3>2, Zenon
  <2>3. CASE h = g /\ (dispatch[g] = <<>> \/ pc[t] \in Coming \/ ~(Shut(g) => Shut(g)'))
    BY <1>7, <2>3, Zenon DEF DispatchStep
  <2>4. CASE h = g /\ dispatch[g] # <<>> /\ ~(pc[t] \in Coming) /\ (Shut(g) => Shut(g)')
    <3>1. Shut(h) \/ Rerunning(h) \/ \E x \in Threads : cur[x] = h /\ pc[x] \in Coming
      BY <2>1, <2>4, Zenon DEF DispatchInv
    <3> QED BY <1>2, <1>3, <2>4, <3>1, Zenon
  <2> QED BY <2>2, <2>3, <2>4, Zenon
<1>8. ASSUME NEW h \in Hctxs, sched'[h] # <<>>
      PROVE  Shut(h)' \/ dispatch'[h] # <<>> \/ \E x \in Threads : cur'[x] = h /\ Brings(x)'
  <2>1. CASE h # g
    <3>1. sched[h] # <<>> /\ dispatch'[h] = dispatch[h] BY <1>8, <2>1, Zenon DEF Leaves
    <3>2. Shut(h) \/ dispatch[h] # <<>> \/ \E x \in Threads : cur[x] = h /\ Brings(x)
      BY <3>1, Zenon DEF SchedInv
    <3> QED BY <1>1, <1>4, <1>6, <2>1, <3>1, <3>2, Zenon
  <2>2. CASE h = g /\ (\/ sched[g] = <<>> \/ Brings(t) \/ dispatch[g] # <<>>
                      \/ ~(Shut(g) => Shut(g)'))
    BY <1>8, <2>2, Zenon DEF SchedStep
  <2>3. CASE h = g /\ sched[g] # <<>> /\ ~Brings(t) /\ dispatch[g] = <<>> /\ (Shut(g) => Shut(g)')
    <3>1. Shut(h) \/ \E x \in Threads : cur[x] = h /\ Brings(x) BY <2>3, Zenon DEF SchedInv
    <3> QED BY <1>4, <2>3, <3>1, Zenon
  <2> QED BY <2>1, <2>2, <2>3, Zenon
<1>9. DispatchInv' BY <1>7, Zenon DEF DispatchInv
<1>10. SchedInv' BY <1>8, Zenon DEF SchedInv
<1> QED BY <1>9, <1>10

\* How a step of a thread changes its locals.
Goes(t) ==
  \/ Return(t)
  \/ /\ \E label : Goto(t, label)
     /\ cur' = cur
     /\ more' = more \/ more' = [more EXCEPT ![t] = TRUE]
     /\ ret' = ret \/ \E reply \in {"BUSY", "DEV_BUSY"} : ret' = [ret EXCEPT ![t] = reply]

LEMMA StepGoes ==
  ASSUME NEW t \in Threads, Step(t)
  PROVE  Goes(t)
<1>1. CASE RunHwQueue(t) \/ CheckRestart(t) BY <1>1, Zenon DEF Goes, RunHwQueue, CheckRestart
<1>2. CASE CheckDirect(t) BY <1>2, Zenon DEF Goes, CheckDirect
<1>3. CASE IssueDirectly(t) BY <1>3, Zenon DEF Goes, IssueDirectly
<1>4. CASE RunSync(t) BY <1>4, Zenon DEF Goes, RunSync
<1>5. CASE StartDispatch(t) BY <1>5, Zenon DEF Goes, StartDispatch
<1>6. CASE MarkRestart(t) \/ CountRestart(t) BY <1>6, Zenon DEF Goes, MarkRestart, CountRestart
<1>7. CASE TakeFromSched(t) BY <1>7, Zenon DEF Goes, TakeFromSched
<1>8. CASE GetDriverTag(t) \/ GetNextTag(t) BY <1>8, Zenon DEF Goes, GetDriverTag, GetNextTag
<1>9. CASE MarkTagWait(t) \/ RetryTag(t) BY <1>9, Zenon DEF Goes, MarkTagWait, RetryTag
<1>10. CASE QueueRq(t) BY <1>10, Zenon DEF Goes, QueueRq
<1>11. CASE SpliceBack(t) BY <1>11, Zenon DEF Goes, SpliceBack
<1> QED BY <1>1, <1>2, <1>3, <1>4, <1>5, <1>6, <1>7, <1>8, <1>9, <1>10, <1>11, Zenon DEF Step

LEMMA GoesLocals ==
  ASSUME MoveType, WakeType, NEW t \in Threads, Goes(t)
  PROVE  /\ \A x \in Threads : x # t =>
              pc'[x] = pc[x] /\ cur'[x] = cur[x] /\ more'[x] = more[x] /\ ret'[x] = ret[x]
         /\ more' \in [Threads -> BOOLEAN] /\ ret' \in [Threads -> {"OK", "BUSY", "DEV_BUSY"}]
         /\ \A h \in Hctxs : cur'[h] = h
<1>1. /\ pc \in [Threads -> Reading \cup {"idle", "kick"}] /\ cur \in [Threads -> Hctxs]
      /\ more \in [Threads -> BOOLEAN] /\ ret \in [Threads -> {"OK", "BUSY", "DEV_BUSY"}]
      /\ \A h \in Hctxs : cur[h] = h /\ h \in Threads
  BY DEF MoveType, WakeType, Threads
<1>2. \A x \in Threads : x # t => pc'[x] = pc[x] BY <1>1, Zenon DEF Goes, Return, Goto
<1>3. \A x \in Threads : x # t => cur'[x] = cur[x] BY <1>1, ZenonT(30) DEF Goes, Return
<1>4. /\ \A x \in Threads : x # t => more'[x] = more[x]
      /\ more' \in [Threads -> BOOLEAN]
  <2>1. PICK b \in BOOLEAN : more' = more \/ more' = [more EXCEPT ![t] = b] BY Zenon DEF Goes, Return
  <2> QED BY <1>1, <2>1, Zenon
<1>5. /\ \A x \in Threads : x # t => ret'[x] = ret[x]
      /\ ret' \in [Threads -> {"OK", "BUSY", "DEV_BUSY"}]
  <2>1. PICK reply \in {"OK", "BUSY", "DEV_BUSY"} : ret' = ret \/ ret' = [ret EXCEPT ![t] = reply]
    BY Zenon DEF Goes, Return
  <2> QED BY <1>1, <2>1, ZenonT(30)
<1>6. \A h \in Hctxs : cur'[h] = h
  <2> TAKE h \in Hctxs
  <2>1. CASE h # t BY <1>1, <1>3, <2>1, Zenon
  <2>2. CASE h = t
    <3>1. cur' = cur \/ cur' = [cur EXCEPT ![t] = t] BY <2>2, Zenon DEF Goes, Return
    <3> QED BY <1>1, <2>2, <3>1, Zenon
  <2> QED BY <2>1, <2>2, Zenon
<1> QED BY <1>2, <1>3, <1>4, <1>5, <1>6, Zenon

LEMMA StepLeaves ==
  ASSUME IInv, WakeType, NEW t \in Threads, Step(t)
  PROVE  /\ Leaves(t, cur[t]) /\ WakeType'
         /\ \A h \in Hctxs : work[h] => work'[h]
<1>1. MoveInv /\ MoveType /\ RestartInv /\ cur[t] \in Hctxs BY DEF IInv, MoveInv, MoveType
<1>2. /\ \A x \in Threads : x # t =>
           pc'[x] = pc[x] /\ cur'[x] = cur[x] /\ more'[x] = more[x] /\ ret'[x] = ret[x]
      /\ more' \in [Threads -> BOOLEAN] /\ ret' \in [Threads -> {"OK", "BUSY", "DEV_BUSY"}]
      /\ \A h \in Hctxs : cur'[h] = h
  BY <1>1, StepGoes, GoesLocals, Zenon
<1>3. UNCHANGED <<stopped, quiesced, qpc, todo, elevator>>
  BY Zenon DEF Step, RunHwQueue, CheckDirect, IssueDirectly, RunSync, StartDispatch, TakeFromSched,
               MarkRestart, CountRestart, GetDriverTag, MarkTagWait, RetryTag, GetNextTag, QueueRq,
               SpliceBack, CheckRestart, ending
<1>4. \A h \in Hctxs : h # cur[t] => dispatch'[h] = dispatch[h] /\ sched'[h] = sched[h]
  <2>1. dispatch' = dispatch \/ \E s : dispatch' = [dispatch EXCEPT ![cur[t]] = s]
    BY Zenon DEF Step, RunHwQueue, CheckDirect, BypassInsert, IssueDirectly, RunSync, StartDispatch,
                 TakeFromSched, MarkRestart, CountRestart, GetDriverTag, MarkTagWait, RetryTag, GetNextTag,
                 QueueRq, SpliceBack, CheckRestart
  <2>2. sched' = sched \/ \E s : sched' = [sched EXCEPT ![cur[t]] = s]
    BY Zenon DEF Step, RunHwQueue, CheckDirect, IssueDirectly, RunSync, StartDispatch,
                 TakeFromSched, MarkRestart, CountRestart, GetDriverTag, MarkTagWait, RetryTag, GetNextTag,
                 QueueRq, SpliceBack, CheckRestart
  <2> QED BY <1>1, <2>1, <2>2, Zenon DEF MoveType
<1>5. \A h \in Hctxs : restart[h] => restart'[h]
  <2>1. restart' = restart \/ restart' = [restart EXCEPT ![cur[t]] = TRUE]
    BY Zenon DEF Step, RunHwQueue, CheckDirect, IssueDirectly, RunSync, StartDispatch,
                 TakeFromSched, MarkRestart, CountRestart, GetDriverTag, MarkTagWait, RetryTag, GetNextTag,
                 QueueRq, SpliceBack, CheckRestart
  <2> QED BY <1>1, <2>1, Zenon DEF RestartInv
<1>6. /\ inDriver \subseteq inDriver'
      /\ \/ rphase' = rphase
         \/ pc[t] \in {"queue", "directq"} /\ rphase' = [rphase EXCEPT ![Head(list[t])] = "read"]
  <2>1. CASE IssueDirectly(t) \/ QueueRq(t)
    <3>1. pc[t] \in {"queue", "directq"} BY <2>1, Zenon DEF IssueDirectly, QueueRq
    <3>2. inDriver' = inDriver \/ inDriver' = inDriver \cup {Head(list[t])}
      BY <2>1, Zenon DEF IssueDirectly, QueueRq
    <3>3. rphase' = rphase \/ rphase' = [rphase EXCEPT ![Head(list[t])] = "read"]
      BY <2>1, Zenon DEF IssueDirectly, QueueRq, EndRequest
    <3>4. inDriver \subseteq inDriver' BY <3>2, Zenon
    <3> QED BY <3>1, <3>3, <3>4, Zenon
  <2>2. CASE ~(IssueDirectly(t) \/ QueueRq(t))
    <3>1. UNCHANGED <<inDriver, rphase>>
      BY <2>2, Zenon DEF Step, RunHwQueue, CheckDirect, RunSync, StartDispatch, TakeFromSched, MarkRestart,
                   CountRestart, GetDriverTag, MarkTagWait, RetryTag, GetNextTag, SpliceBack, CheckRestart,
                   ending
    <3>2. inDriver \subseteq inDriver' BY <3>1
    <3> QED BY <3>1, <3>2, Zenon
  <2> QED BY <2>1, <2>2, Zenon
<1>7. \A r \in Requests : rphase'[r] = rphase[r] \/ (rphase[r] = "none" /\ rphase'[r] = "read")
  <2>1. CASE rphase' = rphase BY <2>1, Zenon
  <2>2. CASE pc[t] \in {"queue", "directq"} /\ rphase' = [rphase EXCEPT ![Head(list[t])] = "read"]
    <3>1. PICK x \in Requests : x = Head(list[t]) /\ InList(t, x)
      BY <1>1, <2>2, FirstCarried, Zenon DEF Carrying
    <3>2. rphase[x] = "none" BY <1>1, <3>1, Zenon DEF MoveInv, PlaceInv, Place, Ending
    <3> QED BY <1>1, <2>2, <3>1, <3>2, Zenon DEF MoveType
  <2> QED BY <1>6, <2>1, <2>2, Zenon
<1>8. work' \in [Hctxs -> BOOLEAN] /\ \A h \in Hctxs : work[h] => work'[h]
  <2>1. \/ work' = work \/ work' = RunAsync(cur[t]) \/ work' = DelayRun(cur[t])
        \/ \E R : PutTags(R)
    <3>1. CASE IssueDirectly(t) BY <3>1, Zenon DEF IssueDirectly, EndRequest
    <3>2. CASE QueueRq(t) BY <3>2, Zenon DEF QueueRq, EndRequest
    <3>3. CASE CheckRestart(t) BY <3>3, Zenon DEF CheckRestart
    <3>4. CASE ~(IssueDirectly(t) \/ QueueRq(t) \/ CheckRestart(t))
      BY <3>4, Zenon DEF Step, RunHwQueue, CheckDirect, RunSync, StartDispatch, TakeFromSched, MarkRestart,
                   CountRestart, GetDriverTag, MarkTagWait, RetryTag, GetNextTag, SpliceBack
    <3> QED BY <3>1, <3>2, <3>3, <3>4, Zenon
  <2>2. CASE work' = work BY <2>2, Zenon DEF WakeType
  <2> QED BY <1>1, <2>1, <2>2, RunAsyncShut, DelayRunShut, PutTagsRuns, Zenon
<1>9. \A x \in Threads : pc'[x] \in {"twait", "retry"} => elevator'
  <2>1. CASE pc'[t] \in {"twait", "retry"}
    <3>1. CASE pc[t] = "tag"
      <4>1. GetDriverTag(t)
        BY <3>1, Zenon DEF Step, RunHwQueue, CheckDirect, IssueDirectly, RunSync, StartDispatch,
                     TakeFromSched, MarkRestart, CountRestart, MarkTagWait, RetryTag, GetNextTag, QueueRq,
                     SpliceBack, CheckRestart
      <4>2. PICK x \in Requests : x = Head(list[t]) /\ InList(t, x)
        BY <1>1, <3>1, FirstCarried, Zenon DEF Carrying
      <4>3. x \notin tagged BY <1>1, <2>1, <4>1, <4>2 DEF GetDriverTag, Goto, AfterTag, MoveType
      <4>4. Place(x) /\ Tag(x) BY <1>1, Zenon DEF MoveInv, PlaceInv, TagInv
      <4>5. x \in live /\ ~Ending(x) BY <4>2, <4>4, Zenon DEF Place
      <4> QED BY <1>3, <4>3, <4>4, <4>5, Zenon DEF Tag
    <3>2. CASE pc[t] = "twait" BY <1>3, <3>2, Zenon DEF WakeType
    <3>3. CASE pc[t] \notin {"tag", "twait"}
      <4>1. pc'[t] \in {pc[t], "idle", "sync", "directq", "start", "mark", "take", "count", "tag", "next",
                        "queue", "splice", "loop", "check"}
        BY <1>1, <3>3, Zenon DEF Step, RunHwQueue, CheckDirect, IssueDirectly, RunSync, StartDispatch,
                     TakeFromSched, MarkRestart, CountRestart, GetDriverTag, MarkTagWait, RetryTag,
                     GetNextTag, QueueRq, SpliceBack, CheckRestart, Goto, Return, AfterTag, MoveType
      <4>2. pc[t] \in {"twait", "retry"} BY <2>1, <4>1
      <4> QED BY <1>3, <4>2, Zenon DEF WakeType
    <3> QED BY <3>1, <3>2, <3>3, Zenon
  <2>2. \A x \in Threads : x # t /\ pc'[x] \in {"twait", "retry"} => elevator'
    BY <1>2, <1>3, Zenon DEF WakeType
  <2> QED BY <2>1, <2>2, Zenon
<1>10. WakeType' BY <1>2, <1>3, <1>8, <1>9, Zenon DEF WakeType
<1>11. Leaves(t, cur[t]) BY <1>2, <1>3, <1>4, <1>5, <1>6, <1>7, <1>8, Zenon DEF Leaves
<1> QED BY <1>8, <1>10, <1>11, Zenon

\* A list that something is spliced to is not empty.
LEMMA SpliceNotEmpty ==
  ASSUME NEW a \in Seq(Requests), NEW b \in Seq(Requests), a # <<>> \/ b # <<>>
  PROVE  a \o b # <<>> /\ b \o a # <<>>
OBVIOUS

\* No step of a thread leaves behind what it was to come back for.
LEMMA StepComes ==
  ASSUME IInv, WakeType, NEW t \in Threads, Step(t), NEW g \in Hctxs, g = cur[t]
  PROVE  DispatchStep(t, g) /\ SchedStep(t, g)
<1>1. MoveInv /\ MoveType BY DEF IInv, MoveInv
<1>2. Leaves(t, g) /\ \A h \in Hctxs : work[h] => work'[h] BY StepLeaves, Zenon
<1>3. Shut(g) => Shut(g)' BY <1>2, Zenon DEF Shut, Leaves
<1>4. stopped[g] \/ quiesced[g] => Shut(g)' BY <1>2, Zenon DEF Shut, Leaves, WakeType
<1>5. /\ \A label : Goto(t, label) => pc'[t] = label
      /\ Return(t) => pc'[t] = "idle"
  BY <1>1, Zenon DEF Goto, Return, MoveType
<1>6. SUFFICES /\ dispatch'[g] # <<>> /\ (dispatch[g] = <<>> \/ pc[t] \in Coming) =>
                    restart'[g] \/ Shut(g)' \/ (cur'[t] = g /\ pc'[t] \in Coming)
               /\ sched'[g] # <<>> /\ (sched[g] = <<>> \/ Brings(t) \/ dispatch[g] # <<>>) =>
                    Shut(g)' \/ dispatch'[g] # <<>> \/ (cur'[t] = g /\ Brings(t)')
  BY <1>3, Zenon DEF DispatchStep, SchedStep
<1>7. ASSUME UNCHANGED <<dispatch, sched>>, pc[t] \notin Coming,
             Brings(t) => cur'[t] = g /\ Brings(t)'
      PROVE  <1>6!1
  BY <1>7, Zenon
<1>8. ASSUME UNCHANGED <<dispatch, sched>>, HasPending(g) => Shut(g)' \/ (Goto(t, "start") /\ cur' = cur)
      PROVE  <1>6!1
  BY <1>5, <1>8, Zenon DEF HasPending, Coming, Brings
<1>9. CASE MarkRestart(t) \/ CountRestart(t) \/ GetDriverTag(t) \/ MarkTagWait(t) \/ RetryTag(t) \/ GetNextTag(t)
  <2>1. UNCHANGED <<dispatch, sched, cur, more>> /\ pc[t] \in Flight
    BY <1>9, Zenon DEF MarkRestart, CountRestart, GetDriverTag, MarkTagWait, RetryTag, GetNextTag, Flight
  <2>2. PICK label \in {"count", "tag", "next", "queue", "twait", "retry", "splice"} : Goto(t, label)
    BY <1>9, Zenon DEF MarkRestart, CountRestart, GetDriverTag, MarkTagWait, RetryTag, GetNextTag, AfterTag
  <2>3. pc'[t] \in Flight \cup {"splice"} BY <1>5, <2>2, Zenon DEF Flight
  <2>4. pc[t] \notin Coming /\ pc[t] \notin {"kick", "sync", "start", "take", "loop"}
    BY <2>1 DEF Flight, Coming
  <2>5. Brings(t) => cur'[t] = g /\ Brings(t)' BY <2>1, <2>3, <2>4, Zenon DEF Brings
  <2> QED BY <1>7, <2>1, <2>4, <2>5, Zenon
<1>10. CASE QueueRq(t)
  <2>1. UNCHANGED <<dispatch, sched>> /\ pc[t] = "queue" BY <1>10, Zenon DEF QueueRq
  <2>2. \/ ~more[t]
        \/ cur' = cur /\ more' = more /\ \E label \in {"tag", "loop", "splice"} : Goto(t, label)
    BY <1>10, Zenon DEF QueueRq
  <2>3. pc[t] \notin Coming /\ pc[t] \notin {"kick", "sync", "start", "take", "loop"}
    BY <2>1 DEF Coming
  <2>4. Brings(t) => cur'[t] = g /\ Brings(t)'
    BY <1>5, <2>2, <2>3, Zenon DEF Brings, Flight
  <2> QED BY <1>7, <2>1, <2>3, <2>4, Zenon
<1>11. CASE RunHwQueue(t)
  <2>1. UNCHANGED <<dispatch, sched>> /\ work' = RunAsync(g) BY <1>11, Zenon DEF RunHwQueue
  <2>2. HasPending(g) => Shut(g)' BY <1>2, <2>1, RunAsyncShut, Zenon DEF Shut, Leaves
  <2> QED BY <1>8, <2>1, <2>2, Zenon
<1>12. CASE RunSync(t)
  <2>1. UNCHANGED <<dispatch, sched>>
        /\ (~NeedRun(g) \/ stopped[g] \/ (Goto(t, "start") /\ cur' = cur))
    BY <1>12, Zenon DEF RunSync
  <2>2. HasPending(g) => Shut(g)' \/ (Goto(t, "start") /\ cur' = cur) BY <1>4, <2>1, Zenon DEF NeedRun
  <2> QED BY <1>8, <2>1, <2>2, Zenon
<1>13. CASE CheckRestart(t)
  <2>1. UNCHANGED <<dispatch, sched, restart>> /\ pc[t] = "check"
        /\ (work' = RunAsync(g) \/ restart[g])
    BY <1>13, Zenon DEF CheckRestart
  <2>2. dispatch[g] # <<>> => restart'[g] \/ Shut(g)'
    BY <1>2, <2>1, RunAsyncShut, Zenon DEF Shut, Leaves, HasPending
  <2>3. ~Brings(t) BY <2>1 DEF Brings, Flight
  <2> QED BY <2>1, <2>2, <2>3, Zenon
<1>14. CASE StartDispatch(t)
  <2>1. CASE stopped[g] \/ quiesced[g] BY <1>4, <2>1, Zenon
  <2>2. CASE ~(stopped[g] \/ quiesced[g]) /\ dispatch[g] # <<>>
    <3>1. /\ dispatch' = [dispatch EXCEPT ![g] = <<>>] /\ more' = [more EXCEPT ![t] = TRUE]
          /\ Goto(t, "mark") /\ cur' = cur
      BY <1>14, <2>2, Zenon DEF StartDispatch
    <3>2. dispatch'[g] = <<>> /\ more'[t] = TRUE BY <1>1, <3>1, Zenon DEF MoveType, WakeType
    <3>3. Brings(t)' BY <1>5, <3>1, <3>2, Zenon DEF Brings, Flight
    <3> QED BY <3>1, <3>2, <3>3, Zenon
  <2>3. CASE ~(stopped[g] \/ quiesced[g]) /\ dispatch[g] = <<>>
    <3>1. dispatch' = dispatch /\ Goto(t, "take") /\ cur' = cur
      BY <1>14, <2>3, Zenon DEF StartDispatch
    <3>2. Brings(t)' BY <1>5, <3>1, Zenon DEF Brings
    <3> QED BY <2>3, <3>1, <3>2, Zenon
  <2> QED BY <2>1, <2>2, <2>3, Zenon
<1>15. CASE TakeFromSched(t)
  <2>1. dispatch' = dispatch /\ pc[t] \in {"take", "loop"} BY <1>15, Zenon DEF TakeFromSched
  <2>2. pc[t] \notin Coming BY <2>1 DEF Coming
  <2>3. \/ sched' = sched /\ sched[g] = <<>>
        \/ sched' = [sched EXCEPT ![g] = <<>>]
        \/ more' = [more EXCEPT ![t] = TRUE] /\ Goto(t, "tag") /\ cur' = cur
    BY <1>15, Zenon DEF TakeFromSched
  <2>4. sched'[g] = <<>> \/ (cur'[t] = g /\ Brings(t)')
    <3>1. CASE sched' = [sched EXCEPT ![g] = <<>>] BY <1>1, <3>1, Zenon DEF MoveType
    <3>2. CASE more' = [more EXCEPT ![t] = TRUE] /\ Goto(t, "tag") /\ cur' = cur
      <4>1. more'[t] = TRUE /\ pc'[t] = "tag" BY <1>5, <3>2, Zenon DEF WakeType
      <4> QED BY <3>2, <4>1, Zenon DEF Brings, Flight
    <3> QED BY <2>3, <3>1, <3>2, Zenon
  <2> QED BY <2>1, <2>2, <2>4, Zenon
<1>16. ASSUME sched' = sched, pc[t] \notin Coming, ~Brings(t), dispatch[g] # <<>> => dispatch'[g] # <<>>,
              \/ dispatch' = dispatch
              \/ Shut(g)' \/ (cur' = cur /\ \E label \in {"sync", "check"} : Goto(t, label))
       PROVE  <1>6!1
  BY <1>5, <1>16, Zenon DEF Coming
<1>17. dispatch[g] \in Seq(Requests) /\ list[t] \in Seq(Requests) /\ dispatch \in [Hctxs -> Seq(Requests)]
  BY <1>1, Zenon DEF MoveType
<1>18. CASE CheckDirect(t)
  <2>1. sched' = sched /\ pc[t] = "direct" BY <1>18, Zenon DEF CheckDirect
  <2>2. pc[t] \notin Coming /\ ~Brings(t) BY <2>1 DEF Coming, Brings, Flight
  <2>3. dispatch' = dispatch \/ dispatch' = [dispatch EXCEPT ![g] = dispatch[g] \o list[t]]
    BY <1>18, Zenon DEF CheckDirect, BypassInsert
  <2>4. dispatch[g] # <<>> => dispatch'[g] # <<>> BY <1>17, <2>3, SpliceNotEmpty, Zenon
  <2>5. dispatch' = dispatch \/ Shut(g)' \/ (cur' = cur /\ Goto(t, "sync"))
    BY <1>4, <1>18, Zenon DEF CheckDirect
  <2> QED BY <1>16, <2>1, <2>2, <2>4, <2>5, Zenon
<1>19. CASE IssueDirectly(t)
  <2>1. sched' = sched /\ pc[t] = "directq" BY <1>19, Zenon DEF IssueDirectly
  <2>2. pc[t] \notin Coming /\ ~Brings(t) BY <2>1 DEF Coming, Brings, Flight
  <2>3. dispatch' = dispatch \/ dispatch' = [dispatch EXCEPT ![g] = dispatch[g] \o list[t]]
    BY <1>19, Zenon DEF IssueDirectly, BypassInsert
  <2>4. dispatch[g] # <<>> => dispatch'[g] # <<>> BY <1>17, <2>3, SpliceNotEmpty, Zenon
  <2>5. dispatch' = dispatch \/ (cur' = cur /\ Goto(t, "sync")) BY <1>19, Zenon DEF IssueDirectly
  <2> QED BY <1>16, <2>1, <2>2, <2>4, <2>5, Zenon
<1>20. CASE SpliceBack(t)
  <2>1. sched' = sched /\ pc[t] = "splice" /\ Goto(t, "check") /\ cur' = cur
        /\ dispatch' = [dispatch EXCEPT ![g] = list[t] \o dispatch[g]]
    BY <1>20, Zenon DEF SpliceBack
  <2>2. list[t] # <<>> BY <1>1, <2>1, FirstCarried, Zenon DEF Carrying
  <2>3. dispatch'[g] # <<>> BY <1>17, <2>1, <2>2, SpliceNotEmpty, Zenon
  <2>4. pc'[t] \in Coming /\ cur'[t] = g BY <1>5, <2>1, Zenon DEF Coming
  <2> QED BY <2>3, <2>4, Zenon
<1> QED BY <1>9, <1>10, <1>11, <1>12, <1>13, <1>14, <1>15, <1>18, <1>19, <1>20, Zenon DEF Step

LEMMA SubmitComes ==
  ASSUME WakeInv, NEW t \in Tasks, Submit(t)
  PROVE  WakeType' /\ DispatchInv' /\ SchedInv'
<1>1. MoveInv /\ MoveType /\ WakeType /\ DispatchInv /\ SchedInv BY DEF WakeInv, IInv, MoveInv
<1>2. t \in Threads /\ t \notin Hctxs BY NamesDistinct DEF Threads
<1>3. PICK r \in Requests : InsertRequest(t, r) \/ TryIssueDirectly(t, r) BY Zenon DEF Submit
<1>4. PICK g \in Hctxs : g = HctxOf[r] BY MapType, Zenon
<1>5. /\ UNCHANGED <<work, stopped, quiesced, qpc, todo, rphase, restart, inDriver, dispatch,
                     more, ret, elevator>>
      /\ pc[t] = "idle" /\ cur' = [cur EXCEPT ![t] = g]
      /\ \/ Goto(t, "kick") /\ sched' = [sched EXCEPT ![g] = Append(@, r)]
         \/ Goto(t, "direct") /\ sched' = sched
  BY <1>3, <1>4, Zenon DEF Submit, InsertRequest, TryIssueDirectly, quiesce, ending
<1>6. /\ cur'[t] = g /\ \A x \in Threads : x # t => cur'[x] = cur[x] /\ pc'[x] = pc[x]
      /\ \/ pc'[t] = "kick"
         \/ pc'[t] = "direct" /\ sched' = sched
      /\ \A h \in Hctxs : h # g => sched'[h] = sched[h]
  BY <1>1, <1>2, <1>5, Zenon DEF MoveType, Goto
<1>7. WakeType'
  <2>1. \A h \in Hctxs : h \in Threads /\ h # t BY <1>2 DEF Threads
  <2>2. \A h \in Hctxs : cur'[h] = h BY <1>1, <1>6, <2>1, Zenon DEF WakeType
  <2>3. \A x \in Threads : pc'[x] \in {"twait", "retry"} => elevator
    <3>1. pc'[t] \notin {"twait", "retry"} BY <1>6
    <3> QED BY <1>1, <1>6, <3>1, Zenon DEF WakeType
  <2> QED BY <1>1, <1>5, <2>2, <2>3, Zenon DEF WakeType
<1>8. Leaves(t, g) BY <1>5, <1>6, Zenon DEF Leaves
<1>9. Shut(g) => Shut(g)' BY <1>5, Zenon DEF Shut
<1>10. pc[t] \notin Coming /\ ~Brings(t) BY <1>5 DEF Coming, Brings, Flight
<1>11. DispatchStep(t, g) BY <1>5, <1>9, <1>10, Zenon DEF DispatchStep
<1>12. SchedStep(t, g)
  <2>1. CASE pc'[t] = "kick" BY <1>6, <2>1, Zenon DEF SchedStep, Brings
  <2>2. CASE sched' = sched BY <1>5, <1>9, <1>10, <2>2, Zenon DEF SchedStep
  <2> QED BY <1>6, <2>1, <2>2, Zenon
<1> QED BY <1>1, <1>2, <1>7, <1>8, <1>11, <1>12, ThreadComes, Zenon

\* The worker that takes run_work is on its way.
LEMMA RunWorkComes ==
  ASSUME WakeInv, NEW h \in Hctxs, RunWork(h)
  PROVE  WakeType' /\ DispatchInv' /\ SchedInv'
<1>1. MoveInv /\ MoveType /\ WakeType /\ DispatchInv /\ SchedInv BY DEF WakeInv, IInv, MoveInv
<1>2. h \in Threads /\ cur[h] = h BY <1>1 DEF Threads, WakeType
<1>3. /\ UNCHANGED <<stopped, quiesced, qpc, todo, rphase, restart, inDriver, dispatch, sched, cur, more, ret,
                     elevator>>
      /\ work' = [work EXCEPT ![h] = FALSE] /\ Goto(h, "start")
  BY Zenon DEF RunWork, quiesce, ending
<1>4. /\ pc'[h] = "start" /\ \A x \in Threads : x # h => pc'[x] = pc[x]
      /\ work' \in [Hctxs -> BOOLEAN] /\ \A g \in Hctxs : g # h => work'[g] = work[g]
  BY <1>1, <1>2, <1>3, Zenon DEF MoveType, WakeType, Goto
<1>5. WakeType'
  <2>1. pc'[h] \notin {"twait", "retry"} BY <1>4
  <2>2. \A x \in Threads : pc'[x] \in {"twait", "retry"} => elevator BY <1>1, <1>4, <2>1, Zenon DEF WakeType
  <2> QED BY <1>1, <1>3, <1>4, <2>2, Zenon DEF WakeType
<1>6. Leaves(h, h) BY <1>2, <1>3, <1>4, Zenon DEF Leaves
<1>7. pc'[h] \in Coming /\ Brings(h)' /\ cur'[h] = h BY <1>2, <1>3, <1>4, Zenon DEF Coming, Brings
<1>8. DispatchStep(h, h) /\ SchedStep(h, h) BY <1>7, Zenon DEF DispatchStep, SchedStep
<1> QED BY <1>1, <1>2, <1>5, <1>6, <1>8, ThreadComes, Zenon

\* A step of no thread: what it takes away from the queues, it replaces.
LEMMA OtherComes ==
  ASSUME DispatchInv, SchedInv, UNCHANGED <<dispatch, sched, pc, cur, more>>,
         \A h \in Hctxs : HasPending(h) /\ Shut(h) => Shut(h)',
         \A h \in Hctxs : restart[h] => restart'[h] \/ Rerunning(h)',
         \A h \in Hctxs : HasPending(h) /\ Rerunning(h) => Rerunning(h)' \/ Shut(h)'
  PROVE  DispatchInv' /\ SchedInv'
<1>1. DispatchInv'
  <2> SUFFICES ASSUME NEW h \in Hctxs, dispatch'[h] # <<>>, ~restart'[h]
               PROVE  Shut(h)' \/ Rerunning(h)' \/ \E t \in Threads : cur'[t] = h /\ pc'[t] \in Coming
    BY Zenon DEF DispatchInv
  <2>1. HasPending(h) /\ dispatch[h] # <<>> BY Zenon DEF HasPending
  <2>2. CASE restart[h] BY <2>2, Zenon
  <2>3. CASE ~restart[h]
    <3>1. Shut(h) \/ Rerunning(h) \/ \E t \in Threads : cur[t] = h /\ pc[t] \in Coming
      BY <2>1, <2>3, Zenon DEF DispatchInv
    <3> QED BY <2>1, <3>1, Zenon
  <2> QED BY <2>2, <2>3, Zenon
<1>2. \A t \in Threads : Brings(t)' <=> Brings(t) BY Zenon DEF Brings
<1>3. SchedInv'
  <2> SUFFICES ASSUME NEW h \in Hctxs, sched'[h] # <<>>
               PROVE  Shut(h)' \/ dispatch'[h] # <<>> \/ \E t \in Threads : cur'[t] = h /\ Brings(t)'
    BY Zenon DEF SchedInv
  <2>1. HasPending(h) /\ sched[h] # <<>> BY Zenon DEF HasPending
  <2>2. Shut(h) \/ dispatch[h] # <<>> \/ \E t \in Threads : cur[t] = h /\ Brings(t)
    BY <2>1, Zenon DEF SchedInv
  <2> QED BY <1>2, <2>1, <2>2, Zenon
<1> QED BY <1>1, <1>3

\* Stopping and quiescing a queue.
LEMMA HctxComes ==
  ASSUME WakeInv, NEW h \in Hctxs, StopHwQueue(h) \/ StartHwQueue(h) \/ QuiesceQueue(h) \/ Quiescing(h)
  PROVE  /\ WakeType' /\ DispatchInv' /\ SchedInv'
         /\ \A g \in Hctxs : HasPending(g) /\ Shut(g) => Shut(g)'
<1>1. MoveInv /\ MoveType /\ WakeType /\ QuiesceInv /\ DispatchInv /\ SchedInv BY DEF WakeInv, IInv, MoveInv
<1>2. UNCHANGED <<todo, rphase, restart, inDriver, dispatch, sched, pc, cur, more, ret, elevator>>
  BY Zenon DEF StopHwQueue, StartHwQueue, QuiesceQueue, Quiescing, Quiesced, UnquiesceQueue,
               RunAfterQuiesce, locals, ending
<1>3. /\ work \in [Hctxs -> BOOLEAN] /\ stopped \in [Hctxs -> BOOLEAN] /\ quiesced \in [Hctxs -> BOOLEAN]
      /\ qpc \in [Hctxs -> {"off", "sync", "on", "rerun"}]
      /\ \A g \in Hctxs : quiesced[g] => qpc[g] \in {"sync", "on"}
  BY <1>1, Zenon DEF WakeType, QuiesceInv
<1> DEFINE Held == /\ work' \in [Hctxs -> BOOLEAN] /\ stopped' \in [Hctxs -> BOOLEAN]
                   /\ \A g \in Hctxs : quiesced'[g] => qpc'[g] \in {"sync", "on"}
                   /\ \A g \in Hctxs : HasPending(g) /\ (work[g] \/ stopped[g] \/ qpc[g] # "off")
                                      => work'[g] \/ stopped'[g] \/ qpc'[g] # "off"
<1>4. ASSUME StopHwQueue(h) PROVE Held
  <2>1. /\ work' = [work EXCEPT ![h] = FALSE] /\ stopped' = [stopped EXCEPT ![h] = TRUE]
        /\ UNCHANGED <<quiesced, qpc>>
    BY <1>4, Zenon DEF StopHwQueue, quiesce
  <2> QED BY <1>3, <2>1
<1>5. ASSUME StartHwQueue(h) PROVE Held
  <2>1. /\ stopped' = [stopped EXCEPT ![h] = FALSE] /\ UNCHANGED <<quiesced, qpc>>
        /\ work' = [work EXCEPT ![h] = @ \/ NeedRun(h)]
    BY <1>5, Zenon DEF StartHwQueue, quiesce
  <2>2. work' \in [Hctxs -> BOOLEAN] /\ (work'[h] <=> work[h] \/ NeedRun(h))
        /\ \A g \in Hctxs : g # h => work'[g] = work[g]
    BY <1>3, <2>1, Zenon
  <2>3. /\ stopped' \in [Hctxs -> BOOLEAN] /\ \A g \in Hctxs : g # h => stopped'[g] = stopped[g]
    BY <1>3, <2>1, Zenon
  <2>4. HasPending(h) => work'[h] \/ qpc[h] # "off" BY <1>3, <2>2 DEF NeedRun
  <2> QED BY <1>3, <2>1, <2>2, <2>3, <2>4, Zenon
<1>6. ASSUME QuiesceQueue(h) PROVE Held
  <2>1. /\ quiesced' = [quiesced EXCEPT ![h] = TRUE] /\ qpc' = [qpc EXCEPT ![h] = "sync"]
        /\ UNCHANGED <<work, stopped>>
    BY <1>6, Zenon DEF QuiesceQueue
  <2> QED BY <1>3, <2>1
<1>7. ASSUME Quiescing(h) PROVE Held
  <2>1. CASE Quiesced(h)
    <3>1. qpc' = [qpc EXCEPT ![h] = "on"] /\ UNCHANGED <<work, stopped, quiesced>> BY <2>1, Zenon DEF Quiesced
    <3> QED BY <1>3, <3>1
  <2>2. CASE UnquiesceQueue(h)
    <3>1. /\ qpc' = [qpc EXCEPT ![h] = "rerun"] /\ quiesced' = [quiesced EXCEPT ![h] = FALSE]
          /\ UNCHANGED <<work, stopped>>
      BY <2>2, Zenon DEF UnquiesceQueue
    <3> QED BY <1>3, <3>1
  <2>3. CASE RunAfterQuiesce(h)
    <3>1. /\ qpc[h] = "rerun" /\ qpc' = [qpc EXCEPT ![h] = "off"] /\ UNCHANGED <<stopped, quiesced>>
          /\ work' = [work EXCEPT ![h] = @ \/ (NeedRun(h) /\ ~stopped[h])]
      BY <2>3, Zenon DEF RunAfterQuiesce, RunAsync
    <3>2. ~quiesced[h] BY <1>3, <3>1
    <3>3. work' \in [Hctxs -> BOOLEAN] /\ (work'[h] <=> work[h] \/ (NeedRun(h) /\ ~stopped[h]))
          /\ \A g \in Hctxs : g # h => work'[g] = work[g]
      BY <1>3, <3>1, Zenon
    <3>4. qpc'[h] = "off" /\ \A g \in Hctxs : g # h => qpc'[g] = qpc[g] BY <1>3, <3>1, Zenon
    <3>5. HasPending(h) => work'[h] \/ stopped[h] BY <3>2, <3>3, Zenon DEF NeedRun
    <3> QED BY <1>3, <3>1, <3>2, <3>3, <3>4, <3>5, Zenon
  <2> QED BY <1>7, <2>1, <2>2, <2>3, Zenon DEF Quiescing
<1>8. Held BY <1>4, <1>5, <1>6, <1>7, Zenon
<1>9. WakeType' BY <1>1, <1>2, <1>8, Zenon DEF WakeType
<1>10. \A g \in Hctxs : HasPending(g) /\ Shut(g) => Shut(g)' BY <1>8, Zenon DEF Shut
<1>11. \A g \in Hctxs : Rerunning(g)' <=> Rerunning(g) BY <1>2, Zenon DEF Rerunning
<1>12. \A g \in Hctxs : restart[g] => restart'[g] BY <1>2, Zenon
<1> QED BY <1>1, <1>2, <1>9, <1>10, <1>11, <1>12, OtherComes, Zenon

LEMMA CompleteComes ==
  ASSUME WakeInv, NEW r \in Requests, Complete(r)
  PROVE  /\ WakeType' /\ DispatchInv' /\ SchedInv'
         /\ \A h \in Hctxs : Shut(h) => Shut(h)'
<1>1. MoveInv /\ MoveType /\ WakeType /\ DispatchInv /\ SchedInv BY DEF WakeInv, IInv, MoveInv
<1>2. /\ UNCHANGED <<todo, restart, dispatch, sched, pc, cur, more, ret, elevator, stopped, quiesced, qpc>>
      /\ PutTags({r}) /\ rphase' = [rphase EXCEPT ![r] = "read"] /\ r \in inDriver
  BY Zenon DEF Complete, EndRequest, locals, quiesce
<1>3. work' \in [Hctxs -> BOOLEAN] /\ \A h \in Hctxs : work[h] => work'[h]
  BY <1>1, <1>2, PutTagsRuns, Zenon
<1>4. WakeType' BY <1>1, <1>2, <1>3, Zenon DEF WakeType
<1>5. \A h \in Hctxs : Shut(h) => Shut(h)' BY <1>2, <1>3, Zenon DEF Shut
<1>6. rphase[r] = "none" BY <1>1, <1>2, Zenon DEF MoveInv, PlaceInv, Place, Ending
<1>7. \A x \in Requests : rphase[x] = "rerun" => rphase'[x] = "rerun"
  <2>1. \A x \in Requests : x # r => rphase'[x] = rphase[x] BY <1>1, <1>2, Zenon DEF MoveType
  <2> QED BY <1>6, <2>1
<1>8. \A h \in Hctxs : Rerunning(h) => Rerunning(h)' BY <1>2, <1>7, Zenon DEF Rerunning
<1>9. \A h \in Hctxs : restart[h] => restart'[h] BY <1>2, Zenon
<1> QED BY <1>1, <1>2, <1>4, <1>5, <1>8, <1>9, OtherComes, Zenon

\* blk_mq_sched_restart(): a mark that is cleared becomes a run.
LEMMA EndComes ==
  ASSUME WakeInv, NEW r \in Requests, End(r)
  PROVE  /\ WakeType' /\ DispatchInv' /\ SchedInv'
         /\ \A h \in Hctxs : Shut(h) => Shut(h)'
<1>1. MoveInv /\ MoveType /\ WakeType /\ RestartInv /\ DispatchInv /\ SchedInv BY DEF WakeInv, IInv, MoveInv
<1>2. UNCHANGED <<dispatch, sched, pc, cur, more, ret, elevator, stopped, quiesced, qpc>>
  BY Zenon DEF End, ReadRestart, ClearRestart, RestartHctx, locals, quiesce
<1>3. todo = [x \in Requests |-> todo[x]] BY <1>1, Zenon DEF WakeType
<1>4. /\ todo' = [x \in Requests |-> todo'[x]]
      /\ \A x \in Requests : x # r => todo'[x] = todo[x] /\ rphase'[x] = rphase[x]
  <2>1. todo' = todo \/ \E o : todo' = [todo EXCEPT ![r] = o]
    BY Zenon DEF End, ReadRestart, ClearRestart, RestartHctx, Finish
  <2>2. rphase' = rphase \/ \E o : rphase' = [rphase EXCEPT ![r] = o]
    BY Zenon DEF End, ReadRestart, ClearRestart, RestartHctx, Finish
  <2>3. \A x \in Requests : x # r => rphase'[x] = rphase[x] BY <1>1, <2>2, Zenon DEF MoveType
  <2>4. CASE todo' = todo BY <1>3, <2>3, <2>4, Zenon
  <2>5. ASSUME NEW o, todo' = [todo EXCEPT ![r] = o]
        PROVE  todo' = [x \in Requests |-> todo'[x]] /\ \A x \in Requests : x # r => todo'[x] = todo[x]
    <3>1. todo' = [x \in Requests |-> IF x = r THEN o ELSE todo[x]] BY <1>3, <2>5
    <3> QED BY <3>1
  <2> QED BY <2>1, <2>3, <2>4, <2>5, Zenon
<1>5. /\ work' \in [Hctxs -> BOOLEAN] /\ \A h \in Hctxs : work[h] => work'[h]
      /\ \A h \in Hctxs : rphase[r] = "rerun" /\ Head(todo[r]) = h /\ HasPending(h) => Shut(h)'
  <2>1. CASE ReadRestart(r) \/ ClearRestart(r)
    <3>1. work' = work /\ rphase[r] # "rerun" BY <2>1 DEF ReadRestart, ClearRestart
    <3> QED BY <1>1, <3>1, Zenon DEF WakeType
  <2>2. CASE RestartHctx(r)
    <3>1. PICK g : g = Head(todo[r]) BY Zenon
    <3>2. work' = RunAsync(g) BY <2>2, <3>1, Zenon DEF RestartHctx
    <3>3. CASE g \in Hctxs BY <1>1, <1>2, <3>1, <3>2, <3>3, RunAsyncShut, Zenon DEF Shut
    <3>4. CASE g \notin Hctxs
      <4>1. work' = work BY <1>1, <3>2, <3>4 DEF RunAsync, WakeType
      <4> QED BY <1>1, <3>1, <3>4, <4>1, Zenon DEF WakeType
    <3> QED BY <3>3, <3>4, Zenon
  <2> QED BY <2>1, <2>2, Zenon DEF End
<1>6. WakeType' BY <1>1, <1>2, <1>4, <1>5, Zenon DEF WakeType
<1>7. \A h \in Hctxs : Shut(h) => Shut(h)' BY <1>2, <1>5, Zenon DEF Shut
<1>8. \A h \in Hctxs : restart[h] => restart'[h] \/ Rerunning(h)'
  <2>1. CASE restart' = restart BY <2>1, Zenon
  <2>2. CASE restart' # restart
    <3>1. PICK g : g = Head(todo[r]) BY Zenon
    <3>2. restart' = [restart EXCEPT ![g] = FALSE] /\ rphase' = [rphase EXCEPT ![r] = "rerun"] /\ todo' = todo
      BY <2>2, <3>1, Zenon DEF End, ReadRestart, ClearRestart, RestartHctx
    <3>3. rphase'[r] = "rerun" BY <1>1, <3>2, Zenon DEF MoveType
    <3>4. \A h \in Hctxs : h # g => restart'[h] = restart[h] BY <1>1, <3>2, Zenon DEF RestartInv
    <3>5. Rerunning(g)' BY <3>1, <3>2, <3>3, Zenon DEF Rerunning
    <3> QED BY <3>4, <3>5, Zenon
  <2> QED BY <2>1, <2>2, Zenon
<1>9. \A h \in Hctxs : HasPending(h) /\ Rerunning(h) => Rerunning(h)' \/ Shut(h)'
  <2> SUFFICES ASSUME NEW h \in Hctxs, HasPending(h), NEW x \in Requests, rphase[x] = "rerun", Head(todo[x]) = h
               PROVE  Rerunning(h)' \/ Shut(h)'
    BY Zenon DEF Rerunning
  <2>1. CASE x = r BY <1>5, <2>1, Zenon
  <2>2. CASE x # r BY <1>4, <2>2, Zenon DEF Rerunning
  <2> QED BY <2>1, <2>2, Zenon
<1> QED BY <1>1, <1>2, <1>6, <1>7, <1>8, <1>9, OtherComes, Zenon

-----------------------------------------------------------------------------
(* What may be left behind.                                                *)

LEMMA NextWakes ==
  ASSUME WakeInv, [Next]_vars
  PROVE  WakeType' /\ DispatchInv' /\ SchedInv'
<1>1. IInv /\ MoveType /\ WakeType /\ DispatchInv /\ SchedInv BY DEF WakeInv, IInv, MoveInv
<1>2. ASSUME NEW t \in Threads, Step(t) PROVE WakeType' /\ DispatchInv' /\ SchedInv'
  <2>1. PICK g \in Hctxs : g = cur[t] BY <1>1, Zenon DEF MoveType
  <2>2. WakeType' /\ Leaves(t, g) BY <1>1, <1>2, <2>1, StepLeaves, Zenon
  <2>3. DispatchStep(t, g) /\ SchedStep(t, g) BY <1>1, <1>2, <2>1, StepComes, Zenon
  <2> QED BY <1>1, <2>2, <2>3, ThreadComes, Zenon
<1>3. CASE UNCHANGED vars
  <2>1. UNCHANGED <<dispatch, sched, pc, cur, more, ret, work, stopped, quiesced, qpc, todo, rphase, restart,
                    elevator>>
    BY <1>3, Zenon DEF vars, locals, ending, quiesce
  <2>2. WakeType' BY <1>1, <2>1, Zenon DEF WakeType
  <2>3. \A h \in Hctxs : (Shut(h)' <=> Shut(h)) /\ (Rerunning(h)' <=> Rerunning(h)) /\ restart'[h] = restart[h]
    BY <2>1, Zenon DEF Shut, Rerunning
  <2> QED BY <1>1, <2>1, <2>2, <2>3, OtherComes, Zenon
<1> QED BY <1>2, <1>3, SubmitComes, RunWorkComes, HctxComes, CompleteComes, EndComes, Zenon DEF Next

\* Nobody runs a queue or is going to, and nothing is in flight.
Quiet ==
  /\ \A t \in Threads : pc[t] = "idle"
  /\ \A h \in Hctxs : ~work[h] /\ ~stopped[h] /\ qpc[h] = "off"
  /\ \A r \in Requests : rphase[r] = "none"
  /\ inDriver = {}

\* Whatever is left when all is quiet is on a queue with residual requests on
\* hctx->dispatch and with the mark SCHED_RESTART, which only the completion of
\* a request takes up (blk_mq_sched_restart).
LeftIsMarked ==
  Quiet => \A r \in live : restart[HctxOf[r]] /\ dispatch[HctxOf[r]] # <<>>

\* An empty list has no request.
LEMMA NoneListed == Range(<<>>) = {}
BY DEF Range

LEMMA QuietLeft ==
  ASSUME WakeInv, Quiet, NEW r \in live
  PROVE  r \in Requests /\ HctxOf[r] \in Hctxs /\ restart[HctxOf[r]] /\ dispatch[HctxOf[r]] # <<>>
<1>1. MoveInv /\ MoveType /\ RestartInv /\ DispatchInv /\ SchedInv BY DEF WakeInv, IInv, MoveInv
<1>2. r \in Requests BY <1>1 DEF MoveType
<1>3. PICK h \in Hctxs : h = HctxOf[r] BY <1>2, MapType, Zenon
<1>4. ~Ending(r) /\ r \notin inDriver BY <1>2, Zenon DEF Quiet, Ending
<1>5. \A t \in Threads : ~InList(t, r)
  <2> TAKE t \in Threads
  <2>1. list[t] = <<>>
    <3>1. pc[t] \notin Carrying BY Zenon DEF Quiet, Carrying
    <3> QED BY <1>1, <3>1, Zenon DEF MoveInv, ThreadInv, Carries
  <2> QED BY <2>1, NoneListed, Zenon DEF InList
<1>6. Queued(r) BY <1>1, <1>2, <1>4, <1>5, Zenon DEF MoveInv, PlaceInv, Place
<1>7. sched[h] # <<>> \/ dispatch[h] # <<>> BY <1>3, <1>6, NoneListed, Zenon DEF Queued, InSched, InDispatch
<1>8. ~Shut(h) /\ ~Rerunning(h)
  <2>1. ~Rerunning(h) BY DEF Quiet, Rerunning
  <2> QED BY <2>1, Zenon DEF Quiet, Shut
<1>9. \A t \in Threads : ~(pc[t] \in Coming) /\ ~Brings(t)
  <2> TAKE t \in Threads
  <2>1. pc[t] = "idle" BY Zenon DEF Quiet
  <2> QED BY <2>1 DEF Coming, Brings, Flight
<1>10. dispatch[h] # <<>> BY <1>1, <1>7, <1>8, <1>9, Zenon DEF SchedInv
<1>11. restart[h] BY <1>1, <1>8, <1>9, <1>10, Zenon DEF DispatchInv
<1> QED BY <1>2, <1>3, <1>10, <1>11, Zenon

-----------------------------------------------------------------------------
(* A queue with tags of its own.                                           *)

\* What the lemmas below use of Cardinality; OwnTagsLeaveNothing takes it from
\* the theorems about finite sets.
SmallSets == Cardinality({}) = 0 /\ \A x : Cardinality({x}) = 1

\* The tag set serves one hardware queue.
LoneQueue == \E h : Hctxs = {h}

\* A request in flight will look for marks when it ends.
Flying ==
  \/ inDriver # {}
  \/ \E r \in Requests : rphase[r] = "read" \/ (rphase[r] = "scan" /\ todo[r] # <<>>)

\* The thread will get a request to the driver, or comes back after a while.
Retries(t) == pc[t] \in Flight \/ (pc[t] = "splice" /\ ret[t] = "BUSY")

\* The thread will run the queue if hctx->dispatch has something.
Reruns(t) == pc[t] \in {"kick", "sync", "start"} \/ (pc[t] = "check" /\ ret[t] = "BUSY")

\* The mark of h is taken up, or the queue is run anyway.
Answered(h) ==
  \/ Flying
  \/ \E t \in Threads : Retries(t)
  \/ dispatch[h] # <<>> /\ (Shut(h) \/ \E t \in Threads : Reruns(t))

\* The mark of a lone queue is never left to nobody; what a completion has
\* still to look at is a list of hardware queues, not empty while it runs one.
MarkInv ==
  /\ todo \in [Requests -> Seq(Hctxs)]
  /\ \A r \in Requests : rphase[r] = "rerun" => todo[r] # <<>>
  /\ \A h \in Hctxs : restart[h] => Answered(h)

\* What t itself has to see to: a mark it sets, or one that it was to answer for.
MarkStep(t, g) ==
  /\ restart'[g]
  /\ \/ ~restart[g] \/ Retries(t)
     \/ dispatch[g] # <<>> /\ (dispatch'[g] = <<>> \/ Reruns(t) \/ ~(Shut(g) => Shut(g)'))
  => Answered(g)'

LEMMA ThreadAnswers ==
  ASSUME NEW t \in Threads, NEW g, Hctxs = {g}, MarkInv, Leaves(t, g), MarkStep(t, g)
  PROVE  MarkInv'
<1>1. /\ todo' \in [Requests -> Seq(Hctxs)]
      /\ \A r \in Requests : rphase'[r] = "rerun" => todo'[r] # <<>>
  <2>1. "read" # "rerun" OBVIOUS
  <2> QED BY <2>1, Zenon DEF MarkInv, Leaves
<1>2. g \in Hctxs /\ \A h \in Hctxs : h = g OBVIOUS
<1>3. Flying => Flying'
  <2>1. inDriver # {} => inDriver' # {} BY Zenon DEF Leaves
  <2>2. ASSUME NEW r \in Requests, rphase[r] = "read" \/ (rphase[r] = "scan" /\ todo[r] # <<>>)
        PROVE  rphase'[r] = rphase[r] /\ todo'[r] = todo[r]
    <3>1. rphase[r] # "none" BY <2>2
    <3> QED BY <3>1, Zenon DEF Leaves
  <2> QED BY <2>1, <2>2, Zenon DEF Flying
<1>4. \A x \in Threads : x # t => (Retries(x) => Retries(x)') /\ (Reruns(x) => Reruns(x)')
  BY Zenon DEF Leaves, Retries, Reruns
<1>5. restart'[g] => Answered(g)'
  <2> SUFFICES ASSUME restart'[g] PROVE Answered(g)' OBVIOUS
  <2>1. CASE \/ ~restart[g] \/ Retries(t)
             \/ dispatch[g] # <<>> /\ (dispatch'[g] = <<>> \/ Reruns(t) \/ ~(Shut(g) => Shut(g)'))
    BY <2>1, Zenon DEF MarkStep
  <2>2. CASE /\ restart[g] /\ ~Retries(t)
             /\ dispatch[g] # <<>> => dispatch'[g] # <<>> /\ ~Reruns(t) /\ (Shut(g) => Shut(g)')
    <3>1. Answered(g) BY <1>2, <2>2, Zenon DEF MarkInv
    <3> QED BY <1>3, <1>4, <2>2, <3>1, Zenon DEF Answered
  <2> QED BY <2>1, <2>2, Zenon
<1> QED BY <1>1, <1>2, <1>5, Zenon DEF MarkInv

\* All driver tags are out: some request that has one is on its way.
LEMMA TagsOut ==
  ASSUME SmallSets, IInv, elevator, ~TagFree, NEW t \in Threads, pc[t] = "retry"
  PROVE  inDriver # {} \/ \E u \in Threads : u # t /\ pc[u] \in {"tag", "next", "queue"}
<1>1. MoveInv /\ MoveType BY DEF IInv, MoveInv
<1>2. tagged # {}
  <2>1. Cardinality({}) = 0 BY DEF SmallSets
  <2>2. tagged = {} => TagFree BY <2>1, TagsPositive DEF TagFree
  <2> QED BY <2>2
<1>3. PICK x \in Requests : x \in tagged BY <1>1, <1>2 DEF MoveType
<1>4. Place(x) /\ Tag(x) BY <1>1, Zenon DEF MoveInv, PlaceInv, TagInv
<1>5. x \in inDriver \/ \E u \in Threads : InList(u, x) BY <1>3, <1>4, Zenon DEF Place, Tag
<1>6. ASSUME NEW u \in Threads, InList(u, x) PROVE u # t /\ pc[u] \in {"tag", "next", "queue"}
  <2>1. pc[u] \in {"tag", "next", "queue"} BY <1>1, <1>3, <1>6, Zenon DEF MoveInv, TagInv, Holds
  <2> QED BY <2>1
<1> QED BY <1>5, <1>6, Zenon

\* A mark that a thread sets or relies on is answered when it goes on: by a
\* request that is in flight, by its own next try, or by a run.
LEMMA StepAnswers ==
  ASSUME SmallSets, IInv, WakeType, NEW t \in Threads, Step(t), NEW g, Hctxs = {g}
  PROVE  MarkStep(t, g)
<1>1. MoveInv /\ MoveType BY DEF IInv, MoveInv
<1>2. g \in Hctxs /\ cur[t] = g /\ ~Shared
  <2>1. Cardinality(Hctxs) = 1 BY Zenon DEF SmallSets
  <2>2. ~Shared BY <2>1 DEF Shared
  <2> QED BY <1>1, <2>2, Zenon DEF MoveType
<1>3. Leaves(t, g) /\ \A h \in Hctxs : work[h] => work'[h] BY <1>2, StepLeaves, Zenon
<1>4. Shut(g) => Shut(g)' BY <1>2, <1>3, Zenon DEF Shut, Leaves
<1>5. stopped[g] \/ quiesced[g] => Shut(g)' BY <1>2, <1>3, Zenon DEF Shut, Leaves, WakeType
<1>6. /\ \A label : Goto(t, label) => pc'[t] = label
      /\ Return(t) => pc'[t] = "idle"
  BY <1>1, Zenon DEF Goto, Return, MoveType
<1>7. SUFFICES ASSUME restart'[g],
                      \/ ~restart[g] \/ Retries(t)
                      \/ dispatch[g] # <<>> /\ (dispatch'[g] = <<>> \/ Reruns(t))
               PROVE  Answered(g)'
  BY <1>4, Zenon DEF MarkStep
<1>8. ASSUME Retries(t)' PROVE Answered(g)' BY <1>8, Zenon DEF Answered
<1>9. ASSUME Flying' PROVE Answered(g)' BY <1>9, Zenon DEF Answered
<1>10. ASSUME dispatch'[g] # <<>>, Shut(g)' \/ Reruns(t)' PROVE Answered(g)' BY <1>10, Zenon DEF Answered
<1>11. ASSUME restart' = restart, dispatch[g] # <<>> => dispatch'[g] # <<>>, ~Retries(t), ~Reruns(t)
       PROVE  FALSE
  BY <1>7, <1>11, Zenon
<1>12. CASE MarkRestart(t) \/ CountRestart(t) \/ GetDriverTag(t) \/ MarkTagWait(t) \/ GetNextTag(t)
  <2>1. PICK label \in {"count", "tag", "next", "queue", "twait", "retry"} : Goto(t, label)
    BY <1>2, <1>12, Zenon DEF MarkRestart, CountRestart, GetDriverTag, MarkTagWait, GetNextTag, AfterTag
  <2>2. Retries(t)' BY <1>6, <2>1, Zenon DEF Retries, Flight
  <2> QED BY <1>8, <2>2
<1>13. CASE RetryTag(t)
  <2>1. pc[t] = "retry" /\ elevator BY <1>13, Zenon DEF RetryTag, WakeType
  <2>2. CASE TagFree
    <3>1. PICK label \in {"next", "queue"} : Goto(t, label) BY <1>13, <2>2, Zenon DEF RetryTag, AfterTag
    <3>2. Retries(t)' BY <1>6, <3>1, Zenon DEF Retries, Flight
    <3> QED BY <1>8, <3>2
  <2>3. CASE ~TagFree
    <3>1. inDriver # {} \/ \E u \in Threads : u # t /\ pc[u] \in {"tag", "next", "queue"}
      BY <2>1, <2>3, TagsOut, Zenon
    <3>2. CASE inDriver # {}
      <4>1. inDriver' # {} BY <1>3, <3>2, Zenon DEF Leaves
      <4> QED BY <1>9, <4>1, Zenon DEF Flying
    <3>3. ASSUME NEW u \in Threads, u # t, pc[u] \in {"tag", "next", "queue"} PROVE Answered(g)'
      <4>1. pc'[u] \in Flight BY <1>3, <3>3, Zenon DEF Leaves, Flight
      <4> QED BY <4>1, Zenon DEF Answered, Retries
    <3> QED BY <3>1, <3>2, <3>3, Zenon
  <2> QED BY <2>2, <2>3, Zenon
<1>14. CASE QueueRq(t)
  <2>1. pc[t] = "queue" BY <1>14, Zenon DEF QueueRq
  <2>2. PICK x \in Requests : x = Head(list[t]) BY <1>1, <2>1, FirstCarried, Zenon DEF Carrying
  <2>3. \/ inDriver' = inDriver \cup {x}
        \/ rphase' = [rphase EXCEPT ![x] = "read"]
        \/ Goto(t, "splice") /\ ret' = [ret EXCEPT ![t] = "BUSY"]
        \/ inDriver' = inDriver /\ inDriver # {}
    <3>1. PICK reply \in {"OK", "BUSY", "DEV_BUSY", "ERROR"} :
            /\ DriverReply(reply, x)
            /\ reply = "OK" => inDriver' = inDriver \cup {x}
            /\ reply = "ERROR" => rphase' = [rphase EXCEPT ![x] = "read"]
            /\ reply \in {"BUSY", "DEV_BUSY"} =>
                 Goto(t, "splice") /\ ret' = [ret EXCEPT ![t] = reply] /\ inDriver' = inDriver
      BY <1>14, <2>2, Zenon DEF QueueRq, EndRequest
    <3>2. reply = "DEV_BUSY" => inDriver # {} BY <3>1, Zenon DEF DriverReply
    <3> QED BY <3>1, <3>2, Zenon
  <2>4. CASE inDriver' = inDriver \cup {x}
    <3>1. inDriver' # {} BY <2>4
    <3> QED BY <1>9, <3>1, Zenon DEF Flying
  <2>5. CASE rphase' = [rphase EXCEPT ![x] = "read"]
    <3>1. rphase'[x] = "read" BY <1>1, <2>5, Zenon DEF MoveType
    <3> QED BY <1>9, <3>1, Zenon DEF Flying
  <2>6. CASE Goto(t, "splice") /\ ret' = [ret EXCEPT ![t] = "BUSY"]
    <3>1. pc'[t] = "splice" /\ ret'[t] = "BUSY" BY <1>6, <2>6, Zenon DEF WakeType
    <3> QED BY <1>8, <3>1, Zenon DEF Retries
  <2>7. CASE inDriver' = inDriver /\ inDriver # {} BY <1>9, <2>7, Zenon DEF Flying
  <2> QED BY <2>3, <2>4, <2>5, <2>6, <2>7, Zenon
<1>15. dispatch[g] \in Seq(Requests) /\ list[t] \in Seq(Requests) /\ dispatch \in [Hctxs -> Seq(Requests)]
  BY <1>1, <1>2, Zenon DEF MoveType
<1>16. CASE SpliceBack(t)
  <2>1. /\ pc[t] = "splice" /\ Goto(t, "check") /\ ret' = ret /\ restart' = restart
        /\ dispatch' = [dispatch EXCEPT ![g] = list[t] \o dispatch[g]]
    BY <1>2, <1>16, Zenon DEF SpliceBack
  <2>2. list[t] # <<>> BY <1>1, <2>1, FirstCarried, Zenon DEF Carrying
  <2>3. dispatch'[g] # <<>> BY <1>2, <1>15, <2>1, <2>2, SpliceNotEmpty, Zenon
  <2>4. CASE ret[t] = "BUSY"
    <3>1. Reruns(t)' BY <1>6, <2>1, <2>4, Zenon DEF Reruns
    <3> QED BY <1>10, <2>3, <3>1, Zenon
  <2>5. CASE ret[t] # "BUSY"
    <3>1. ~Retries(t) /\ ~Reruns(t) BY <2>1, <2>5 DEF Retries, Reruns, Flight
    <3> QED BY <1>11, <2>1, <2>3, <3>1, Zenon
  <2> QED BY <2>4, <2>5, Zenon
<1>17. CASE RunHwQueue(t) \/ RunSync(t) \/ CheckRestart(t)
  <2>1. UNCHANGED <<dispatch, restart>> BY <1>17, Zenon DEF RunHwQueue, RunSync, CheckRestart
  <2>2. pc[t] \in {"kick", "sync", "check"} BY <1>17, Zenon DEF RunHwQueue, RunSync, CheckRestart
  <2>3. ~Retries(t) BY <2>2 DEF Retries, Flight
  <2>4. dispatch[g] # <<>> /\ Reruns(t) BY <1>7, <2>1, <2>3, Zenon
  <2>5. \/ work' = RunAsync(g) \/ work' = DelayRun(g)
        \/ ~NeedRun(g) \/ stopped[g] \/ Goto(t, "start")
    <3>1. CASE RunHwQueue(t) BY <1>2, <3>1, Zenon DEF RunHwQueue
    <3>2. CASE RunSync(t) BY <1>2, <3>2, Zenon DEF RunSync
    <3>3. CASE CheckRestart(t)
      <4>1. pc[t] = "check" BY <3>3, Zenon DEF CheckRestart
      <4>2. ret[t] = "BUSY" BY <2>4, <4>1 DEF Reruns
      <4> QED BY <1>2, <3>3, <4>2, Zenon DEF CheckRestart
    <3> QED BY <1>17, <3>1, <3>2, <3>3, Zenon
  <2>6. CASE Goto(t, "start")
    <3>1. Reruns(t)' BY <1>6, <2>6, Zenon DEF Reruns
    <3> QED BY <1>10, <2>1, <2>4, <3>1, Zenon
  <2>7. CASE ~NeedRun(g) \/ stopped[g]
    <3>1. Shut(g)' BY <1>5, <2>4, <2>7, Zenon DEF NeedRun, HasPending
    <3> QED BY <1>10, <2>1, <2>4, <3>1, Zenon
  <2>8. CASE work' = RunAsync(g)
    <3>1. Shut(g)' BY <1>2, <1>3, <2>4, <2>8, RunAsyncShut, Zenon DEF Shut, Leaves, HasPending
    <3> QED BY <1>10, <2>1, <2>4, <3>1, Zenon
  <2>9. CASE work' = DelayRun(g)
    <3>1. Shut(g)' BY <1>2, <1>3, <2>9, DelayRunShut, Zenon DEF Shut, Leaves
    <3> QED BY <1>10, <2>1, <2>4, <3>1, Zenon
  <2> QED BY <2>5, <2>6, <2>7, <2>8, <2>9, Zenon
<1>18. CASE StartDispatch(t)
  <2>1. restart' = restart /\ pc[t] = "start" BY <1>18, Zenon DEF StartDispatch
  <2>2. ~Retries(t) BY <2>1 DEF Retries, Flight
  <2>3. dispatch[g] # <<>> BY <1>7, <2>1, <2>2, Zenon
  <2>4. CASE Goto(t, "mark")
    <3>1. Retries(t)' BY <1>6, <2>4, Zenon DEF Retries, Flight
    <3> QED BY <1>8, <3>1, Zenon
  <2>5. CASE (stopped[g] \/ quiesced[g]) /\ dispatch' = dispatch BY <1>5, <1>10, <2>3, <2>5, Zenon
  <2> QED BY <1>2, <1>18, <2>3, <2>4, <2>5, Zenon DEF StartDispatch
<1>19. CASE TakeFromSched(t) \/ CheckDirect(t) \/ IssueDirectly(t)
  <2>1. restart' = restart /\ pc[t] \in {"take", "loop", "direct", "directq"}
    BY <1>19, Zenon DEF TakeFromSched, CheckDirect, IssueDirectly
  <2>2. ~Retries(t) /\ ~Reruns(t) BY <2>1 DEF Retries, Reruns, Flight
  <2>3. dispatch' = dispatch \/ dispatch' = [dispatch EXCEPT ![g] = dispatch[g] \o list[t]]
    BY <1>2, <1>19, Zenon DEF TakeFromSched, CheckDirect, IssueDirectly, BypassInsert
  <2>4. dispatch[g] # <<>> => dispatch'[g] # <<>> BY <1>2, <1>15, <2>3, SpliceNotEmpty, Zenon
  <2> QED BY <1>11, <2>1, <2>2, <2>4, Zenon
<1> QED BY <1>12, <1>13, <1>14, <1>16, <1>17, <1>18, <1>19, Zenon DEF Step

\* A step of no thread that leaves the marks alone.
LEMMA OtherAnswers ==
  ASSUME NEW g, Hctxs = {g}, MarkInv, todo' \in [Requests -> Seq(Hctxs)],
         \A r \in Requests : rphase'[r] = "rerun" => todo'[r] # <<>>,
         UNCHANGED <<restart, dispatch, pc, ret>>, Flying => Flying',
         \A h \in Hctxs : HasPending(h) /\ Shut(h) => Shut(h)'
  PROVE  MarkInv'
<1>1. \A t \in Threads : (Retries(t)' <=> Retries(t)) /\ (Reruns(t)' <=> Reruns(t)) BY Zenon DEF Retries, Reruns
<1>2. g \in Hctxs /\ \A h \in Hctxs : h = g OBVIOUS
<1>3. dispatch[g] # <<>> /\ Shut(g) => Shut(g)' BY <1>2, Zenon DEF HasPending
<1>4. restart'[g] => Answered(g)'
  <2> SUFFICES ASSUME restart'[g] PROVE Answered(g)' OBVIOUS
  <2>1. Answered(g) BY <1>2, Zenon DEF MarkInv
  <2> QED BY <1>1, <1>3, <2>1, Zenon DEF Answered
<1> QED BY <1>2, <1>4, Zenon DEF MarkInv

\* blk_mq_sched_restart() of the only queue looks at that queue.
LEMMA EndAnswers ==
  ASSUME SmallSets, WakeInv, NEW g, Hctxs = {g}, MarkInv, NEW r \in Requests, End(r)
  PROVE  MarkInv'
<1>1. MoveType /\ RestartInv BY DEF WakeInv, IInv, MoveInv
<1>2. UNCHANGED <<dispatch, pc, ret, inDriver>>
  BY Zenon DEF End, ReadRestart, ClearRestart, RestartHctx, locals
<1>3. \A h \in Hctxs : HasPending(h) /\ Shut(h) => Shut(h)' BY EndComes, Zenon
<1>4. g \in Hctxs /\ \A h \in Hctxs : h = g OBVIOUS
<1>5. todo \in [Requests -> Seq(Hctxs)] BY DEF MarkInv
<1>6. Cardinality(Hctxs) = 1 /\ ~Shared
  <2>1. Cardinality(Hctxs) = 1 BY Zenon DEF SmallSets
  <2> QED BY <2>1 DEF Shared
<1>7. \A x \in Requests : rphase[x] = "rerun" => todo[x] # <<>> BY Zenon DEF MarkInv
<1>8. ASSUME NEW o \in Seq(Hctxs), todo' = [todo EXCEPT ![r] = o]
      PROVE  /\ todo' \in [Requests -> Seq(Hctxs)] /\ todo'[r] = o
             /\ \A x \in Requests : x # r => todo'[x] = todo[x]
  BY <1>5, <1>8, Zenon
<1>9. ASSUME NEW p, rphase' = [rphase EXCEPT ![r] = p]
      PROVE  rphase'[r] = p /\ \A x \in Requests : x # r => rphase'[x] = rphase[x]
  BY <1>1, <1>9, Zenon DEF MoveType
<1>10. ASSUME NEW o \in Seq(Hctxs), todo' = [todo EXCEPT ![r] = o],
              NEW p, rphase' = [rphase EXCEPT ![r] = p], p # "rerun",
              restart' = restart,
              \/ rphase[r] = "rerun"
              \/ rphase[r] = "scan" /\ todo[r] = <<>>
              \/ p = "scan" /\ o # <<>>
       PROVE  MarkInv'
  <2>1. /\ todo' \in [Requests -> Seq(Hctxs)] /\ todo'[r] = o /\ rphase'[r] = p
        /\ \A x \in Requests : x # r => todo'[x] = todo[x] /\ rphase'[x] = rphase[x]
    BY <1>8, <1>9, <1>10, Zenon
  <2>2. \A x \in Requests : rphase'[x] = "rerun" => todo'[x] # <<>> BY <1>7, <1>10, <2>1, Zenon
  <2>3. Flying => Flying'
    <3>1. CASE p = "scan" /\ o # <<>> BY <2>1, <3>1, Zenon DEF Flying
    <3>2. CASE rphase[r] = "rerun" \/ (rphase[r] = "scan" /\ todo[r] = <<>>)
      <4>1. rphase[r] # "read" /\ ~(rphase[r] = "scan" /\ todo[r] # <<>>) BY <3>2
      <4> QED BY <1>2, <2>1, <4>1, Zenon DEF Flying
    <3> QED BY <1>10, <3>1, <3>2, Zenon
  <2> QED BY <1>2, <1>3, <1>10, <2>1, <2>2, <2>3, OtherAnswers, Zenon
<1>11. <<>> \in Seq(Hctxs) OBVIOUS
<1>12. CASE ReadRestart(r)
  <2>1. PICK o \in RestartOrders(HctxOf[r]) : todo' = [todo EXCEPT ![r] = o]
    BY <1>6, <1>12, Zenon DEF ReadRestart
  <2>2. rphase' = [rphase EXCEPT ![r] = "scan"] /\ restart' = restart BY <1>6, <1>12, Zenon DEF ReadRestart
  <2>3. o \in [1..1 -> Hctxs] BY <1>6, Zenon DEF RestartOrders
  <2>4. PICK x \in Hctxs : o = <<x>> BY <2>3
  <2>5. o \in Seq(Hctxs) /\ o # <<>> BY <2>4
  <2> QED BY <1>10, <2>1, <2>2, <2>5, Zenon
<1>13. CASE ClearRestart(r)
  <2>1. CASE todo[r] = <<>>
    <3>1. Finish(r) /\ restart' = restart /\ rphase[r] = "scan" BY <1>13, <2>1, Zenon DEF ClearRestart
    <3>2. todo' = [todo EXCEPT ![r] = <<>>] /\ rphase' = [rphase EXCEPT ![r] = "none"] BY <3>1, Zenon DEF Finish
    <3> QED BY <1>10, <1>11, <2>1, <3>1, <3>2, Zenon
  <2>2. CASE todo[r] # <<>>
    <3>1. todo[r] \in Seq(Hctxs) BY <1>5, Zenon
    <3>2. Head(todo[r]) \in Hctxs /\ Tail(todo[r]) \in Seq(Hctxs) BY <2>2, <3>1
    <3>3. Head(todo[r]) = g BY <1>4, <3>2, Zenon
    <3>4. \/ ~restart[g] /\ restart' = restart /\ todo' = [todo EXCEPT ![r] = Tail(todo[r])] /\ rphase' = rphase
          \/ /\ restart' = [restart EXCEPT ![g] = FALSE] /\ todo' = todo
             /\ rphase' = [rphase EXCEPT ![r] = "rerun"]
      BY <1>13, <2>2, <3>3, Zenon DEF ClearRestart
    <3>5. ~restart'[g] BY <1>1, <1>4, <3>4, Zenon DEF RestartInv
    <3>6. todo' \in [Requests -> Seq(Hctxs)] BY <1>5, <1>8, <3>2, <3>4, Zenon
    <3>7. \A x \in Requests : rphase'[x] = "rerun" => todo'[x] # <<>>
      <4>1. CASE todo' = todo /\ rphase' = [rphase EXCEPT ![r] = "rerun"] BY <1>7, <1>9, <2>2, <4>1, Zenon
      <4>2. CASE rphase' = rphase /\ todo' = [todo EXCEPT ![r] = Tail(todo[r])]
        <5>1. rphase[r] # "rerun" BY <1>13 DEF ClearRestart
        <5> QED BY <1>7, <1>8, <3>2, <4>2, <5>1, Zenon
      <4> QED BY <3>4, <4>1, <4>2, Zenon
    <3> QED BY <1>4, <3>5, <3>6, <3>7, Zenon DEF MarkInv
  <2> QED BY <2>1, <2>2, Zenon
<1>14. CASE RestartHctx(r)
  <2>1. restart' = restart /\ rphase[r] = "rerun" BY <1>14, Zenon DEF RestartHctx
  <2>2. \/ todo' = [todo EXCEPT ![r] = <<>>] /\ rphase' = [rphase EXCEPT ![r] = "none"]
        \/ todo' = [todo EXCEPT ![r] = Tail(todo[r])] /\ rphase' = [rphase EXCEPT ![r] = "scan"]
    BY <1>14, Zenon DEF RestartHctx, Finish
  <2>3. todo[r] # <<>> /\ todo[r] \in Seq(Hctxs) BY <1>5, <1>7, <2>1, Zenon
  <2>4. Tail(todo[r]) \in Seq(Hctxs) BY <2>3
  <2>5. CASE todo' = [todo EXCEPT ![r] = <<>>] /\ rphase' = [rphase EXCEPT ![r] = "none"]
    BY <1>10, <1>11, <2>1, <2>5, Zenon
  <2>6. CASE todo' = [todo EXCEPT ![r] = Tail(todo[r])] /\ rphase' = [rphase EXCEPT ![r] = "scan"]
    BY <1>10, <2>1, <2>4, <2>6, Zenon
  <2> QED BY <2>2, <2>5, <2>6, Zenon
<1> QED BY <1>12, <1>13, <1>14, Zenon DEF End

LEMMA NextAnswers ==
  ASSUME SmallSets, WakeInv, NEW g, Hctxs = {g}, MarkInv, [Next]_vars
  PROVE  MarkInv'
<1>1. IInv /\ MoveInv /\ MoveType /\ WakeType BY DEF WakeInv, IInv, MoveInv
<1>2. g \in Hctxs /\ g \in Threads BY DEF Threads
<1>3. todo \in [Requests -> Seq(Hctxs)] /\ \A r \in Requests : rphase[r] = "rerun" => todo[r] # <<>>
  BY Zenon DEF MarkInv
<1>4. ASSUME NEW t \in Threads, Step(t) PROVE MarkInv'
  <2>1. cur[t] = g BY <1>1 DEF MoveType
  <2>2. Leaves(t, g) /\ MarkStep(t, g) BY <1>1, <1>4, <2>1, StepLeaves, StepAnswers, Zenon
  <2> QED BY <2>2, ThreadAnswers, Zenon
<1>5. ASSUME NEW t \in Tasks, Submit(t) PROVE MarkInv'
  <2>1. /\ UNCHANGED <<work, stopped, qpc, todo, rphase, restart, inDriver, dispatch, more, ret>>
        /\ pc[t] = "idle" /\ t \in Threads
        /\ pc' = [pc EXCEPT ![t] = "kick"] \/ pc' = [pc EXCEPT ![t] = "direct"]
    BY <1>5, Zenon DEF Submit, InsertRequest, TryIssueDirectly, quiesce, ending, Goto, Threads
  <2>2. ~Retries(t) /\ ~Reruns(t) BY <2>1 DEF Retries, Reruns, Flight
  <2>3. \A x \in Threads : x # t => pc'[x] = pc[x] BY <1>1, <2>1, Zenon DEF MoveType
  <2>4. \A x \in Threads : (Retries(x) => Retries(x)') /\ (Reruns(x) => Reruns(x)')
    BY <2>1, <2>2, <2>3, Zenon DEF Retries, Reruns
  <2>5. (Flying => Flying') /\ (Shut(g) => Shut(g)') BY <2>1, Zenon DEF Flying, Shut
  <2>6. Answered(g) => Answered(g)' BY <2>1, <2>4, <2>5, Zenon DEF Answered
  <2> QED BY <1>2, <2>1, <2>6 DEF MarkInv
<1>6. ASSUME NEW h \in Hctxs, RunWork(h) PROVE MarkInv'
  <2>1. h = g BY <1>6
  <2>2. /\ UNCHANGED <<stopped, qpc, todo, rphase, restart, inDriver, dispatch, sched, cur, more, ret>>
        /\ pc[g] = "idle" /\ pc' = [pc EXCEPT ![g] = "start"]
    BY <1>6, <2>1, Zenon DEF RunWork, quiesce, ending, Goto
  <2>3. pc'[g] = "start" /\ \A x \in Threads : x # g => pc'[x] = pc[x] BY <1>1, <1>2, <2>2, Zenon DEF MoveType
  <2>4. Reruns(g)' BY <2>3, Zenon DEF Reruns
  <2>5. ~Retries(g) BY <2>2 DEF Retries, Flight
  <2>6. \A x \in Threads : Retries(x) => Retries(x)' BY <2>2, <2>3, <2>5, Zenon DEF Retries
  <2>7. Flying => Flying' BY <2>2, Zenon DEF Flying
  <2>8. Answered(g) => Answered(g)' BY <1>2, <2>2, <2>4, <2>6, <2>7, Zenon DEF Answered
  <2> QED BY <1>2, <2>2, <2>8 DEF MarkInv
<1>7. ASSUME NEW h \in Hctxs, StopHwQueue(h) \/ StartHwQueue(h) \/ QuiesceQueue(h) \/ Quiescing(h)
      PROVE  MarkInv'
  <2>1. UNCHANGED <<todo, rphase, restart, inDriver, dispatch, pc, ret>>
    BY <1>7, Zenon DEF StopHwQueue, StartHwQueue, QuiesceQueue, Quiescing, Quiesced, UnquiesceQueue,
                 RunAfterQuiesce, locals, ending
  <2>2. \A x \in Hctxs : HasPending(x) /\ Shut(x) => Shut(x)' BY <1>7, HctxComes, Zenon
  <2>3. Flying => Flying' BY <2>1, Zenon DEF Flying
  <2> QED BY <1>3, <2>1, <2>2, <2>3, OtherAnswers, Zenon
<1>8. ASSUME NEW r \in Requests, Complete(r) PROVE MarkInv'
  <2>1. UNCHANGED <<todo, restart, dispatch, pc, ret>> /\ rphase' = [rphase EXCEPT ![r] = "read"]
    BY <1>8, Zenon DEF Complete, EndRequest, locals
  <2>2. rphase'[r] = "read" /\ \A x \in Requests : x # r => rphase'[x] = rphase[x]
    BY <1>1, <2>1, Zenon DEF MoveType
  <2>3. \A x \in Requests : rphase'[x] = "rerun" => todo'[x] # <<>> BY <1>3, <2>1, <2>2
  <2>4. Flying' BY <2>2, Zenon DEF Flying
  <2>5. \A x \in Hctxs : HasPending(x) /\ Shut(x) => Shut(x)' BY <1>8, CompleteComes, Zenon
  <2> QED BY <1>3, <2>1, <2>3, <2>4, <2>5, OtherAnswers, Zenon
<1>9. CASE UNCHANGED vars
  <2>1. UNCHANGED <<todo, rphase, restart, inDriver, dispatch, pc, ret, work, stopped, qpc>>
    BY <1>9, Zenon DEF vars, locals, ending, quiesce
  <2>2. (Flying => Flying') /\ \A x \in Hctxs : Shut(x) => Shut(x)' BY <2>1, Zenon DEF Flying, Shut
  <2> QED BY <1>3, <2>1, <2>2, OtherAnswers, Zenon
<1> QED BY <1>4, <1>5, <1>6, <1>7, <1>8, <1>9, EndAnswers, Zenon DEF Next

====
