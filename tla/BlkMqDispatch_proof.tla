------------------------- MODULE BlkMqDispatch_proof -------------------------
(***************************************************************************)
(* Dispatching of blk-mq, for any number of hardware queues, tasks,        *)
(* requests and tags: a request is in one place, the driver has no request *)
(* without a driver tag, what waits holds none, shared_hctx_restart counts *)
(* the marks, a quiesced queue is not dispatched, and a queue with tags of *)
(* its own is never left with something to do and nobody to come.          *)
(***************************************************************************)
EXTENDS BlkMqDispatchMoves, BlkMqDispatchWakes, FiniteSetTheorems

-----------------------------------------------------------------------------
(* The tags.                                                               *)

\* A tag more or a tag less.
LEMMA TagCounts ==
  ASSUME TagCount
  PROVE  /\ \A x : x \in tagged \/ TagFree =>
              IsFiniteSet(tagged \cup {x}) /\ Cardinality(tagged \cup {x}) <= NTags
         /\ \A R : IsFiniteSet(tagged \ R) /\ Cardinality(tagged \ R) <= NTags
<1>1. IsFiniteSet(tagged) /\ Cardinality(tagged) \in Nat /\ Cardinality(tagged) <= NTags /\ NTags \in Nat
  BY FS_CardinalityType, TagsPositive, SMTT(20) DEF TagCount
<1>2. ASSUME NEW x, x \in tagged \/ TagFree
      PROVE  IsFiniteSet(tagged \cup {x}) /\ Cardinality(tagged \cup {x}) <= NTags
  <2>1. CASE x \in tagged
    <3>1. tagged \cup {x} = tagged BY <2>1
    <3> QED BY <1>1, <3>1
  <2>2. CASE x \notin tagged /\ TagFree
    <3>1. Cardinality(tagged \cup {x}) = Cardinality(tagged) + 1 /\ IsFiniteSet(tagged \cup {x})
      BY <1>1, <2>2, FS_AddElement
    <3> QED BY <1>1, <2>2, <3>1 DEF TagFree
  <2> QED BY <1>2, <2>1, <2>2
<1>3. ASSUME NEW R PROVE IsFiniteSet(tagged \ R) /\ Cardinality(tagged \ R) <= NTags
  <2>1. tagged \ R \subseteq tagged OBVIOUS
  <2>2. IsFiniteSet(tagged \ R) /\ Cardinality(tagged \ R) <= Cardinality(tagged)
    BY <1>1, <2>1, FS_Subset
  <2>3. Cardinality(tagged \ R) \in Nat BY <2>2, FS_CardinalityType
  <2> QED BY <1>1, <2>2, <2>3
<1> QED BY <1>2, <1>3, Zenon

LEMMA NextTagCount ==
  ASSUME TagCount, [Next]_vars
  PROVE  TagCount'
<1>1. TagMove BY NextTags
<1>2. CASE tagged' \subseteq tagged
  <2>1. tagged' = tagged \ (tagged \ tagged') BY <1>2
  <2>2. PICK R : tagged' = tagged \ R BY <2>1, Zenon
  <2> QED BY <2>2, TagCounts DEF TagCount
<1>3. ASSUME NEW x, x \in tagged \/ TagFree, tagged' = tagged \cup {x} PROVE TagCount'
  BY <1>3, TagCounts DEF TagCount
<1> QED BY <1>1, <1>2, <1>3 DEF TagMove

-----------------------------------------------------------------------------
(* The restart marks.                                                      *)

\* A step that leaves the marks alone.
LEMMA KeepsMarks ==
  ASSUME RestartInv, UNCHANGED <<restart, nrestart>>,
         \A t \in Threads : /\ pc'[t] = "count" <=> pc[t] = "count"
                            /\ pc[t] = "count" => cur'[t] = cur[t]
  PROVE  RestartInv'
<1>1. \A h : {t \in Threads : pc'[t] = "count" /\ cur'[t] = h} = {t \in Threads : pc[t] = "count" /\ cur[t] = h}
  BY Zenon
<1>2. RestartCounted' BY <1>1 DEF RestartInv, RestartCounted
<1>3. \A h : Uncounted(h)' = Uncounted(h) BY <1>1 DEF Uncounted
<1> QED BY <1>2, <1>3, Zenon DEF RestartInv

LEMMA MarkRestartInv ==
  ASSUME MoveType, RestartInv, NEW t \in Threads, MarkRestart(t)
  PROVE  RestartInv'
<1>1. PICK g \in Hctxs : g = cur[t] BY DEF MoveType
<1>2. /\ pc[t] = "mark" /\ nrestart' = nrestart /\ cur' = cur
      /\ restart' = [restart EXCEPT ![g] = TRUE]
      /\ pc' = [pc EXCEPT ![t] = IF Shared /\ ~restart[g] THEN "count" ELSE "tag"]
  BY <1>1, Zenon DEF MarkRestart, Goto
<1>3. restart \in [Hctxs -> BOOLEAN] /\ nrestart \in [Hctxs -> Int] /\ pc \in [Threads -> Reading \cup {"idle", "kick"}]
  BY DEF RestartInv, MoveType
<1>4. /\ restart' \in [Hctxs -> BOOLEAN] /\ restart'[g] /\ nrestart' \in [Hctxs -> Int]
      /\ \A h \in Hctxs : h # g => restart'[h] = restart[h]
  BY <1>2, <1>3
<1>5. \A h \in Hctxs : IsFiniteSet(Uncounted(h))
        /\ (Shared => nrestart[h] = (IF restart[h] THEN 1 ELSE 0) - Cardinality(Uncounted(h)))
  BY Zenon DEF RestartInv, RestartCounted, Uncounted
<1>6. CASE Shared /\ ~restart[g]
  <2>1. pc'[t] = "count" /\ \A x \in Threads : x # t => pc'[x] = pc[x] BY <1>2, <1>3, <1>6
  <2>2. Uncounted(g)' = Uncounted(g) \cup {t} /\ t \notin Uncounted(g) BY <1>1, <1>2, <2>1 DEF Uncounted
  <2>3. \A h \in Hctxs : h # g => Uncounted(h)' = Uncounted(h) BY <1>1, <1>2, <2>1 DEF Uncounted
  <2>4. IsFiniteSet(Uncounted(g)') /\ Cardinality(Uncounted(g)') = Cardinality(Uncounted(g)) + 1
        /\ Cardinality(Uncounted(g)) \in Nat
    BY <1>5, <2>2, FS_AddElement, FS_CardinalityType, SMTT(30)
  <2>5. nrestart'[g] = 1 - Cardinality(Uncounted(g)')
    <3>1. nrestart[g] = 0 - Cardinality(Uncounted(g)) BY <1>5, <1>6, Zenon
    <3> QED BY <1>2, <2>4, <3>1, SMTT(30)
  <2>6. \A h \in Hctxs : IsFiniteSet(Uncounted(h)') BY <1>5, <2>3, <2>4, Zenon
  <2>7. \A h \in Hctxs : nrestart'[h] = (IF restart'[h] THEN 1 ELSE 0) - Cardinality(Uncounted(h)')
    <3> TAKE h \in Hctxs
    <3>1. CASE h = g BY <1>4, <2>5, <3>1
    <3>2. CASE h # g BY <1>2, <1>4, <1>5, <1>6, <2>3, <3>2
    <3> QED BY <3>1, <3>2, Zenon
  <2>8. RestartCounted' BY <2>7, Zenon DEF RestartCounted, Uncounted
  <2> QED BY <1>4, <2>6, <2>8 DEF RestartInv
<1>7. CASE ~(Shared /\ ~restart[g])
  <2>1. \A x \in Threads : pc'[x] = "count" <=> pc[x] = "count" BY <1>2, <1>3, <1>7
  <2>2. \A h \in Hctxs : Uncounted(h)' = Uncounted(h) BY <1>2, <2>1, SMTT(20) DEF Uncounted
  <2>3. \A h \in Hctxs : Shared =>
           nrestart'[h] = (IF restart'[h] THEN 1 ELSE 0) - Cardinality(Uncounted(h)')
    BY <1>2, <1>4, <1>5, <1>7, <2>2
  <2>4. RestartCounted' BY <2>3 DEF RestartCounted, Uncounted
  <2> QED BY <1>4, <1>5, <2>2, <2>4 DEF RestartInv
<1> QED BY <1>6, <1>7

LEMMA CountRestartInv ==
  ASSUME MoveType, RestartInv, NEW t \in Threads, CountRestart(t)
  PROVE  RestartInv'
<1>1. PICK g \in Hctxs : g = cur[t] BY DEF MoveType
<1>2. /\ pc[t] = "count" /\ restart' = restart /\ cur' = cur
      /\ nrestart' = [nrestart EXCEPT ![g] = @ + 1]
      /\ pc' = [pc EXCEPT ![t] = "tag"]
  BY <1>1 DEF CountRestart, Goto
<1>3. restart \in [Hctxs -> BOOLEAN] /\ nrestart \in [Hctxs -> Int] /\ pc \in [Threads -> Reading \cup {"idle", "kick"}]
  BY DEF RestartInv, MoveType
<1>4. /\ restart' \in [Hctxs -> BOOLEAN] /\ nrestart' \in [Hctxs -> Int]
      /\ nrestart'[g] = nrestart[g] + 1
      /\ \A h \in Hctxs : h # g => nrestart'[h] = nrestart[h]
  BY <1>2, <1>3
<1>5. \A h \in Hctxs : IsFiniteSet(Uncounted(h))
        /\ (Shared => nrestart[h] = (IF restart[h] THEN 1 ELSE 0) - Cardinality(Uncounted(h)))
  BY DEF RestartInv, RestartCounted, Uncounted
<1>6. pc'[t] = "tag" /\ \A x \in Threads : x # t => pc'[x] = pc[x] BY <1>2, <1>3
<1>7. Uncounted(g)' = Uncounted(g) \ {t} /\ t \in Uncounted(g) BY <1>1, <1>2, <1>6 DEF Uncounted
<1>8. \A h \in Hctxs : h # g => Uncounted(h)' = Uncounted(h) BY <1>1, <1>2, <1>6, SMTT(20) DEF Uncounted
<1>9. IsFiniteSet(Uncounted(g)') /\ Cardinality(Uncounted(g)') = Cardinality(Uncounted(g)) - 1
      /\ Cardinality(Uncounted(g)) \in Nat
  BY <1>5, <1>7, FS_RemoveElement, FS_CardinalityType
<1>10. \A h \in Hctxs : Shared =>
           nrestart'[h] = (IF restart'[h] THEN 1 ELSE 0) - Cardinality(Uncounted(h)')
  <2> SUFFICES ASSUME NEW h \in Hctxs, Shared
               PROVE  nrestart'[h] = (IF restart'[h] THEN 1 ELSE 0) - Cardinality(Uncounted(h)')
    OBVIOUS
  <2>1. CASE h = g
    <3>1. PICK n \in 0..1 : n = IF restart[g] THEN 1 ELSE 0 OBVIOUS
    <3>2. nrestart[g] = n - Cardinality(Uncounted(g)) BY <1>5, <3>1, SMTT(20)
    <3>3. nrestart'[g] = n - Cardinality(Uncounted(g)') BY <1>4, <1>9, <3>2
    <3> QED BY <1>2, <2>1, <3>1, <3>3
  <2>2. CASE h # g BY <1>2, <1>4, <1>5, <1>8, <2>2
  <2> QED BY <2>1, <2>2, SMTT(20)
<1>11. RestartCounted' BY <1>10, Zenon DEF RestartCounted, Uncounted
<1>12. \A h \in Hctxs : IsFiniteSet(Uncounted(h)') BY <1>5, <1>8, <1>9
<1> QED BY <1>4, <1>11, <1>12 DEF RestartInv

\* blk_mq_sched_restart_hctx() takes the count down with the bit.
LEMMA ClearRestartInv ==
  ASSUME RestartInv, NEW h, restart[h], UNCHANGED <<pc, cur>>,
         restart' = [restart EXCEPT ![h] = FALSE],
         nrestart' = IF Shared THEN [nrestart EXCEPT ![h] = @ - 1] ELSE nrestart
  PROVE  RestartInv'
<1>1. restart \in [Hctxs -> BOOLEAN] /\ nrestart \in [Hctxs -> Int] BY DEF RestartInv
<1>2. restart' \in [Hctxs -> BOOLEAN] /\ nrestart' \in [Hctxs -> Int]
  <2>1. restart' \in [Hctxs -> BOOLEAN] BY <1>1, Zenon
  <2>2. CASE h \in Hctxs
    <3>1. nrestart[h] - 1 \in Int BY <1>1, <2>2
    <3> QED BY <1>1, <2>1, <3>1
  <2>3. CASE h \notin Hctxs
    <3>1. [nrestart EXCEPT ![h] = @ - 1] = nrestart BY <1>1, <2>3, SMTT(20)
    <3> QED BY <1>1, <2>1, <3>1
  <2> QED BY <2>2, <2>3
<1>3. \A g : Uncounted(g)' = Uncounted(g) BY DEF Uncounted
<1>4. \A g \in Hctxs : IsFiniteSet(Uncounted(g))
        /\ (Shared => nrestart[g] = (IF restart[g] THEN 1 ELSE 0) - Cardinality(Uncounted(g)))
  BY DEF RestartInv, RestartCounted, Uncounted
<1>5. \A g \in Hctxs : Shared =>
           nrestart'[g] = (IF restart'[g] THEN 1 ELSE 0) - Cardinality(Uncounted(g))
  <2> SUFFICES ASSUME NEW g \in Hctxs, Shared
               PROVE  nrestart'[g] = (IF restart'[g] THEN 1 ELSE 0) - Cardinality(Uncounted(g))
    OBVIOUS
  <2>1. Cardinality(Uncounted(g)) \in Nat BY <1>4, FS_CardinalityType
  <2>2. CASE h = g
    <3>1. nrestart[g] = 1 - Cardinality(Uncounted(g)) BY <1>4, <2>2
    <3>2. nrestart'[g] = nrestart[g] - 1 /\ ~restart'[g] BY <1>1, <2>2
    <3> QED BY <2>1, <3>1, <3>2, SMTT(20)
  <2>3. CASE h # g BY <1>1, <1>4, <2>3
  <2> QED BY <2>2, <2>3
<1>6. RestartCounted' BY <1>3, <1>5 DEF RestartCounted, Uncounted
<1>7. \A g \in Hctxs : IsFiniteSet(Uncounted(g)') BY <1>3, <1>4
<1> QED BY <1>2, <1>6, <1>7 DEF RestartInv

LEMMA NextMarks ==
  ASSUME MoveType, RestartInv, [Next]_vars
  PROVE  RestartInv'
<1>1. ASSUME NEW t \in Threads, Moves(t), UNCHANGED <<restart, nrestart>> PROVE RestartInv'
  BY <1>1, KeepsMarks, SMTT(20) DEF Moves, OnlyThread
<1>2. ASSUME UNCHANGED <<restart, nrestart, pc, cur>> PROVE RestartInv'
  BY <1>2, KeepsMarks
<1>3. ASSUME NEW t \in Tasks, Submit(t) PROVE RestartInv'
  <2>1. t \in Threads /\ UNCHANGED <<restart, nrestart>> /\ pc[t] = "idle"
        /\ (pc' = [pc EXCEPT ![t] = "kick"] \/ pc' = [pc EXCEPT ![t] = "direct"])
        /\ \E g : cur' = [cur EXCEPT ![t] = g]
    BY <1>3 DEF Submit, InsertRequest, TryIssueDirectly, Goto, Threads
  <2>2. \A x \in Threads : (pc'[x] = "count" <=> pc[x] = "count") /\ (pc[x] = "count" => cur'[x] = cur[x])
    BY <2>1 DEF MoveType
  <2> QED BY <2>1, <2>2, KeepsMarks
<1>4. ASSUME NEW t \in Threads, Step(t) PROVE RestartInv'
  <2>1. CASE MarkRestart(t) BY <2>1, MarkRestartInv
  <2>2. CASE CountRestart(t) BY <2>2, CountRestartInv, SMTT(20)
  <2>3. CASE MarkTagWait(t)
    <3>1. Moves(t) BY <2>3, StepMoves
    <3>2. CASE UNCHANGED restart BY <1>1, <2>3, <3>1, <3>2, Zenon DEF MarkTagWait
    <3>3. CASE ~Shared /\ restart' = [restart EXCEPT ![cur[t]] = TRUE]
      <4>1. nrestart' = nrestart BY <2>3 DEF MarkTagWait
      <4>2. restart' \in [Hctxs -> BOOLEAN] BY <3>3, Zenon DEF RestartInv
      <4>3. \A h : Uncounted(h)' = Uncounted(h) BY <3>1, Zenon DEF Uncounted, Moves, OnlyThread
      <4>4. RestartCounted' BY <3>3, Zenon DEF RestartCounted
      <4>5. \A h \in Hctxs : IsFiniteSet(Uncounted(h)') BY <4>3, Zenon DEF RestartInv
      <4>6. nrestart' \in [Hctxs -> Int] BY <4>1, Zenon DEF RestartInv
      <4> QED BY <4>2, <4>4, <4>5, <4>6, Zenon DEF RestartInv
    <3> QED BY <2>3, <3>2, <3>3, Zenon DEF MarkTagWait
  <2>4. CASE \/ RunHwQueue(t) \/ CheckDirect(t) \/ IssueDirectly(t) \/ RunSync(t)
             \/ StartDispatch(t) \/ TakeFromSched(t)
             \/ GetDriverTag(t) \/ RetryTag(t) \/ GetNextTag(t) \/ QueueRq(t)
             \/ SpliceBack(t) \/ CheckRestart(t)
    <3>1. Moves(t) BY <2>4, StepMoves
    <3>2. UNCHANGED <<restart, nrestart>>
      BY <2>4, Zenon DEF RunHwQueue, CheckDirect, IssueDirectly, RunSync, StartDispatch, TakeFromSched,
                  GetDriverTag, RetryTag, GetNextTag, QueueRq, SpliceBack, CheckRestart
    <3> QED BY <1>1, <3>1, <3>2
  <2> QED BY <1>4, <2>1, <2>2, <2>3, <2>4 DEF Step
<1>5. ASSUME NEW h \in Hctxs, RunWork(h) PROVE RestartInv'
  <2>1. UNCHANGED <<restart, nrestart, cur>> /\ pc[h] = "idle" /\ pc' = [pc EXCEPT ![h] = "start"]
    BY <1>5 DEF RunWork, Goto
  <2>2. \A x \in Threads : (pc'[x] = "count" <=> pc[x] = "count") BY <2>1 DEF MoveType
  <2> QED BY <2>1, <2>2, KeepsMarks
<1>6. ASSUME NEW h \in Hctxs, StopHwQueue(h) \/ StartHwQueue(h) \/ QuiesceQueue(h) \/ Quiescing(h)
      PROVE  RestartInv'
  <2>1. UNCHANGED <<restart, nrestart, pc, cur>>
    BY <1>6, Zenon DEF StopHwQueue, StartHwQueue, QuiesceQueue, Quiescing, Quiesced, UnquiesceQueue,
                RunAfterQuiesce, locals
  <2> QED BY <1>2, <2>1
<1>7. ASSUME NEW r \in Requests, Complete(r) PROVE RestartInv'
  <2>1. UNCHANGED <<restart, nrestart, pc, cur>> BY <1>7 DEF Complete, locals
  <2> QED BY <1>2, <2>1
<1>8. ASSUME NEW r \in Requests, End(r) PROVE RestartInv'
  <2>1. UNCHANGED <<pc, cur>> BY <1>8, Zenon DEF End, ReadRestart, ClearRestart, RestartHctx, locals
  <2>2. CASE UNCHANGED <<restart, nrestart>> BY <1>2, <2>1, <2>2
  <2>3. CASE ClearRestart(r) /\ ~UNCHANGED <<restart, nrestart>>
    <3>1. PICK h : /\ restart[h] /\ restart' = [restart EXCEPT ![h] = FALSE]
                   /\ nrestart' = IF Shared THEN [nrestart EXCEPT ![h] = @ - 1] ELSE nrestart
      BY <2>3 DEF ClearRestart
    <3> QED BY <2>1, <3>1, ClearRestartInv, Zenon
  <2> QED BY <1>8, <2>2, <2>3, Zenon DEF End, ReadRestart, RestartHctx
<1>9. CASE UNCHANGED vars BY <1>2, <1>9 DEF vars, locals
<1> QED BY <1>3, <1>4, <1>5, <1>6, <1>7, <1>8, <1>9 DEF Next

-----------------------------------------------------------------------------
(* The theorems.                                                           *)

\* The inductive invariant holds of every behaviour of the dispatching code.
THEOREM DispatchSafety == Spec => []IInv
<1>1. Init => IInv
  <2> SUFFICES ASSUME Init PROVE IInv OBVIOUS
  <2>1. MoveInv BY InitMove
  <2>2. \A h : Uncounted(h) = {} BY DEF Init, Uncounted
  <2>3. IsFiniteSet({}) /\ Cardinality({}) = 0 BY FS_EmptySet
  <2>4. \A h \in Hctxs : nrestart[h] = 0 /\ restart[h] = FALSE /\ Cardinality(Uncounted(h)) = 0
    BY <2>2, <2>3, Zenon DEF Init
  <2>5. RestartInv
    <3>1. restart \in [Hctxs -> BOOLEAN] /\ nrestart \in [Hctxs -> Int] BY DEF Init
    <3>2. RestartCounted BY <2>4, SMTT(30) DEF RestartCounted, Uncounted
    <3>3. \A h \in Hctxs : IsFiniteSet(Uncounted(h)) BY <2>2, <2>3
    <3> QED BY <3>1, <3>2, <3>3 DEF RestartInv
  <2>6. QuiesceInv BY DEF Init, QuiesceInv
  <2>7. TagCount BY <2>3, TagsPositive DEF Init, TagCount
  <2> QED BY <2>1, <2>5, <2>6, <2>7 DEF IInv
<1>2. IInv /\ [Next]_vars => IInv'
  <2> SUFFICES ASSUME IInv, [Next]_vars PROVE IInv' OBVIOUS
  <2>1. MoveInv /\ MoveType /\ TagCount /\ RestartInv /\ QuiesceInv BY DEF IInv, MoveInv
  <2> QED BY <2>1, NextMove, NextTagCount, NextMarks, NextQuiesced DEF IInv
<1> QED BY <1>1, <1>2, PTL DEF Spec

\* A live request is in exactly one place: the scheduler, hctx->dispatch, the
\* list of one thread, the driver or its own end; one that was freed is in none.
THEOREM RequestInOnePlace == Spec => []OnePlace
<1>1. IInv => OnePlace
  <2> SUFFICES ASSUME IInv, NEW r \in Requests
               PROVE  LET p == Places(r)
                          n == Cardinality(p.sched) + Cardinality(p.dispatch) + Cardinality(p.lists)
                               + Cardinality(p.driver) + Cardinality(p.ending)
                      IN  n = IF r \in live THEN 1 ELSE 0
    BY DEF OnePlace
  <2>1. Place(r) BY DEF IInv, MoveInv, PlaceInv
  <2>2. PICK g \in Hctxs : g = HctxOf[r] BY MapType
  <2>3. Cardinality({}) = 0 /\ \A x : Cardinality({x}) = 1 BY FS_EmptySet, FS_Singleton, Zenon
  <2>4. PICK a : a = {h \in Hctxs : r \in Range(sched[h])} BY Zenon
  <2>5. PICK b : b = {h \in Hctxs : r \in Range(dispatch[h])} BY Zenon
  <2>6. PICK c : c = {t \in Threads : r \in Range(list[t])} BY Zenon
  <2>7. PICK d : d = {0} \cap {IF r \in inDriver THEN 0 ELSE 1} BY Zenon
  <2>8. PICK e : e = {0} \cap {IF rphase[r] # "none" THEN 0 ELSE 1} BY Zenon
  <2>9. Cardinality(a) = IF InSched(g, r) THEN 1 ELSE 0
    <3>1. a = IF InSched(g, r) THEN {g} ELSE {} BY <2>1, <2>2, <2>4, Zenon DEF Place, InSched
    <3> QED BY <2>3, <3>1, Zenon
  <2>10. Cardinality(b) = IF InDispatch(g, r) THEN 1 ELSE 0
    <3>1. b = IF InDispatch(g, r) THEN {g} ELSE {} BY <2>1, <2>2, <2>5, Zenon DEF Place, InDispatch
    <3> QED BY <2>3, <3>1, Zenon
  <2>11. Cardinality(c) = IF \E t \in Threads : InList(t, r) THEN 1 ELSE 0
    <3>1. ASSUME NEW t \in Threads, InList(t, r) PROVE c = {t}
      BY <2>1, <2>6, <3>1, Zenon DEF Place, InList
    <3>2. (~\E t \in Threads : InList(t, r)) => c = {} BY <2>6, Zenon DEF InList
    <3> QED BY <2>3, <3>1, <3>2, Zenon
  <2>12. Cardinality(d) = IF r \in inDriver THEN 1 ELSE 0
    <3>1. CASE r \in inDriver
      <4>1. d = {0} BY <2>7, <3>1, Zenon
      <4> QED BY <2>3, <3>1, <4>1, Zenon
    <3>2. CASE ~(r \in inDriver)
      <4>1. d = {} BY <2>7, <3>2
      <4> QED BY <2>3, <3>2, <4>1
    <3> QED BY <3>1, <3>2
  <2>13. Cardinality(e) = IF Ending(r) THEN 1 ELSE 0
    <3>1. CASE Ending(r)
      <4>1. e = {0} BY <2>8, <3>1, Zenon DEF Ending
      <4> QED BY <2>3, <3>1, <4>1, Zenon
    <3>2. CASE ~Ending(r)
      <4>1. e = {} BY <2>8, <3>2 DEF Ending
      <4> QED BY <2>3, <3>2, <4>1
    <3> QED BY <3>1, <3>2
  <2>14. Cardinality(a) + Cardinality(b) + Cardinality(c) + Cardinality(d) + Cardinality(e)
           = IF r \in live THEN 1 ELSE 0
    <3>1. ~(InSched(g, r) /\ InDispatch(g, r)) /\ (Queued(r) <=> InSched(g, r) \/ InDispatch(g, r))
      BY <2>1, <2>2, Zenon DEF Place, Queued
    <3>2. /\ (\E t \in Threads : InList(t, r)) => ~Queued(r) /\ r \notin inDriver /\ ~Ending(r)
          /\ Queued(r) => r \notin inDriver /\ ~Ending(r)
          /\ r \in inDriver => ~Ending(r)
          /\ r \in live <=> (Queued(r) \/ (\E t \in Threads : InList(t, r)) \/ r \in inDriver \/ Ending(r))
      BY <2>1, Zenon DEF Place
    <3> QED BY <2>9, <2>10, <2>11, <2>12, <2>13, <3>1, <3>2
  <2> QED BY <2>4, <2>5, <2>6, <2>7, <2>8, <2>14, Zenon DEF Places
<1> QED BY <1>1, DispatchSafety, PTL

\* blk_mq_get_driver_tag() comes before every queue_rq: the driver holds no
\* request without a driver tag, and no more than the tag set has.
THEOREM DriverTagFirst == Spec => []DriverHasTag
<1>1. IInv => DriverHasTag
  <2> SUFFICES ASSUME IInv PROVE DriverHasTag OBVIOUS
  <2>1. inDriver \subseteq tagged BY DEF IInv, MoveInv, MoveType, TagInv, Tag
  <2> QED BY <2>1 DEF DriverHasTag, IInv, MoveInv, TagCount
<1> QED BY <1>1, DispatchSafety, PTL

\* Under a scheduler a request that waits on hctx->dispatch or in the scheduler
\* holds no driver tag, not even the one that was taken ahead for it.
THEOREM NoTagWhileWaiting == Spec => []WaitingHoldsNoTag
<1>1. IInv => WaitingHoldsNoTag
  <2> SUFFICES ASSUME IInv, elevator, NEW h \in Hctxs, NEW r \in Range(sched[h]) \cup Range(dispatch[h])
               PROVE  r \notin tagged
    BY DEF WaitingHoldsNoTag
  <2>1. sched[h] \in Seq(Requests) /\ dispatch[h] \in Seq(Requests) BY DEF IInv, MoveInv, MoveType
  <2>2. r \in Requests BY <2>1, ListElements, Zenon
  <2>3. Place(r) /\ Tag(r) BY <2>2, Zenon DEF IInv, MoveInv, PlaceInv, TagInv
  <2>4. Queued(r) BY <2>3, Zenon DEF Place, Queued, InSched, InDispatch
  <2> QED BY <2>3, <2>4 DEF Tag
<1> QED BY <1>1, DispatchSafety, PTL

\* shared_hctx_restart counts the hardware queues that are marked, but for the
\* marks whose atomic_inc() is still to come, whoever clears a mark meanwhile.
THEOREM RestartsAreCounted == Spec => []RestartCounted
<1>1. IInv => RestartCounted BY DEF IInv, RestartInv
<1> QED BY <1>1, DispatchSafety, PTL

\* After blk_mq_quiesce_queue() has returned, queue_rq is not called for the
\* queue until it is unquiesced: every thread that saw the flag clear was a
\* reader synchronize_rcu() waited for.
THEOREM QuiescedIsQuiet == Spec => NoDispatchWhenQuiesced
<1> DEFINE Held == \A h \in Hctxs : qpc[h] = "on" =>
            \A r \in Requests : HctxOf[r] = h =>
                /\ r \in inDriver' => r \in inDriver
                /\ rphase[r] = "none" /\ rphase'[r] # "none" => r \in inDriver
<1>1. IInv /\ [Next]_vars => Held
  <2> SUFFICES ASSUME IInv, [Next]_vars, NEW h \in Hctxs, qpc[h] = "on",
                      NEW r \in Requests, HctxOf[r] = h
               PROVE  /\ r \in inDriver' => r \in inDriver
                      /\ rphase[r] = "none" /\ rphase'[r] # "none" => r \in inDriver
    OBVIOUS
  <2>1. MoveInv /\ MoveType /\ QuiesceInv BY DEF IInv, MoveInv
  <2>2. \A t \in Threads : pc[t] \in Busy => cur[t] # h BY <2>1, Zenon DEF QuiesceInv
  <2>3. ASSUME NEW t \in Threads, pc[t] \in {"queue", "directq"} PROVE Head(list[t]) # r
    <3>1. pc[t] \in Busy /\ pc[t] \in Carrying BY <2>3 DEF Busy, Reading, Carrying
    <3>2. Head(list[t]) \in Requests /\ InList(t, Head(list[t])) BY <2>1, <3>1, HeadFacts
    <3>3. Head(list[t]) = r => cur[t] = h BY <2>1, <3>2, Zenon DEF MoveInv, PlaceInv, Place
    <3> QED BY <2>2, <3>1, <3>3
  <2>4. CASE UNCHANGED <<inDriver, rphase>> BY <2>4
  <2>5. ASSUME NEW t \in Threads, IssueDirectly(t) \/ QueueRq(t)
        PROVE  (r \in inDriver' => r \in inDriver) /\ rphase'[r] = rphase[r]
    <3>1. pc[t] \in {"queue", "directq"} BY <2>5, Zenon DEF IssueDirectly, QueueRq
    <3>2. PICK x : x = Head(list[t]) BY Zenon
    <3>3. x # r BY <2>3, <3>1, <3>2, Zenon
    <3>4. \/ inDriver' = inDriver \cup {x} /\ rphase' = rphase
          \/ inDriver' = inDriver /\ rphase' = [rphase EXCEPT ![x] = "read"]
          \/ inDriver' = inDriver /\ rphase' = rphase
      BY <2>5, <3>2, Zenon DEF IssueDirectly, QueueRq, EndRequest
    <3> QED BY <2>1, <3>3, <3>4 DEF MoveType
  <2>6. ASSUME NEW t \in Threads, Step(t), ~(IssueDirectly(t) \/ QueueRq(t))
        PROVE  UNCHANGED <<inDriver, rphase>>
    BY <2>6, Zenon DEF Step, RunHwQueue, CheckDirect, RunSync, StartDispatch, TakeFromSched,
                MarkRestart, CountRestart, GetDriverTag, MarkTagWait, RetryTag, GetNextTag,
                SpliceBack, CheckRestart, ending
  <2>7. ASSUME NEW t \in Tasks, Submit(t) PROVE UNCHANGED <<inDriver, rphase>>
    BY <2>7, Zenon DEF Submit, InsertRequest, TryIssueDirectly, ending
  <2>8. ASSUME NEW g \in Hctxs, RunWork(g) \/ StopHwQueue(g) \/ StartHwQueue(g) \/ QuiesceQueue(g)
                                \/ Quiescing(g)
        PROVE  UNCHANGED <<inDriver, rphase>>
    BY <2>8, Zenon DEF RunWork, StopHwQueue, StartHwQueue, QuiesceQueue, Quiescing, Quiesced,
                UnquiesceQueue, RunAfterQuiesce, ending
  <2>9. ASSUME NEW x \in Requests, Complete(x)
        PROVE  /\ r \in inDriver' => r \in inDriver
               /\ rphase[r] = "none" /\ rphase'[r] # "none" => r \in inDriver
    <3>1. /\ x \in inDriver /\ inDriver' = inDriver \ {x} /\ rphase' = [rphase EXCEPT ![x] = "read"]
      BY <2>9, Zenon DEF Complete, EndRequest
    <3> QED BY <2>1, <3>1, Zenon DEF MoveType
  <2>10. ASSUME NEW x \in Requests, End(x)
        PROVE  inDriver' = inDriver /\ (rphase[r] = "none" => rphase'[r] = "none")
    <3>1. inDriver' = inDriver /\ rphase[x] # "none" BY <2>10, Zenon DEF End, ReadRestart, ClearRestart, RestartHctx
    <3>2. rphase' = rphase \/ \E p : rphase' = [rphase EXCEPT ![x] = p]
      BY <2>10, Zenon DEF End, ReadRestart, ClearRestart, RestartHctx, Finish
    <3> QED BY <2>1, <3>1, <3>2, Zenon DEF MoveType
  <2>11. CASE UNCHANGED vars BY <2>4, <2>11, Zenon DEF vars, ending
  <2> QED BY <2>4, <2>5, <2>6, <2>7, <2>8, <2>9, <2>10, <2>11, Zenon DEF Next
<1>2. IInv /\ [Next]_vars => [Held]_vars BY <1>1
<1>3. Spec => [][Held]_vars BY <1>2, DispatchSafety, PTL DEF Spec
<1> QED BY <1>3 DEF NoDispatchWhenQuiesced

-----------------------------------------------------------------------------
(* What may be left behind.                                                *)

\* The invariant of who comes back holds of every behaviour.
THEOREM DispatchWakes == Spec => []WakeInv
<1>1. Init => WakeType /\ DispatchInv /\ SchedInv
  <2> SUFFICES ASSUME Init PROVE WakeType /\ DispatchInv /\ SchedInv OBVIOUS
  <2>1. /\ work \in [Hctxs -> BOOLEAN] /\ stopped \in [Hctxs -> BOOLEAN]
        /\ more \in [Threads -> BOOLEAN] /\ ret \in [Threads -> {"OK", "BUSY", "DEV_BUSY"}]
        /\ todo = [r \in Requests |-> todo[r]]
    BY DEF Init
  <2>2. \A h \in Hctxs : ~quiesced[h] /\ cur[h] = h BY Zenon DEF Init, Threads
  <2>3. \A t \in Threads : pc[t] = "idle" BY Zenon DEF Init
  <2>4. WakeType BY <2>1, <2>2, <2>3 DEF WakeType
  <2>5. \A h \in Hctxs : dispatch[h] = <<>> /\ sched[h] = <<>> BY Zenon DEF Init
  <2> QED BY <2>4, <2>5, Zenon DEF DispatchInv, SchedInv
<1>2. WakeInv /\ [Next]_vars => (WakeType /\ DispatchInv /\ SchedInv)' BY NextWakes
<1>3. WakeInv <=> IInv /\ (WakeType /\ DispatchInv /\ SchedInv) BY DEF WakeInv
<1> QED BY <1>1, <1>2, <1>3, DispatchSafety, PTL DEF Spec

\* However many queues share the tags, when all is quiet only what waits under
\* SCHED_RESTART on hctx->dispatch can be left: the runs of a queue, the second
\* look of blk_mq_dispatch_rq_list() after the splice, stopping, quiescing and
\* direct issue forget nothing.
THEOREM OnlyMarkedIsLeft == Spec => []LeftIsMarked
<1>1. WakeInv => LeftIsMarked BY QuietLeft, Zenon DEF LeftIsMarked
<1> QED BY <1>1, DispatchWakes, PTL

\* A queue with tags of its own is never left with something to do and nobody
\* to come back for it, whatever the driver answers, however often it is
\* stopped or quiesced and however many tasks issue to it: SCHED_RESTART is set
\* only while a request is in flight or a thread tries again.
THEOREM OwnTagsLeaveNothing == LoneQueue /\ Spec => []QuietMeansDone
<1> SUFFICES ASSUME NEW g, Hctxs = {g} PROVE Spec => []QuietMeansDone BY DEF LoneQueue
<1>1. Init => MarkInv
  <2> SUFFICES ASSUME Init PROVE MarkInv OBVIOUS
  <2>1. todo \in [Requests -> Seq(Hctxs)] BY DEF Init
  <2>2. \A r \in Requests : rphase[r] = "none" BY Zenon DEF Init
  <2>3. \A h \in Hctxs : ~restart[h] BY Zenon DEF Init
  <2> QED BY <2>1, <2>2, <2>3 DEF MarkInv
<1>2. WakeInv /\ MarkInv /\ [Next]_vars => MarkInv'
  <2>1. SmallSets BY FS_EmptySet, FS_Singleton, Zenon DEF SmallSets
  <2> QED BY <2>1, NextAnswers
<1>3. WakeInv /\ MarkInv => QuietMeansDone
  <2> SUFFICES ASSUME WakeInv, MarkInv, Quiet PROVE live = {} BY Zenon DEF QuietMeansDone, Quiet
  <2> SUFFICES ASSUME NEW r \in live PROVE FALSE OBVIOUS
  <2>1. PICK h \in Hctxs : restart[h] BY QuietLeft, Zenon
  <2>2. Answered(h) BY <2>1, Zenon DEF MarkInv
  <2>3. ~Flying BY DEF Quiet, Flying
  <2>4. ~Shut(h) BY Zenon DEF Quiet, Shut
  <2>5. \A t \in Threads : ~Retries(t) /\ ~Reruns(t)
    <3> TAKE t \in Threads
    <3>1. pc[t] = "idle" BY Zenon DEF Quiet
    <3> QED BY <3>1 DEF Retries, Reruns, Flight
  <2> QED BY <2>2, <2>3, <2>4, <2>5, Zenon DEF Answered
<1> QED BY <1>1, <1>2, <1>3, DispatchWakes, PTL DEF Spec

==============================================================================
