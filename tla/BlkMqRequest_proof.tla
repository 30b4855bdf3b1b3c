-------------------------- MODULE BlkMqRequest_proof --------------------------
(***************************************************************************)
(* Proofs about BlkMqRequest for any number of request structures and tags. *)
(* A request that the driver keeps once it has started it has one end.      *)
(***************************************************************************)
EXTENDS BlkMqRequest, TLAPS

-----------------------------------------------------------------------------
(* The inductive invariant.                                                *)

WithDevice == {"issued", "device", "silent"}

\* What the STARTED bit says about the place of a request.
StartedInv ==
    \A r \in Rqs :
        /\ rpc[r] \in {"free", "queued", "tag", "ready", "timer", "cleared", "requeued"}
             => ~started[r]
        /\ rpc[r] \in WithDevice \cup {"flag"} => started[r]

\* What the other two say: one that was just started is not late, and a request that
\* ends after the device had it is COMPLETE if it cannot be refused.
EndingInv ==
    \A r \in Rqs :
        /\ rpc[r] \in {"timer", "flag", "issued", "refused"} => ~late[r]
        /\ r \notin Refusable =>
             rpc[r] # "refused" /\ (rpc[r] \in {"ending", "untagged"} => complete[r])

\* What the worker knows about such a request when it looks at it, step by step.
WorkerInv ==
    cur \notin Refusable =>
        /\ tpc = "deadline" => complete[cur] \/ rpc[cur] \in WithDevice \cup {"flag"}
        /\ tpc = "mark" => complete[cur] \/ rpc[cur] \in WithDevice
        /\ tpc \in {"test", "call", "reset"} => complete[cur] /\ rpc[cur] \in WithDevice

IInv == TypeOK /\ StartedInv /\ EndingInv /\ WorkerInv /\ CompletionHeard

-----------------------------------------------------------------------------

\* The types hold initially and every step keeps them.
LEMMA TypeInductive ==
    /\ Init => TypeOK
    /\ TypeOK /\ [Next]_vars => TypeOK'
<1> USE NoneIsNew DEF TypeOK
<1>1. Init => TypeOK
  BY Zenon DEF Init, Places
<1>2. ASSUME TypeOK, [Next]_vars PROVE TypeOK'
  <2> USE DEF Places, Move, PutTag, Goes, AddTimer, bits, tagging, worker
  <2>1. ASSUME NEW r \in Rqs, Alloc(r) PROVE TypeOK'
    BY <1>2, <2>1 DEF Alloc
  <2>2. ASSUME NEW r \in Rqs, GetDriverTag(r) PROVE TypeOK'
    BY <1>2, <2>2 DEF GetDriverTag
  <2>3. ASSUME NEW r \in Rqs, SetRqs(r) PROVE TypeOK'
    BY <1>2, <2>3, Zenon DEF SetRqs
  <2>4. ASSUME NEW r \in Rqs, StartTimer(r) PROVE TypeOK'
    BY <1>2, <2>4 DEF StartTimer
  <2>5. ASSUME NEW r \in Rqs, SetStarted(r) PROVE TypeOK'
    BY <1>2, <2>5 DEF SetStarted
  <2>6. ASSUME NEW r \in Rqs, ClearComplete(r) PROVE TypeOK'
    BY <1>2, <2>6 DEF ClearComplete
  <2>7. ASSUME NEW r \in Rqs, Queued(r) PROVE TypeOK'
    BY <1>2, <2>7 DEF Queued
  <2>8. ASSUME NEW r \in Rqs, Busy(r) PROVE TypeOK'
    BY <1>2, <2>8 DEF Busy
  <2>9. ASSUME NEW r \in Rqs, Error(r) PROVE TypeOK'
    BY <1>2, <2>9 DEF Error
  <2>10. ASSUME NEW r \in Rqs, Lose(r) PROVE TypeOK'
    BY <1>2, <2>10 DEF Lose
  <2>11. ASSUME NEW r \in Rqs, CompleteRequest(r) PROVE TypeOK'
    BY <1>2, <2>11 DEF CompleteRequest
  <2>12. ASSUME NEW r \in Rqs, FinishRequest(r) PROVE TypeOK'
    BY <1>2, <2>12 DEF FinishRequest
  <2>13. ASSUME NEW r \in Rqs, FreeRequest(r) PROVE TypeOK'
    BY <1>2, <2>13 DEF FreeRequest
  <2>14. ASSUME NEW r \in Rqs, RequeueRequest(r) PROVE TypeOK'
    BY <1>2, <2>14 DEF RequeueRequest
  <2>15. ASSUME NEW r \in Rqs, ClearStarted(r) PROVE TypeOK'
    <3>1. CASE Move(r, "refused", "queued") /\ UNCHANGED requeueWork
      BY <1>2, <2>15, <3>1 DEF ClearStarted
    <3>2. CASE Move(r, "untagged", "requeued") /\ requeueWork' \in {requeueWork, TRUE}
      BY <1>2, <2>15, <3>2, Zenon DEF ClearStarted
    <3> QED
      BY <2>15, <3>1, <3>2, Zenon DEF ClearStarted
  <2>16. ASSUME NEW r \in Rqs, Expire(r) PROVE TypeOK'
    BY <1>2, <2>16 DEF Expire
  <2>17. ASSUME KickRequeueList PROVE TypeOK'
    BY <1>2, <2>17 DEF KickRequeueList
  <2>18. ASSUME RequeueWork PROVE TypeOK'
    BY <1>2, <2>18, Zenon DEF RequeueWork
  <2>19. ASSUME TimerFires PROVE TypeOK'
    BY <1>2, <2>19 DEF TimerFires
  <2>20. ASSUME TimeoutWork PROVE TypeOK'
    BY <1>2, <2>20, Zenon DEF TimeoutWork
  <2>21. ASSUME NEW t \in Tags, BtIter(t) PROVE TypeOK'
    BY <1>2, <2>21 DEF BtIter
  <2>22. ASSUME CheckDeadline PROVE TypeOK'
    BY <1>2, <2>22 DEF CheckDeadline
  <2>23. ASSUME MarkComplete PROVE TypeOK'
    BY <1>2, <2>23 DEF MarkComplete
  <2>24. ASSUME TestStarted PROVE TypeOK'
    BY <1>2, <2>24 DEF TestStarted
  <2>25. ASSUME TimedOut PROVE TypeOK'
    BY <1>2, <2>25 DEF TimedOut
  <2>26. ASSUME ResetTimer PROVE TypeOK'
    BY <1>2, <2>26 DEF ResetTimer
  <2>27. ASSUME ResetClear PROVE TypeOK'
    BY <1>2, <2>27 DEF ResetClear
  <2>28. ASSUME TimeoutDone PROVE TypeOK'
    BY <1>2, <2>28 DEF TimeoutDone
  <2>29. CASE UNCHANGED vars
    BY <1>2, <2>29 DEF vars
  <2> QED
    BY <1>2, <2>1, <2>2, <2>3, <2>4, <2>5, <2>6, <2>7, <2>8, <2>9, <2>10, <2>11, <2>12, Zenon,
    <2>13, <2>14, <2>15, <2>16, <2>17, <2>18, <2>19, <2>20, <2>21, <2>22, <2>23, <2>24,
    <2>25, <2>26, <2>27, <2>28, <2>29
      DEF Next, Issue, End, Timeout
<1> QED
  BY <1>1, <1>2

\* The types hold for ever.
THEOREM TypeCorrect == Spec => []TypeOK
BY TypeInductive, PTL DEF Spec

LEMMA InitIInv == Init => IInv
BY TypeInductive DEF Init, IInv, StartedInv, EndingInv, WorkerInv, CompletionHeard, WithDevice

-----------------------------------------------------------------------------
(* Each action preserves the invariant.                                    *)

LEMMA NextIInv ==
    ASSUME IInv, [Next]_vars
    PROVE  IInv'
<1> USE NoneIsNew, SomeRefusable DEF IInv
<1>t. TypeOK'
  BY TypeInductive
<1>1. ASSUME NEW r \in Rqs, Alloc(r) PROVE IInv'
  <2>1. StartedInv'
    BY <1>t, <1>1 DEF Alloc, Move, TypeOK, Places, StartedInv, EndingInv,
      WorkerInv, CompletionHeard, WithDevice, bits, tagging, worker
  <2>2. EndingInv'
    BY <1>t, <1>1 DEF Alloc, Move, TypeOK, Places, StartedInv, EndingInv,
      WorkerInv, CompletionHeard, WithDevice, bits, tagging, worker
  <2>3. WorkerInv'
    BY <1>t, <1>1 DEF Alloc, Move, TypeOK, Places, StartedInv, EndingInv,
      WorkerInv, CompletionHeard, WithDevice, bits, tagging, worker
  <2>4. CompletionHeard'
    BY <1>t, <1>1 DEF Alloc, Move, TypeOK, Places, StartedInv, EndingInv,
      WorkerInv, CompletionHeard, WithDevice, bits, tagging, worker
  <2> QED
    BY <1>t, <2>1, <2>2, <2>3, <2>4
<1>2. ASSUME NEW r \in Rqs, GetDriverTag(r) PROVE IInv'
  <2>1. StartedInv'
    BY <1>t, <1>2 DEF GetDriverTag, Move, TypeOK, Places, StartedInv, EndingInv,
      WorkerInv, CompletionHeard, WithDevice, bits, tagging, worker
  <2>2. EndingInv'
    BY <1>t, <1>2 DEF GetDriverTag, Move, TypeOK, Places, StartedInv, EndingInv,
      WorkerInv, CompletionHeard, WithDevice, bits, tagging, worker
  <2>3. WorkerInv'
    BY <1>t, <1>2 DEF GetDriverTag, Move, TypeOK, Places, StartedInv, EndingInv,
      WorkerInv, CompletionHeard, WithDevice, bits, tagging, worker
  <2>4. CompletionHeard'
    BY <1>t, <1>2 DEF GetDriverTag, Move, TypeOK, Places, StartedInv, EndingInv,
      WorkerInv, CompletionHeard, WithDevice, bits, tagging, worker
  <2> QED
    BY <1>t, <2>1, <2>2, <2>3, <2>4
<1>3. ASSUME NEW r \in Rqs, SetRqs(r) PROVE IInv'
  <2>1. StartedInv'
    BY <1>t, <1>3 DEF SetRqs, Move, TypeOK, Places, StartedInv, EndingInv,
      WorkerInv, CompletionHeard, WithDevice, bits, tagging, worker
  <2>2. EndingInv'
    BY <1>t, <1>3 DEF SetRqs, Move, TypeOK, Places, StartedInv, EndingInv,
      WorkerInv, CompletionHeard, WithDevice, bits, tagging, worker
  <2>3. WorkerInv'
    BY <1>t, <1>3 DEF SetRqs, Move, TypeOK, Places, StartedInv, EndingInv,
      WorkerInv, CompletionHeard, WithDevice, bits, tagging, worker
  <2>4. CompletionHeard'
    BY <1>t, <1>3 DEF SetRqs, Move, TypeOK, Places, StartedInv, EndingInv,
      WorkerInv, CompletionHeard, WithDevice, bits, tagging, worker
  <2> QED
    BY <1>t, <2>1, <2>2, <2>3, <2>4
<1>4. ASSUME NEW r \in Rqs, StartTimer(r) PROVE IInv'
  <2>1. StartedInv'
    BY <1>t, <1>4 DEF StartTimer, Move, AddTimer, TypeOK, Places, StartedInv, EndingInv,
      WorkerInv, CompletionHeard, WithDevice, bits, tagging, worker
  <2>2. EndingInv'
    BY <1>t, <1>4 DEF StartTimer, Move, AddTimer, TypeOK, Places, StartedInv, EndingInv,
      WorkerInv, CompletionHeard, WithDevice, bits, tagging, worker
  <2>3. WorkerInv'
    BY <1>t, <1>4 DEF StartTimer, Move, AddTimer, TypeOK, Places, StartedInv, EndingInv,
      WorkerInv, CompletionHeard, WithDevice, bits, tagging, worker
  <2>4. CompletionHeard'
    BY <1>t, <1>4 DEF StartTimer, Move, AddTimer, TypeOK, Places, StartedInv, EndingInv,
      WorkerInv, CompletionHeard, WithDevice, bits, tagging, worker
  <2> QED
    BY <1>t, <2>1, <2>2, <2>3, <2>4
<1>5. ASSUME NEW r \in Rqs, SetStarted(r) PROVE IInv'
  <2>1. StartedInv'
    BY <1>t, <1>5 DEF SetStarted, Move, TypeOK, Places, StartedInv, EndingInv,
      WorkerInv, CompletionHeard, WithDevice, bits, tagging, worker
  <2>2. EndingInv'
    BY <1>t, <1>5 DEF SetStarted, Move, TypeOK, Places, StartedInv, EndingInv,
      WorkerInv, CompletionHeard, WithDevice, bits, tagging, worker
  <2>3. WorkerInv'
    BY <1>t, <1>5 DEF SetStarted, Move, TypeOK, Places, StartedInv, EndingInv,
      WorkerInv, CompletionHeard, WithDevice, bits, tagging, worker
  <2>4. CompletionHeard'
    BY <1>t, <1>5 DEF SetStarted, Move, TypeOK, Places, StartedInv, EndingInv,
      WorkerInv, CompletionHeard, WithDevice, bits, tagging, worker
  <2> QED
    BY <1>t, <2>1, <2>2, <2>3, <2>4
<1>6. ASSUME NEW r \in Rqs, ClearComplete(r) PROVE IInv'
  <2>1. StartedInv'
    BY <1>t, <1>6 DEF ClearComplete, Move, TypeOK, Places, StartedInv, EndingInv,
      WorkerInv, CompletionHeard, WithDevice, bits, tagging, worker
  <2>2. EndingInv'
    BY <1>t, <1>6 DEF ClearComplete, Move, TypeOK, Places, StartedInv, EndingInv,
      WorkerInv, CompletionHeard, WithDevice, bits, tagging, worker
  <2>3. WorkerInv'
    BY <1>t, <1>6 DEF ClearComplete, Move, TypeOK, Places, StartedInv, EndingInv,
      WorkerInv, CompletionHeard, WithDevice, bits, tagging, worker
  <2>4. CompletionHeard'
    BY <1>t, <1>6 DEF ClearComplete, Move, TypeOK, Places, StartedInv, EndingInv,
      WorkerInv, CompletionHeard, WithDevice, bits, tagging, worker
  <2> QED
    BY <1>t, <2>1, <2>2, <2>3, <2>4
<1>7. ASSUME NEW r \in Rqs, Queued(r) PROVE IInv'
  <2>1. StartedInv'
    BY <1>t, <1>7 DEF Queued, Move, TypeOK, Places, StartedInv, EndingInv,
      WorkerInv, CompletionHeard, WithDevice, bits, tagging, worker
  <2>2. EndingInv'
    BY <1>t, <1>7 DEF Queued, Move, TypeOK, Places, StartedInv, EndingInv,
      WorkerInv, CompletionHeard, WithDevice, bits, tagging, worker
  <2>3. WorkerInv'
    BY <1>t, <1>7 DEF Queued, Move, TypeOK, Places, StartedInv, EndingInv,
      WorkerInv, CompletionHeard, WithDevice, bits, tagging, worker
  <2>4. CompletionHeard'
    BY <1>t, <1>7 DEF Queued, Move, TypeOK, Places, StartedInv, EndingInv,
      WorkerInv, CompletionHeard, WithDevice, bits, tagging, worker
  <2> QED
    BY <1>t, <2>1, <2>2, <2>3, <2>4
<1>8. ASSUME NEW r \in Rqs, Busy(r) PROVE IInv'
  <2>1. StartedInv'
    BY <1>t, <1>8 DEF Busy, Move, PutTag, TypeOK, Places, StartedInv, EndingInv,
      WorkerInv, CompletionHeard, WithDevice, bits, tagging, worker
  <2>2. EndingInv'
    BY <1>t, <1>8 DEF Busy, Move, PutTag, TypeOK, Places, StartedInv, EndingInv,
      WorkerInv, CompletionHeard, WithDevice, bits, tagging, worker
  <2>3. WorkerInv'
    BY <1>t, <1>8 DEF Busy, Move, PutTag, TypeOK, Places, StartedInv, EndingInv,
      WorkerInv, CompletionHeard, WithDevice, bits, tagging, worker
  <2>4. CompletionHeard'
    BY <1>t, <1>8 DEF Busy, Move, PutTag, TypeOK, Places, StartedInv, EndingInv,
      WorkerInv, CompletionHeard, WithDevice, bits, tagging, worker
  <2> QED
    BY <1>t, <2>1, <2>2, <2>3, <2>4
<1>9. ASSUME NEW r \in Rqs, Error(r) PROVE IInv'
  <2>1. StartedInv'
    BY <1>t, <1>9 DEF Error, Move, TypeOK, Places, StartedInv, EndingInv,
      WorkerInv, CompletionHeard, WithDevice, bits, tagging, worker
  <2>2. EndingInv'
    BY <1>t, <1>9 DEF Error, Move, TypeOK, Places, StartedInv, EndingInv,
      WorkerInv, CompletionHeard, WithDevice, bits, tagging, worker
  <2>3. WorkerInv'
    BY <1>t, <1>9 DEF Error, Move, TypeOK, Places, StartedInv, EndingInv,
      WorkerInv, CompletionHeard, WithDevice, bits, tagging, worker
  <2>4. CompletionHeard'
    BY <1>t, <1>9 DEF Error, Move, TypeOK, Places, StartedInv, EndingInv,
      WorkerInv, CompletionHeard, WithDevice, bits, tagging, worker
  <2> QED
    BY <1>t, <2>1, <2>2, <2>3, <2>4
<1>10. ASSUME NEW r \in Rqs, Lose(r) PROVE IInv'
  <2>1. StartedInv'
    BY <1>t, <1>10 DEF Lose, Move, TypeOK, Places, StartedInv, EndingInv,
      WorkerInv, CompletionHeard, WithDevice, bits, tagging, worker
  <2>2. EndingInv'
    BY <1>t, <1>10 DEF Lose, Move, TypeOK, Places, StartedInv, EndingInv,
      WorkerInv, CompletionHeard, WithDevice, bits, tagging, worker
  <2>3. WorkerInv'
    BY <1>t, <1>10 DEF Lose, Move, TypeOK, Places, StartedInv, EndingInv,
      WorkerInv, CompletionHeard, WithDevice, bits, tagging, worker
  <2>4. CompletionHeard'
    BY <1>t, <1>10 DEF Lose, Move, TypeOK, Places, StartedInv, EndingInv,
      WorkerInv, CompletionHeard, WithDevice, bits, tagging, worker
  <2> QED
    BY <1>t, <2>1, <2>2, <2>3, <2>4
<1>11. ASSUME NEW r \in Rqs, CompleteRequest(r) PROVE IInv'
  <2>1. StartedInv'
    BY <1>t, <1>11 DEF CompleteRequest, Move, TypeOK, Places, StartedInv, EndingInv,
      WorkerInv, CompletionHeard, WithDevice, bits, tagging, worker
  <2>2. EndingInv'
    BY <1>t, <1>11 DEF CompleteRequest, Move, TypeOK, Places, StartedInv, EndingInv,
      WorkerInv, CompletionHeard, WithDevice, bits, tagging, worker
  <2>3. WorkerInv'
    BY <1>t, <1>11 DEF CompleteRequest, Move, TypeOK, Places, StartedInv, EndingInv,
      WorkerInv, CompletionHeard, WithDevice, bits, tagging, worker
  <2>4. CompletionHeard'
    BY <1>t, <1>11 DEF CompleteRequest, Move, TypeOK, Places, StartedInv, EndingInv,
      WorkerInv, CompletionHeard, WithDevice, bits, tagging, worker
  <2> QED
    BY <1>t, <2>1, <2>2, <2>3, <2>4
<1>12. ASSUME NEW r \in Rqs, FinishRequest(r) PROVE IInv'
  <2>1. StartedInv'
    BY <1>t, <1>12 DEF FinishRequest, Move, TypeOK, Places, StartedInv, EndingInv,
      WorkerInv, CompletionHeard, WithDevice, bits, tagging, worker
  <2>2. EndingInv'
    BY <1>t, <1>12 DEF FinishRequest, Move, TypeOK, Places, StartedInv, EndingInv,
      WorkerInv, CompletionHeard, WithDevice, bits, tagging, worker
  <2>3. WorkerInv'
    BY <1>t, <1>12 DEF FinishRequest, Move, TypeOK, Places, StartedInv, EndingInv,
      WorkerInv, CompletionHeard, WithDevice, bits, tagging, worker
  <2>4. CompletionHeard'
    BY <1>t, <1>12 DEF FinishRequest, Move, TypeOK, Places, StartedInv, EndingInv,
      WorkerInv, CompletionHeard, WithDevice, bits, tagging, worker
  <2> QED
    BY <1>t, <2>1, <2>2, <2>3, <2>4
<1>13. ASSUME NEW r \in Rqs, FreeRequest(r) PROVE IInv'
  <2>1. StartedInv'
    BY <1>t, <1>13 DEF FreeRequest, Move, PutTag, TypeOK, Places, StartedInv, EndingInv,
      WorkerInv, CompletionHeard, WithDevice, bits, tagging, worker
  <2>2. EndingInv'
    BY <1>t, <1>13 DEF FreeRequest, Move, PutTag, TypeOK, Places, StartedInv, EndingInv,
      WorkerInv, CompletionHeard, WithDevice, bits, tagging, worker
  <2>3. WorkerInv'
    BY <1>t, <1>13 DEF FreeRequest, Move, PutTag, TypeOK, Places, StartedInv, EndingInv,
      WorkerInv, CompletionHeard, WithDevice, bits, tagging, worker
  <2>4. CompletionHeard'
    BY <1>t, <1>13 DEF FreeRequest, Move, PutTag, TypeOK, Places, StartedInv, EndingInv,
      WorkerInv, CompletionHeard, WithDevice, bits, tagging, worker
  <2> QED
    BY <1>t, <2>1, <2>2, <2>3, <2>4
<1>14. ASSUME NEW r \in Rqs, RequeueRequest(r) PROVE IInv'
  <2>1. StartedInv'
    BY <1>t, <1>14 DEF RequeueRequest, Move, PutTag, TypeOK, Places, StartedInv, EndingInv,
      WorkerInv, CompletionHeard, WithDevice, bits, tagging, worker
  <2>2. EndingInv'
    BY <1>t, <1>14 DEF RequeueRequest, Move, PutTag, TypeOK, Places, StartedInv, EndingInv,
      WorkerInv, CompletionHeard, WithDevice, bits, tagging, worker
  <2>3. WorkerInv'
    BY <1>t, <1>14 DEF RequeueRequest, Move, PutTag, TypeOK, Places, StartedInv, EndingInv,
      WorkerInv, CompletionHeard, WithDevice, bits, tagging, worker
  <2>4. CompletionHeard'
    BY <1>t, <1>14 DEF RequeueRequest, Move, PutTag, TypeOK, Places, StartedInv, EndingInv,
      WorkerInv, CompletionHeard, WithDevice, bits, tagging, worker
  <2> QED
    BY <1>t, <2>1, <2>2, <2>3, <2>4
<1>15. ASSUME NEW r \in Rqs, ClearStarted(r) PROVE IInv'
  <2>0. rpc' = [rpc EXCEPT ![r] = rpc'[r]] /\ rpc'[r] \in {"queued", "requeued"}
        /\ rpc[r] \in {"refused", "untagged"}
    <3>1. CASE Move(r, "refused", "queued")
      BY <3>1 DEF Move, TypeOK
    <3>2. CASE Move(r, "untagged", "requeued")
      BY <3>2 DEF Move, TypeOK
    <3> QED
      BY <1>15, <3>1, <3>2, Zenon DEF ClearStarted
  <2>1. StartedInv'
    BY <1>t, <1>15, <2>0 DEF ClearStarted, TypeOK, StartedInv, EndingInv, WorkerInv,
      CompletionHeard, WithDevice, tagging, worker
  <2>2. EndingInv'
    BY <1>t, <1>15, <2>0 DEF ClearStarted, TypeOK, StartedInv, EndingInv, WorkerInv,
      CompletionHeard, WithDevice, tagging, worker
  <2>3. WorkerInv'
    BY <1>t, <1>15, <2>0 DEF ClearStarted, TypeOK, StartedInv, EndingInv, WorkerInv,
      CompletionHeard, WithDevice, tagging, worker
  <2>4. CompletionHeard'
    BY <1>t, <1>15, <2>0 DEF ClearStarted, TypeOK, StartedInv, EndingInv, WorkerInv,
      CompletionHeard, WithDevice, tagging, worker
  <2> QED
    BY <1>t, <2>1, <2>2, <2>3, <2>4
<1>16. ASSUME NEW r \in Rqs, Expire(r) PROVE IInv'
  <2>1. StartedInv'
    BY <1>t, <1>16 DEF Expire, TypeOK, Places, StartedInv, EndingInv,
      WorkerInv, CompletionHeard, WithDevice, bits, tagging, worker
  <2>2. EndingInv'
    BY <1>t, <1>16 DEF Expire, TypeOK, Places, StartedInv, EndingInv,
      WorkerInv, CompletionHeard, WithDevice, bits, tagging, worker
  <2>3. WorkerInv'
    BY <1>t, <1>16 DEF Expire, TypeOK, Places, StartedInv, EndingInv,
      WorkerInv, CompletionHeard, WithDevice, bits, tagging, worker
  <2>4. CompletionHeard'
    BY <1>t, <1>16 DEF Expire, TypeOK, Places, StartedInv, EndingInv,
      WorkerInv, CompletionHeard, WithDevice, bits, tagging, worker
  <2> QED
    BY <1>t, <2>1, <2>2, <2>3, <2>4
<1>17. ASSUME KickRequeueList PROVE IInv'
  <2>1. StartedInv'
    BY <1>t, <1>17 DEF KickRequeueList, TypeOK, Places, StartedInv, EndingInv,
      WorkerInv, CompletionHeard, WithDevice, bits, tagging, worker
  <2>2. EndingInv'
    BY <1>t, <1>17 DEF KickRequeueList, TypeOK, Places, StartedInv, EndingInv,
      WorkerInv, CompletionHeard, WithDevice, bits, tagging, worker
  <2>3. WorkerInv'
    BY <1>t, <1>17 DEF KickRequeueList, TypeOK, Places, StartedInv, EndingInv,
      WorkerInv, CompletionHeard, WithDevice, bits, tagging, worker
  <2>4. CompletionHeard'
    BY <1>t, <1>17 DEF KickRequeueList, TypeOK, Places, StartedInv, EndingInv,
      WorkerInv, CompletionHeard, WithDevice, bits, tagging, worker
  <2> QED
    BY <1>t, <2>1, <2>2, <2>3, <2>4
<1>18. ASSUME RequeueWork PROVE IInv'
  <2>1. StartedInv'
    BY <1>t, <1>18 DEF RequeueWork, TypeOK, Places, StartedInv, EndingInv,
      WorkerInv, CompletionHeard, WithDevice, bits, tagging, worker
  <2>2. EndingInv'
    BY <1>t, <1>18 DEF RequeueWork, TypeOK, Places, StartedInv, EndingInv,
      WorkerInv, CompletionHeard, WithDevice, bits, tagging, worker
  <2>3. WorkerInv'
    BY <1>t, <1>18 DEF RequeueWork, TypeOK, Places, StartedInv, EndingInv,
      WorkerInv, CompletionHeard, WithDevice, bits, tagging, worker
  <2>4. CompletionHeard'
    BY <1>t, <1>18 DEF RequeueWork, TypeOK, Places, StartedInv, EndingInv,
      WorkerInv, CompletionHeard, WithDevice, bits, tagging, worker
  <2> QED
    BY <1>t, <2>1, <2>2, <2>3, <2>4
<1>19. ASSUME TimerFires PROVE IInv'
  <2>1. StartedInv'
    BY <1>t, <1>19 DEF TimerFires, TypeOK, Places, StartedInv, EndingInv,
      WorkerInv, CompletionHeard, WithDevice, bits, tagging, worker
  <2>2. EndingInv'
    BY <1>t, <1>19 DEF TimerFires, TypeOK, Places, StartedInv, EndingInv,
      WorkerInv, CompletionHeard, WithDevice, bits, tagging, worker
  <2>3. WorkerInv'
    BY <1>t, <1>19 DEF TimerFires, TypeOK, Places, StartedInv, EndingInv,
      WorkerInv, CompletionHeard, WithDevice, bits, tagging, worker
  <2>4. CompletionHeard'
    BY <1>t, <1>19 DEF TimerFires, TypeOK, Places, StartedInv, EndingInv,
      WorkerInv, CompletionHeard, WithDevice, bits, tagging, worker
  <2> QED
    BY <1>t, <2>1, <2>2, <2>3, <2>4
<1>20. ASSUME TimeoutWork PROVE IInv'
  <2>1. StartedInv'
    BY <1>t, <1>20 DEF TimeoutWork, TypeOK, Places, StartedInv, EndingInv,
      WorkerInv, CompletionHeard, WithDevice, bits, tagging, worker
  <2>2. EndingInv'
    BY <1>t, <1>20 DEF TimeoutWork, TypeOK, Places, StartedInv, EndingInv,
      WorkerInv, CompletionHeard, WithDevice, bits, tagging, worker
  <2>3. WorkerInv'
    BY <1>t, <1>20 DEF TimeoutWork, TypeOK, Places, StartedInv, EndingInv,
      WorkerInv, CompletionHeard, WithDevice, bits, tagging, worker
  <2>4. CompletionHeard'
    BY <1>t, <1>20 DEF TimeoutWork, TypeOK, Places, StartedInv, EndingInv,
      WorkerInv, CompletionHeard, WithDevice, bits, tagging, worker
  <2> QED
    BY <1>t, <2>1, <2>2, <2>3, <2>4
<1>21. ASSUME NEW t \in Tags, BtIter(t) PROVE IInv'
  <2>1. StartedInv'
    BY <1>t, <1>21 DEF BtIter, TypeOK, Places, StartedInv, EndingInv,
      WorkerInv, CompletionHeard, WithDevice, bits, tagging, worker
  <2>2. EndingInv'
    BY <1>t, <1>21 DEF BtIter, TypeOK, Places, StartedInv, EndingInv,
      WorkerInv, CompletionHeard, WithDevice, bits, tagging, worker
  <2>3. WorkerInv'
    BY <1>t, <1>21 DEF BtIter, TypeOK, Places, StartedInv, EndingInv,
      WorkerInv, CompletionHeard, WithDevice, bits, tagging, worker
  <2>4. CompletionHeard'
    BY <1>t, <1>21 DEF BtIter, TypeOK, Places, StartedInv, EndingInv,
      WorkerInv, CompletionHeard, WithDevice, bits, tagging, worker
  <2> QED
    BY <1>t, <2>1, <2>2, <2>3, <2>4
<1>22. ASSUME CheckDeadline PROVE IInv'
  <2>1. StartedInv'
    BY <1>t, <1>22 DEF CheckDeadline, Goes, TypeOK, Places, StartedInv, EndingInv,
      WorkerInv, CompletionHeard, WithDevice, bits, tagging, worker
  <2>2. EndingInv'
    BY <1>t, <1>22 DEF CheckDeadline, Goes, TypeOK, Places, StartedInv, EndingInv,
      WorkerInv, CompletionHeard, WithDevice, bits, tagging, worker
  <2>3. WorkerInv'
    BY <1>t, <1>22 DEF CheckDeadline, Goes, TypeOK, Places, StartedInv, EndingInv,
      WorkerInv, CompletionHeard, WithDevice, bits, tagging, worker
  <2>4. CompletionHeard'
    BY <1>t, <1>22 DEF CheckDeadline, Goes, TypeOK, Places, StartedInv, EndingInv,
      WorkerInv, CompletionHeard, WithDevice, bits, tagging, worker
  <2> QED
    BY <1>t, <2>1, <2>2, <2>3, <2>4
<1>23. ASSUME MarkComplete PROVE IInv'
  <2>1. StartedInv'
    BY <1>t, <1>23 DEF MarkComplete, Goes, TypeOK, Places, StartedInv, EndingInv,
      WorkerInv, CompletionHeard, WithDevice, bits, tagging, worker
  <2>2. EndingInv'
    BY <1>t, <1>23 DEF MarkComplete, Goes, TypeOK, Places, StartedInv, EndingInv,
      WorkerInv, CompletionHeard, WithDevice, bits, tagging, worker
  <2>3. WorkerInv'
    BY <1>t, <1>23 DEF MarkComplete, Goes, TypeOK, Places, StartedInv, EndingInv,
      WorkerInv, CompletionHeard, WithDevice, bits, tagging, worker
  <2>4. CompletionHeard'
    BY <1>t, <1>23 DEF MarkComplete, Goes, TypeOK, Places, StartedInv, EndingInv,
      WorkerInv, CompletionHeard, WithDevice, bits, tagging, worker
  <2> QED
    BY <1>t, <2>1, <2>2, <2>3, <2>4
<1>24. ASSUME TestStarted PROVE IInv'
  <2>1. StartedInv'
    BY <1>t, <1>24 DEF TestStarted, Goes, TypeOK, Places, StartedInv, EndingInv,
      WorkerInv, CompletionHeard, WithDevice, bits, tagging, worker
  <2>2. EndingInv'
    BY <1>t, <1>24 DEF TestStarted, Goes, TypeOK, Places, StartedInv, EndingInv,
      WorkerInv, CompletionHeard, WithDevice, bits, tagging, worker
  <2>3. WorkerInv'
    BY <1>t, <1>24 DEF TestStarted, Goes, TypeOK, Places, StartedInv, EndingInv,
      WorkerInv, CompletionHeard, WithDevice, bits, tagging, worker
  <2>4. CompletionHeard'
    BY <1>t, <1>24 DEF TestStarted, Goes, TypeOK, Places, StartedInv, EndingInv,
      WorkerInv, CompletionHeard, WithDevice, bits, tagging, worker
  <2> QED
    BY <1>t, <2>1, <2>2, <2>3, <2>4
<1>25. ASSUME TimedOut PROVE IInv'
  <2>1. StartedInv'
    BY <1>t, <1>25 DEF TimedOut, Goes, TypeOK, Places, StartedInv, EndingInv,
      WorkerInv, CompletionHeard, WithDevice, bits, tagging, worker
  <2>2. EndingInv'
    BY <1>t, <1>25 DEF TimedOut, Goes, TypeOK, Places, StartedInv, EndingInv,
      WorkerInv, CompletionHeard, WithDevice, bits, tagging, worker
  <2>3. WorkerInv'
    BY <1>t, <1>25 DEF TimedOut, Goes, TypeOK, Places, StartedInv, EndingInv,
      WorkerInv, CompletionHeard, WithDevice, bits, tagging, worker
  <2>4. CompletionHeard'
    BY <1>t, <1>25 DEF TimedOut, Goes, TypeOK, Places, StartedInv, EndingInv,
      WorkerInv, CompletionHeard, WithDevice, bits, tagging, worker
  <2> QED
    BY <1>t, <2>1, <2>2, <2>3, <2>4
<1>26. ASSUME ResetTimer PROVE IInv'
  <2>1. StartedInv'
    BY <1>t, <1>26 DEF ResetTimer, Goes, AddTimer, TypeOK, Places, StartedInv, EndingInv,
      WorkerInv, CompletionHeard, WithDevice, bits, tagging, worker
  <2>2. EndingInv'
    BY <1>t, <1>26 DEF ResetTimer, Goes, AddTimer, TypeOK, Places, StartedInv, EndingInv,
      WorkerInv, CompletionHeard, WithDevice, bits, tagging, worker
  <2>3. WorkerInv'
    BY <1>t, <1>26 DEF ResetTimer, Goes, AddTimer, TypeOK, Places, StartedInv, EndingInv,
      WorkerInv, CompletionHeard, WithDevice, bits, tagging, worker
  <2>4. CompletionHeard'
    BY <1>t, <1>26 DEF ResetTimer, Goes, AddTimer, TypeOK, Places, StartedInv, EndingInv,
      WorkerInv, CompletionHeard, WithDevice, bits, tagging, worker
  <2> QED
    BY <1>t, <2>1, <2>2, <2>3, <2>4
<1>27. ASSUME ResetClear PROVE IInv'
  <2>1. StartedInv'
    BY <1>t, <1>27 DEF ResetClear, Goes, TypeOK, Places, StartedInv, EndingInv,
      WorkerInv, CompletionHeard, WithDevice, bits, tagging, worker
  <2>2. EndingInv'
    BY <1>t, <1>27 DEF ResetClear, Goes, TypeOK, Places, StartedInv, EndingInv,
      WorkerInv, CompletionHeard, WithDevice, bits, tagging, worker
  <2>3. WorkerInv'
    BY <1>t, <1>27 DEF ResetClear, Goes, TypeOK, Places, StartedInv, EndingInv,
      WorkerInv, CompletionHeard, WithDevice, bits, tagging, worker
  <2>4. CompletionHeard'
    BY <1>t, <1>27 DEF ResetClear, Goes, TypeOK, Places, StartedInv, EndingInv,
      WorkerInv, CompletionHeard, WithDevice, bits, tagging, worker
  <2> QED
    BY <1>t, <2>1, <2>2, <2>3, <2>4
<1>28. ASSUME TimeoutDone PROVE IInv'
  <2>1. StartedInv'
    BY <1>t, <1>28 DEF TimeoutDone, TypeOK, Places, StartedInv, EndingInv,
      WorkerInv, CompletionHeard, WithDevice, bits, tagging, worker
  <2>2. EndingInv'
    BY <1>t, <1>28 DEF TimeoutDone, TypeOK, Places, StartedInv, EndingInv,
      WorkerInv, CompletionHeard, WithDevice, bits, tagging, worker
  <2>3. WorkerInv'
    BY <1>t, <1>28 DEF TimeoutDone, TypeOK, Places, StartedInv, EndingInv,
      WorkerInv, CompletionHeard, WithDevice, bits, tagging, worker
  <2>4. CompletionHeard'
    BY <1>t, <1>28 DEF TimeoutDone, TypeOK, Places, StartedInv, EndingInv,
      WorkerInv, CompletionHeard, WithDevice, bits, tagging, worker
  <2> QED
    BY <1>t, <2>1, <2>2, <2>3, <2>4
<1>29. CASE UNCHANGED vars
  BY <1>t, <1>29 DEF vars, StartedInv, EndingInv, WorkerInv, CompletionHeard,
    WithDevice, bits, tagging, worker
<1> QED
  BY <1>1, <1>2, <1>3, <1>4, <1>5, <1>6, <1>7, <1>8, <1>9, <1>10, <1>11, <1>12, <1>13, Zenon,
  <1>14, <1>15, <1>16, <1>17, <1>18, <1>19, <1>20, <1>21, <1>22, <1>23, <1>24, <1>25,
  <1>26, <1>27, <1>28, <1>29
    DEF Next, Issue, End, Timeout

LEMMA Inductive == Spec => []IInv
BY InitIInv, NextIInv, PTL DEF Spec

-----------------------------------------------------------------------------
(* The theorems.                                                           *)

\* While the driver's timeout handler runs for a request that queue_rq kept, nobody
\* else ends it, requeues it or starts it again (blk_mq_complete_request() against
\* blk_mq_rq_timed_out()).
THEOREM OneEnd == Spec => []TimeoutOwnsRequest
<1>1. IInv => TimeoutOwnsRequest
  BY DEF IInv, WorkerInv, TimeoutOwnsRequest, WithDevice
<1> QED
  BY <1>1, Inductive, PTL

\* The interrupt of a request the device has is not ignored.
THEOREM InterruptHeard == Spec => []CompletionHeard
<1>1. IInv => CompletionHeard
  BY DEF IInv
<1> QED
  BY <1>1, Inductive, PTL

\* A request that waits on a list or for a tag is not STARTED.
THEOREM WaitingIsNotStarted == Spec => []WaitingNotStarted
<1>1. IInv => WaitingNotStarted
  BY DEF IInv, StartedInv, WaitingNotStarted
<1> QED
  BY <1>1, Inductive, PTL
====
