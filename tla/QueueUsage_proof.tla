--------------------------- MODULE QueueUsage_proof ---------------------------
(***************************************************************************)
(* Proofs about QueueUsage for any number of submitters and freezers that   *)
(* all hold one mutex (SysfsLock) around their freeze.                      *)
(***************************************************************************)
EXTENDS QueueUsage, FiniteSetTheorems, TLAPS

-----------------------------------------------------------------------------
(* The inductive invariant.                                                *)

InUse == {s \in Submitters : spc[s] = "in"}

CountedFreezer == \E f \in Freezers : fpc[f] \in {"kill", "wait", "sleep", "frozen"}

CleanerDepth ==
    IF cpc \in {"idle", "dying", "start"} THEN 0
    ELSE IF cpc \in {"kill", "wake", "freeze"} THEN 1 ELSE 2

CleanerKilled == cpc \in {"wake", "freeze", "wait", "sleep", "drained", "dead"}

\* One mutex: a freezer is busy only while it holds it.
LockInv ==
    /\ \A f \in Freezers : fpc[f] # "idle" <=> holder[SysfsLock] = f
    /\ cpc \in {"dying", "start", "kill", "wake"} <=> holder[SysfsLock] = Cleaner

\* mq_freeze_depth counts the freezes in force, and the counter is killed
\* exactly while one is.
DepthInv ==
    /\ depth = (IF CountedFreezer THEN 1 ELSE 0) + CleanerDepth
    /\ killed <=> \/ CleanerKilled
                  \/ \E f \in Freezers : fpc[f] \in {"wait", "sleep", "frozen", "reinit"}
    /\ \A f \in Freezers : fpc[f] \in {"kill", "reinit", "wake"} => cpc = "idle"
    /\ dying <=> cpc \notin {"idle", "dying"}
    /\ gone <=> cpc = "dead"

\* q_usage_counter counts the requests in use, the timeout worker and, while it
\* is alive, its initial reference.
RefInv ==
    /\ refs = (IF killed THEN 0 ELSE 1) + Cardinality(InUse)
              + (IF tpc = "scan" THEN 1 ELSE 0)
    /\ hung \subseteq InUse
    /\ cpc \in {"drained", "dead"} => refs = 0
    /\ \A f \in Freezers : fpc[f] \in {"frozen", "reinit"} => refs = 0

IInv == TypeOK /\ LockInv /\ DepthInv /\ RefInv /\ NoLostWakeup

-----------------------------------------------------------------------------
(* Facts about the helpers.                                                *)

\* The requests in use are finitely many.
LEMMA InUseFinite == IsFiniteSet(InUse) /\ Cardinality(InUse) \in Nat
BY FiniteTasks, FS_Subset, FS_CardinalityType DEF InUse

-----------------------------------------------------------------------------

LEMMA InitIInv == Init => IInv
<1> SUFFICES ASSUME Init PROVE IInv
  OBVIOUS
<1>1. InUse = {}
  BY DEF Init, InUse
<1>2. Cardinality(InUse) = 0
  BY <1>1, FS_EmptySet
<1>3. TypeOK
  BY Zenon DEF Init, TypeOK, SubmitterPC, FreezerPC, CleanerPC
<1>4. LockInv /\ DepthInv
  BY LockTypes, TaskNames
  DEF Init, LockInv, DepthInv, CountedFreezer, CleanerDepth, CleanerKilled, Nobody, Cleaner
<1>5. RefInv
  BY <1>1, <1>2 DEF Init, RefInv
<1>6. NoLostWakeup
  BY Zenon DEF Init, NoLostWakeup
<1> QED
  BY <1>3, <1>4, <1>5, <1>6 DEF IInv

-----------------------------------------------------------------------------
(* Each action preserves the invariant.                                    *)

\* The single mutex all freezers hold.
OneMutex == \A f \in Freezers : LockOf[f] = SysfsLock

LEMMA NextIInv ==
    ASSUME OneMutex, IInv, [Next]_vars
    PROVE  IInv'
<1> USE DEF IInv
<1>c. Cardinality(InUse) \in Nat /\ IsFiniteSet(InUse)
  BY InUseFinite
<1>1. ASSUME NEW s \in Submitters, Submit(s) PROVE IInv'
  <2>1. InUse' = InUse
    BY <1>1 DEF Submit, InUse, TypeOK, SubmitterPC, FreezerPC, CleanerPC
  <2>2. Cardinality(InUse') = Cardinality(InUse)
    BY <2>1
  <2>3. TypeOK'
    BY <1>1 DEF Submit, TypeOK, SubmitterPC, FreezerPC, CleanerPC
  <2>4. LockInv'
    BY <1>1, LockTypes, TaskNames DEF Submit, TypeOK, LockInv, OneMutex, Nobody, Cleaner
  <2>5. DepthInv'
    BY <1>1, TaskNames DEF Submit, TypeOK, LockInv, DepthInv, CleanerDepth, CleanerKilled, CountedFreezer, Cleaner
  <2>6. RefInv'
    BY <1>1, <1>c, <2>1, <2>2, Zenon DEF Submit, TypeOK, RefInv, DepthInv, CleanerKilled
  <2>7. NoLostWakeup'
    BY <1>1 DEF Submit, TypeOK, NoLostWakeup, EnterCondition, MayPass, IsZero, DepthInv, LockInv
  <2> QED
    BY <2>3, <2>4, <2>5, <2>6, <2>7
<1>2. ASSUME NEW s \in Submitters, TryEnter(s) PROVE IInv'
  <2>1. \/ InUse' = InUse \cup {s} /\ s \notin InUse /\ refs' = refs + 1 /\ ~killed
        \/ InUse' = InUse /\ refs' = refs
    <3>1. CASE spc' = [spc EXCEPT ![s] = "in"] /\ refs' = refs + 1 /\ ~killed
      BY <1>2, <3>1 DEF TryEnter, InUse, TypeOK
    <3>2. CASE spc' = [spc EXCEPT ![s] = IF s \in Nowait THEN "idle" ELSE "wait"] /\ refs' = refs
      BY <1>2, <3>2 DEF TryEnter, InUse, TypeOK
    <3> QED
      BY <1>2, <3>1, <3>2, Zenon DEF TryEnter
  <2>2. \/ Cardinality(InUse') = Cardinality(InUse) + 1 /\ refs' = refs + 1 /\ ~killed
        \/ Cardinality(InUse') = Cardinality(InUse) /\ refs' = refs
    BY <2>1, <1>c, FS_AddElement, Zenon
  <2>3. TypeOK'
    BY <1>2 DEF TryEnter, TypeOK, SubmitterPC, FreezerPC, CleanerPC
  <2>4. LockInv'
    BY <1>2, LockTypes, TaskNames, Zenon DEF TryEnter, TypeOK, LockInv, OneMutex, Nobody, Cleaner
  <2>5. DepthInv'
    BY <1>2, TaskNames, Zenon DEF TryEnter, TypeOK, LockInv, DepthInv, CleanerDepth, CleanerKilled, CountedFreezer, Cleaner
  <2>6. RefInv'
    BY <1>2, <1>c, <2>1, <2>2 DEF TryEnter, TypeOK, RefInv, DepthInv, CleanerKilled
  <2>7. NoLostWakeup'
    BY <1>2 DEF TryEnter, TypeOK, NoLostWakeup, EnterCondition, MayPass, IsZero, DepthInv, LockInv
  <2> QED
    BY <2>3, <2>4, <2>5, <2>6, <2>7
<1>3. ASSUME NEW s \in Submitters, WaitToEnter(s) PROVE IInv'
  <2>1. InUse' = InUse
    BY <1>3 DEF WaitToEnter, InUse, TypeOK, SubmitterPC, FreezerPC, CleanerPC
  <2>2. Cardinality(InUse') = Cardinality(InUse)
    BY <2>1
  <2>3. TypeOK'
    BY <1>3 DEF WaitToEnter, TypeOK, SubmitterPC, FreezerPC, CleanerPC
  <2>4. LockInv'
    BY <1>3, LockTypes, TaskNames, Zenon DEF WaitToEnter, TypeOK, LockInv, OneMutex, Nobody, Cleaner
  <2>5. DepthInv'
    BY <1>3, TaskNames, Zenon DEF WaitToEnter, EnterCondition, MayPass, TypeOK, LockInv, DepthInv, CleanerDepth, CleanerKilled, CountedFreezer, Cleaner
  <2>6. RefInv'
    BY <1>3, <1>c, <2>1, <2>2, Zenon DEF WaitToEnter, EnterCondition, MayPass, TypeOK, RefInv, DepthInv, CleanerKilled
  <2>7. NoLostWakeup'
    BY <1>3 DEF WaitToEnter, TypeOK, NoLostWakeup, EnterCondition, MayPass, IsZero, DepthInv, LockInv
  <2> QED
    BY <2>3, <2>4, <2>5, <2>6, <2>7
<1>4. ASSUME NEW s \in Submitters, Hang(s) PROVE IInv'
  <2>1. InUse' = InUse
    BY <1>4 DEF Hang, InUse, TypeOK, SubmitterPC, FreezerPC, CleanerPC
  <2>2. Cardinality(InUse') = Cardinality(InUse)
    BY <2>1
  <2>3. TypeOK'
    BY <1>4, Zenon DEF Hang, TypeOK, SubmitterPC, FreezerPC, CleanerPC
  <2>4. LockInv'
    BY <1>4, LockTypes, TaskNames, Zenon DEF Hang, TypeOK, LockInv, OneMutex, Nobody, Cleaner
  <2>5. DepthInv'
    BY <1>4, TaskNames, Zenon DEF Hang, TypeOK, LockInv, DepthInv, CleanerDepth, CleanerKilled, CountedFreezer, Cleaner
  <2>6. RefInv'
    BY <1>4, <1>c, <2>1, <2>2, Zenon DEF Hang, TypeOK, RefInv, DepthInv, CleanerKilled, InUse
  <2>7. NoLostWakeup'
    BY <1>4 DEF Hang, TypeOK, NoLostWakeup, EnterCondition, MayPass, IsZero, DepthInv, LockInv
  <2> QED
    BY <2>3, <2>4, <2>5, <2>6, <2>7
<1>5. ASSUME NEW s \in Submitters, Exit(s) PROVE IInv'
  <2>1. InUse' = InUse \ {s} /\ s \in InUse
    BY <1>5 DEF Exit, LastPut, WokenS, WokenF, WokenC, InUse, TypeOK, RefInv, SubmitterPC, FreezerPC, CleanerPC
  <2>2. Cardinality(InUse') = Cardinality(InUse) - 1 /\ Cardinality(InUse') \in Nat
    BY <2>1, <1>c, FS_RemoveElement, FS_CardinalityType, Zenon
  <2>r. refs' \in Nat
    BY <1>5, <1>c, <2>2 DEF Exit, TypeOK, RefInv
  <2>3. TypeOK'
    BY <1>5, <2>r DEF Exit, LastPut, WokenS, WokenF, WokenC, TypeOK, SubmitterPC, FreezerPC, CleanerPC
  <2>4. LockInv'
    BY <1>5, LockTypes, TaskNames DEF Exit, LastPut, WokenS, WokenF, WokenC, TypeOK, LockInv, OneMutex, Nobody, Cleaner
  <2>5. DepthInv'
    BY <1>5, TaskNames DEF Exit, LastPut, WokenS, WokenF, WokenC, TypeOK, LockInv, DepthInv, CleanerDepth, CleanerKilled, CountedFreezer, Cleaner
  <2>6. RefInv'
    BY <1>5, <1>c, <2>1, <2>2 DEF Exit, LastPut, WokenS, WokenF, WokenC, TypeOK, RefInv, DepthInv, CleanerKilled
  <2>7. NoLostWakeup'
    BY <1>5 DEF Exit, LastPut, WokenS, WokenF, WokenC, TypeOK, NoLostWakeup, EnterCondition, MayPass, IsZero, DepthInv, LockInv
  <2> QED
    BY <2>3, <2>4, <2>5, <2>6, <2>7, Zenon
<1>6. ASSUME NEW s \in Submitters, TimeoutExpire(s) PROVE IInv'
  <2>1. InUse' = InUse \ {s} /\ s \in InUse
    BY <1>6 DEF TimeoutExpire, InUse, TypeOK, RefInv, SubmitterPC, FreezerPC, CleanerPC
  <2>2. Cardinality(InUse') = Cardinality(InUse) - 1 /\ Cardinality(InUse') \in Nat
    BY <2>1, <1>c, FS_RemoveElement, FS_CardinalityType, Zenon
  <2>r. refs' \in Nat
    BY <1>6, <1>c, <2>2 DEF TimeoutExpire, TypeOK, RefInv
  <2>3. TypeOK'
    BY <1>6, <2>r DEF TimeoutExpire, TypeOK, SubmitterPC, FreezerPC, CleanerPC
  <2>4. LockInv'
    BY <1>6, LockTypes, TaskNames, Zenon DEF TimeoutExpire, TypeOK, LockInv, OneMutex, Nobody, Cleaner
  <2>5. DepthInv'
    BY <1>6, TaskNames, Zenon DEF TimeoutExpire, TypeOK, LockInv, DepthInv, CleanerDepth, CleanerKilled, CountedFreezer, Cleaner
  <2>6. RefInv'
    BY <1>6, <1>c, <2>1, <2>2 DEF TimeoutExpire, TypeOK, RefInv, DepthInv, CleanerKilled
  <2>7. NoLostWakeup'
    BY <1>6, <1>c, <2>2 DEF TimeoutExpire, TypeOK, NoLostWakeup, EnterCondition, MayPass, IsZero, DepthInv, LockInv, RefInv
  <2> QED
    BY <2>3, <2>4, <2>5, <2>6, <2>7, Zenon
<1>7. ASSUME NEW f \in Freezers, LockFreezer(f) PROVE IInv'
  <2>1. InUse' = InUse
    BY <1>7 DEF LockFreezer, InUse, TypeOK, SubmitterPC, FreezerPC, CleanerPC
  <2>2. Cardinality(InUse') = Cardinality(InUse)
    BY <2>1
  <2>3. TypeOK'
    BY <1>7, LockTypes, Zenon DEF LockFreezer, TypeOK, SubmitterPC, FreezerPC, CleanerPC, Nobody, Cleaner
  <2>4. LockInv'
    BY <1>7, LockTypes, TaskNames DEF LockFreezer, TypeOK, LockInv, OneMutex, Nobody, Cleaner
  <2>5. DepthInv'
    BY <1>7, TaskNames DEF LockFreezer, TypeOK, LockInv, DepthInv, CleanerDepth, CleanerKilled, CountedFreezer, Cleaner
  <2>6. RefInv'
    BY <1>7, <1>c, <2>1, <2>2, Zenon DEF LockFreezer, TypeOK, RefInv, DepthInv, CleanerKilled
  <2>7. NoLostWakeup'
    BY <1>7 DEF LockFreezer, TypeOK, NoLostWakeup, EnterCondition, MayPass, IsZero, DepthInv, LockInv
  <2> QED
    BY <2>3, <2>4, <2>5, <2>6, <2>7, Zenon
<1>8. ASSUME NEW f \in Freezers, FreezeInc(f) PROVE IInv'
  <2>1. InUse' = InUse
    BY <1>8 DEF FreezeInc, InUse, TypeOK, SubmitterPC, FreezerPC, CleanerPC
  <2>2. Cardinality(InUse') = Cardinality(InUse)
    BY <2>1
  <2>3. TypeOK'
    BY <1>8 DEF FreezeInc, TypeOK, SubmitterPC, FreezerPC, CleanerPC
  <2>4. LockInv'
    BY <1>8, LockTypes, TaskNames, Zenon DEF FreezeInc, TypeOK, LockInv, OneMutex, Nobody, Cleaner
  <2>5. DepthInv'
    BY <1>8, TaskNames DEF FreezeInc, TypeOK, LockInv, DepthInv, CleanerDepth, CleanerKilled, CountedFreezer, Cleaner, CleanerPC, Nobody
  <2>6. RefInv'
    BY <1>8, <1>c, <2>1, <2>2, Zenon DEF FreezeInc, TypeOK, RefInv, DepthInv, CleanerKilled
  <2>7. NoLostWakeup'
    BY <1>8 DEF FreezeInc, TypeOK, NoLostWakeup, EnterCondition, MayPass, IsZero, DepthInv, LockInv
  <2> QED
    BY <2>3, <2>4, <2>5, <2>6, <2>7, Zenon
<1>9. ASSUME NEW f \in Freezers, FreezeKill(f) PROVE IInv'
  <2>1. InUse' = InUse
    BY <1>9 DEF FreezeKill, LastPut, WokenS, WokenF, WokenC, InUse, TypeOK, SubmitterPC, FreezerPC, CleanerPC
  <2>2. Cardinality(InUse') = Cardinality(InUse)
    BY <2>1
  <2>0. ~killed
    BY <1>9, TaskNames, Zenon DEF FreezeKill, TypeOK, LockInv, DepthInv, CleanerKilled, Cleaner
  <2>r. refs' \in Nat
    BY <1>9, <1>c, <2>2, <2>0 DEF FreezeKill, TypeOK, RefInv
  <2>3. TypeOK'
    BY <1>9, <2>r DEF FreezeKill, LastPut, WokenS, WokenF, WokenC, TypeOK, SubmitterPC, FreezerPC, CleanerPC
  <2>4. LockInv'
    BY <1>9, LockTypes, TaskNames DEF FreezeKill, LastPut, WokenS, WokenF, WokenC, TypeOK, LockInv, OneMutex, Nobody, Cleaner
  <2>5. DepthInv'
    BY <1>9, <2>0, TaskNames DEF FreezeKill, LastPut, WokenS, WokenF, WokenC, TypeOK, LockInv, DepthInv, CleanerDepth, CleanerKilled, CountedFreezer, Cleaner
  <2>6. RefInv'
    BY <1>9, <1>c, <2>1, <2>2, <2>0 DEF FreezeKill, LastPut, WokenS, WokenF, WokenC, TypeOK, RefInv, DepthInv, CleanerKilled
  <2>7. NoLostWakeup'
    BY <1>9 DEF FreezeKill, LastPut, WokenS, WokenF, WokenC, TypeOK, NoLostWakeup, EnterCondition, MayPass, IsZero, DepthInv, LockInv
  <2> QED
    BY <2>3, <2>4, <2>5, <2>6, <2>7, Zenon
<1>10. ASSUME NEW f \in Freezers, FreezeWait(f) PROVE IInv'
  <2>1. InUse' = InUse
    BY <1>10 DEF FreezeWait, InUse, TypeOK, SubmitterPC, FreezerPC, CleanerPC
  <2>2. Cardinality(InUse') = Cardinality(InUse)
    BY <2>1, Zenon
  <2>3. TypeOK'
    BY <1>10, Zenon DEF FreezeWait, TypeOK, SubmitterPC, FreezerPC, CleanerPC
  <2>4. LockInv'
    BY <1>10, LockTypes, TaskNames, Zenon DEF FreezeWait, TypeOK, LockInv, OneMutex, Nobody, Cleaner
  <2>5. DepthInv'
    BY <1>10, TaskNames, Zenon DEF FreezeWait, IsZero, TypeOK, LockInv, DepthInv, CleanerDepth, CleanerKilled, CountedFreezer, Cleaner
  <2>6. RefInv'
    BY <1>10, <1>c, <2>1, <2>2, Zenon DEF FreezeWait, IsZero, TypeOK, RefInv, DepthInv, CleanerKilled
  <2>7. NoLostWakeup'
    BY <1>10 DEF FreezeWait, TypeOK, NoLostWakeup, EnterCondition, MayPass, IsZero, DepthInv, LockInv
  <2> QED
    BY <2>3, <2>4, <2>5, <2>6, <2>7, Zenon
<1>11. ASSUME NEW f \in Freezers, UnfreezeDec(f) PROVE IInv'
  <2>1. InUse' = InUse
    BY <1>11 DEF UnfreezeDec, InUse, TypeOK, SubmitterPC, FreezerPC, CleanerPC
  <2>2. Cardinality(InUse') = Cardinality(InUse)
    BY <2>1, Zenon
  <2>3. TypeOK'
    BY <1>11 DEF UnfreezeDec, TypeOK, SubmitterPC, FreezerPC, CleanerPC, DepthInv, CleanerDepth, CountedFreezer
  <2>4. LockInv'
    BY <1>11, LockTypes, TaskNames, Zenon DEF UnfreezeDec, TypeOK, LockInv, OneMutex, Nobody, Cleaner
  <2>5. DepthInv'
    BY <1>11, TaskNames DEF UnfreezeDec, TypeOK, LockInv, DepthInv, CleanerDepth, CleanerKilled, CountedFreezer, Cleaner, CleanerPC, Nobody
  <2>6. RefInv'
    BY <1>11, <1>c, <2>1, <2>2, Zenon DEF UnfreezeDec, TypeOK, RefInv, DepthInv, CleanerKilled
  <2>7. NoLostWakeup'
    BY <1>11 DEF UnfreezeDec, TypeOK, NoLostWakeup, EnterCondition, MayPass, IsZero, DepthInv, LockInv
  <2> QED
    BY <2>3, <2>4, <2>5, <2>6, <2>7, Zenon
<1>12. ASSUME NEW f \in Freezers, UnfreezeReinit(f) PROVE IInv'
  <2>1. InUse' = InUse
    BY <1>12 DEF UnfreezeReinit, InUse, TypeOK, SubmitterPC, FreezerPC, CleanerPC
  <2>2. Cardinality(InUse') = Cardinality(InUse)
    BY <2>1, Zenon
  <2>0. killed /\ refs = 0 /\ (\A g \in Freezers \ {f} : fpc[g] = "idle") /\ cpc = "idle"
    BY <1>12, TaskNames, Zenon DEF UnfreezeReinit, TypeOK, LockInv, DepthInv, RefInv, Cleaner
  <2>r. refs' \in Nat
    BY <1>12, <1>c, <2>2, <2>0 DEF UnfreezeReinit, TypeOK, RefInv
  <2>3. TypeOK'
    BY <1>12, <2>r, Zenon DEF UnfreezeReinit, TypeOK, SubmitterPC, FreezerPC, CleanerPC
  <2>4. LockInv'
    BY <1>12, LockTypes, TaskNames, Zenon DEF UnfreezeReinit, TypeOK, LockInv, OneMutex, Nobody, Cleaner
  <2>5. DepthInv'
    BY <1>12, <2>0, TaskNames, Zenon DEF UnfreezeReinit, TypeOK, LockInv, DepthInv, CleanerDepth, CleanerKilled, CountedFreezer, Cleaner
  <2>6. RefInv'
    BY <1>12, <1>c, <2>1, <2>2, <2>0 DEF UnfreezeReinit, TypeOK, RefInv, DepthInv, CleanerKilled
  <2>7. NoLostWakeup'
    BY <1>12 DEF UnfreezeReinit, TypeOK, NoLostWakeup, EnterCondition, MayPass, IsZero, DepthInv, LockInv
  <2> QED
    BY <2>3, <2>4, <2>5, <2>6, <2>7, Zenon
<1>13. ASSUME NEW f \in Freezers, UnfreezeWake(f) PROVE IInv'
  <2>1. InUse' = InUse
    BY <1>13 DEF UnfreezeWake, LastPut, WokenS, WokenF, WokenC, InUse, TypeOK, SubmitterPC, FreezerPC, CleanerPC
  <2>2. Cardinality(InUse') = Cardinality(InUse)
    BY <2>1
  <2>3. TypeOK'
    BY <1>13 DEF UnfreezeWake, LastPut, WokenS, WokenF, WokenC, TypeOK, SubmitterPC, FreezerPC, CleanerPC
  <2>4. LockInv'
    BY <1>13, LockTypes, TaskNames, Zenon DEF UnfreezeWake, LastPut, WokenS, WokenF, WokenC, TypeOK, LockInv, OneMutex, Nobody, Cleaner
  <2>5. DepthInv'
    BY <1>13, TaskNames, Zenon DEF UnfreezeWake, LastPut, WokenS, WokenF, WokenC, TypeOK, LockInv, DepthInv, CleanerDepth, CleanerKilled, CountedFreezer, Cleaner
  <2>6. RefInv'
    BY <1>13, <1>c, <2>1, <2>2, Zenon DEF UnfreezeWake, LastPut, WokenS, WokenF, WokenC, TypeOK, RefInv, DepthInv, CleanerKilled
  <2>7. NoLostWakeup'
    BY <1>13 DEF UnfreezeWake, LastPut, WokenS, WokenF, WokenC, TypeOK, NoLostWakeup, EnterCondition, MayPass, IsZero, DepthInv, LockInv
  <2> QED
    BY <2>3, <2>4, <2>5, <2>6, <2>7, Zenon
<1>14. ASSUME NEW f \in Freezers, UnlockFreezer(f) PROVE IInv'
  <2>1. InUse' = InUse
    BY <1>14 DEF UnlockFreezer, InUse, TypeOK, SubmitterPC, FreezerPC, CleanerPC
  <2>2. Cardinality(InUse') = Cardinality(InUse)
    BY <2>1
  <2>3. TypeOK'
    BY <1>14, LockTypes, Zenon DEF UnlockFreezer, TypeOK, SubmitterPC, FreezerPC, CleanerPC, Nobody, Cleaner
  <2>4. LockInv'
    BY <1>14, LockTypes, TaskNames DEF UnlockFreezer, TypeOK, LockInv, OneMutex, Nobody, Cleaner
  <2>5. DepthInv'
    BY <1>14, TaskNames, Zenon DEF UnlockFreezer, TypeOK, LockInv, DepthInv, CleanerDepth, CleanerKilled, CountedFreezer, Cleaner
  <2>6. RefInv'
    BY <1>14, <1>c, <2>1, <2>2, Zenon DEF UnlockFreezer, TypeOK, RefInv, DepthInv, CleanerKilled
  <2>7. NoLostWakeup'
    BY <1>14 DEF UnlockFreezer, TypeOK, NoLostWakeup, EnterCondition, MayPass, IsZero, DepthInv, LockInv
  <2> QED
    BY <2>3, <2>4, <2>5, <2>6, <2>7, Zenon
<1>15. ASSUME TimeoutEnter PROVE IInv'
  <2>1. InUse' = InUse
    BY <1>15 DEF TimeoutEnter, InUse, TypeOK, SubmitterPC, FreezerPC, CleanerPC
  <2>2. Cardinality(InUse') = Cardinality(InUse)
    BY <2>1
  <2>3. TypeOK'
    BY <1>15 DEF TimeoutEnter, TypeOK, SubmitterPC, FreezerPC, CleanerPC
  <2>4. LockInv'
    BY <1>15, LockTypes, TaskNames, Zenon DEF TimeoutEnter, TypeOK, LockInv, OneMutex, Nobody, Cleaner
  <2>5. DepthInv'
    BY <1>15, TaskNames, Zenon DEF TimeoutEnter, IsZero, TypeOK, LockInv, DepthInv, CleanerDepth, CleanerKilled, CountedFreezer, Cleaner
  <2>6. RefInv'
    BY <1>15, <1>c, <2>1, <2>2 DEF TimeoutEnter, IsZero, TypeOK, RefInv, DepthInv, CleanerKilled
  <2>7. NoLostWakeup'
    BY <1>15 DEF TimeoutEnter, TypeOK, NoLostWakeup, EnterCondition, MayPass, IsZero, DepthInv, LockInv
  <2> QED
    BY <2>3, <2>4, <2>5, <2>6, <2>7, Zenon
<1>16. ASSUME TimeoutExit PROVE IInv'
  <2>1. InUse' = InUse
    BY <1>16 DEF TimeoutExit, LastPut, WokenS, WokenF, WokenC, InUse, TypeOK, SubmitterPC, FreezerPC, CleanerPC
  <2>2. Cardinality(InUse') = Cardinality(InUse)
    BY <2>1, Zenon
  <2>r. refs' \in Nat
    BY <1>16, <1>c, <2>2 DEF TimeoutExit, TypeOK, RefInv
  <2>3. TypeOK'
    BY <1>16, <2>r DEF TimeoutExit, LastPut, WokenS, WokenF, WokenC, TypeOK, SubmitterPC, FreezerPC, CleanerPC
  <2>4. LockInv'
    BY <1>16, LockTypes, TaskNames DEF TimeoutExit, LastPut, WokenS, WokenF, WokenC, TypeOK, LockInv, OneMutex, Nobody, Cleaner
  <2>5. DepthInv'
    BY <1>16, TaskNames DEF TimeoutExit, LastPut, WokenS, WokenF, WokenC, TypeOK, LockInv, DepthInv, CleanerDepth, CleanerKilled, CountedFreezer, Cleaner
  <2>6. RefInv'
    BY <1>16, <1>c, <2>1, <2>2 DEF TimeoutExit, LastPut, WokenS, WokenF, WokenC, TypeOK, RefInv, DepthInv, CleanerKilled
  <2>7. NoLostWakeup'
    BY <1>16 DEF TimeoutExit, LastPut, WokenS, WokenF, WokenC, TypeOK, NoLostWakeup, EnterCondition, MayPass, IsZero, DepthInv, LockInv
  <2> QED
    BY <2>3, <2>4, <2>5, <2>6, <2>7, Zenon
<1>17. ASSUME CleanupLock PROVE IInv'
  <2>1. InUse' = InUse
    BY <1>17 DEF CleanupLock, InUse, TypeOK, SubmitterPC, FreezerPC, CleanerPC
  <2>2. Cardinality(InUse') = Cardinality(InUse)
    BY <2>1, Zenon
  <2>3. TypeOK'
    BY <1>17, LockTypes, Zenon DEF CleanupLock, TypeOK, SubmitterPC, FreezerPC, CleanerPC, Nobody, Cleaner
  <2>4. LockInv'
    BY <1>17, LockTypes, TaskNames, Zenon DEF CleanupLock, TypeOK, LockInv, OneMutex, Nobody, Cleaner
  <2>5. DepthInv'
    BY <1>17, TaskNames DEF CleanupLock, TypeOK, LockInv, DepthInv, CleanerDepth, CleanerKilled, CountedFreezer, Cleaner, CleanerPC, Nobody
  <2>6. RefInv'
    BY <1>17, <1>c, <2>1, <2>2, Zenon DEF CleanupLock, TypeOK, RefInv, DepthInv, CleanerKilled
  <2>7. NoLostWakeup'
    BY <1>17 DEF CleanupLock, TypeOK, NoLostWakeup, EnterCondition, MayPass, IsZero, DepthInv, LockInv
  <2> QED
    BY <2>3, <2>4, <2>5, <2>6, <2>7, Zenon
<1>18. ASSUME SetDying PROVE IInv'
  <2>1. InUse' = InUse
    BY <1>18 DEF SetDying, InUse, TypeOK, SubmitterPC, FreezerPC, CleanerPC
  <2>2. Cardinality(InUse') = Cardinality(InUse)
    BY <2>1, Zenon
  <2>3. TypeOK'
    BY <1>18, Zenon DEF SetDying, TypeOK, SubmitterPC, FreezerPC, CleanerPC
  <2>4. LockInv'
    BY <1>18, LockTypes, TaskNames, Zenon DEF SetDying, TypeOK, LockInv, OneMutex, Nobody, Cleaner
  <2>5. DepthInv'
    BY <1>18, TaskNames, Zenon DEF SetDying, TypeOK, LockInv, DepthInv, CleanerDepth, CleanerKilled, CountedFreezer, Cleaner
  <2>6. RefInv'
    BY <1>18, <1>c, <2>1, <2>2, Zenon DEF SetDying, TypeOK, RefInv, DepthInv, CleanerKilled
  <2>7. NoLostWakeup'
    BY <1>18 DEF SetDying, TypeOK, NoLostWakeup, EnterCondition, MayPass, IsZero, DepthInv, LockInv
  <2> QED
    BY <2>3, <2>4, <2>5, <2>6, <2>7, Zenon
<1>19. ASSUME CleanupInc PROVE IInv'
  <2>1. InUse' = InUse
    BY <1>19 DEF CleanupInc, InUse, TypeOK, SubmitterPC, FreezerPC, CleanerPC
  <2>2. Cardinality(InUse') = Cardinality(InUse)
    BY <2>1, Zenon
  <2>3. TypeOK'
    BY <1>19 DEF CleanupInc, TypeOK, SubmitterPC, FreezerPC, CleanerPC
  <2>4. LockInv'
    BY <1>19, LockTypes, TaskNames, Zenon DEF CleanupInc, TypeOK, LockInv, OneMutex, Nobody, Cleaner
  <2>5. DepthInv'
    BY <1>19, TaskNames DEF CleanupInc, TypeOK, LockInv, DepthInv, CleanerDepth, CleanerKilled, CountedFreezer, Cleaner
  <2>6. RefInv'
    BY <1>19, <1>c, <2>1, <2>2, Zenon DEF CleanupInc, TypeOK, RefInv, DepthInv, CleanerKilled
  <2>7. NoLostWakeup'
    BY <1>19 DEF CleanupInc, TypeOK, NoLostWakeup, EnterCondition, MayPass, IsZero, DepthInv, LockInv
  <2> QED
    BY <2>3, <2>4, <2>5, <2>6, <2>7, Zenon
<1>20. ASSUME CleanupKill PROVE IInv'
  <2>1. InUse' = InUse
    BY <1>20 DEF CleanupKill, LastPut, WokenS, WokenF, WokenC, InUse, TypeOK, SubmitterPC, FreezerPC, CleanerPC
  <2>2. Cardinality(InUse') = Cardinality(InUse)
    BY <2>1, Zenon
  <2>0. ~killed
    BY <1>20, TaskNames, Zenon DEF CleanupKill, TypeOK, LockInv, DepthInv, CleanerKilled, Cleaner
  <2>r. refs' \in Nat
    BY <1>20, <1>c, <2>2, <2>0 DEF CleanupKill, TypeOK, RefInv
  <2>3. TypeOK'
    BY <1>20, <2>r DEF CleanupKill, LastPut, WokenS, WokenF, WokenC, TypeOK, SubmitterPC, FreezerPC, CleanerPC
  <2>4. LockInv'
    BY <1>20, LockTypes, TaskNames DEF CleanupKill, LastPut, WokenS, WokenF, WokenC, TypeOK, LockInv, OneMutex, Nobody, Cleaner
  <2>5. DepthInv'
    BY <1>20, <2>0, TaskNames DEF CleanupKill, LastPut, WokenS, WokenF, WokenC, TypeOK, LockInv, DepthInv, CleanerDepth, CleanerKilled, CountedFreezer, Cleaner
  <2>6. RefInv'
    BY <1>20, <1>c, <2>1, <2>2, <2>0 DEF CleanupKill, LastPut, WokenS, WokenF, WokenC, TypeOK, RefInv, DepthInv, CleanerKilled
  <2>7. NoLostWakeup'
    BY <1>20 DEF CleanupKill, LastPut, WokenS, WokenF, WokenC, TypeOK, NoLostWakeup, EnterCondition, MayPass, IsZero, DepthInv, LockInv
  <2> QED
    BY <2>3, <2>4, <2>5, <2>6, <2>7, Zenon
<1>21. ASSUME CleanupWake PROVE IInv'
  <2>1. InUse' = InUse
    BY <1>21 DEF CleanupWake, LastPut, WokenS, WokenF, WokenC, InUse, TypeOK, SubmitterPC, FreezerPC, CleanerPC
  <2>2. Cardinality(InUse') = Cardinality(InUse)
    BY <2>1, Zenon
  <2>3. TypeOK'
    BY <1>21, LockTypes, Zenon DEF CleanupWake, LastPut, WokenS, WokenF, WokenC, TypeOK, SubmitterPC, FreezerPC, CleanerPC, Nobody, Cleaner
  <2>4. LockInv'
    BY <1>21, LockTypes, TaskNames, Zenon DEF CleanupWake, LastPut, WokenS, WokenF, WokenC, TypeOK, LockInv, OneMutex, Nobody, Cleaner
  <2>5. DepthInv'
    BY <1>21, TaskNames, Zenon DEF CleanupWake, LastPut, WokenS, WokenF, WokenC, TypeOK, LockInv, DepthInv, CleanerDepth, CleanerKilled, CountedFreezer, Cleaner
  <2>6. RefInv'
    BY <1>21, <1>c, <2>1, <2>2, Zenon DEF CleanupWake, LastPut, WokenS, WokenF, WokenC, TypeOK, RefInv, DepthInv, CleanerKilled
  <2>7. NoLostWakeup'
    BY <1>21 DEF CleanupWake, LastPut, WokenS, WokenF, WokenC, TypeOK, NoLostWakeup, EnterCondition, MayPass, IsZero, DepthInv, LockInv
  <2> QED
    BY <2>3, <2>4, <2>5, <2>6, <2>7, Zenon
<1>22. ASSUME CleanupFreeze PROVE IInv'
  <2>1. InUse' = InUse
    BY <1>22 DEF CleanupFreeze, InUse, TypeOK, SubmitterPC, FreezerPC, CleanerPC
  <2>2. Cardinality(InUse') = Cardinality(InUse)
    BY <2>1, Zenon
  <2>3. TypeOK'
    BY <1>22 DEF CleanupFreeze, TypeOK, SubmitterPC, FreezerPC, CleanerPC
  <2>4. LockInv'
    BY <1>22, LockTypes, TaskNames, Zenon DEF CleanupFreeze, TypeOK, LockInv, OneMutex, Nobody, Cleaner
  <2>5. DepthInv'
    BY <1>22, TaskNames DEF CleanupFreeze, TypeOK, LockInv, DepthInv, CleanerDepth, CleanerKilled, CountedFreezer, Cleaner
  <2>6. RefInv'
    BY <1>22, <1>c, <2>1, <2>2, Zenon DEF CleanupFreeze, TypeOK, RefInv, DepthInv, CleanerKilled
  <2>7. NoLostWakeup'
    BY <1>22 DEF CleanupFreeze, TypeOK, NoLostWakeup, EnterCondition, MayPass, IsZero, DepthInv, LockInv
  <2> QED
    BY <2>3, <2>4, <2>5, <2>6, <2>7, Zenon
<1>23. ASSUME CleanupWait PROVE IInv'
  <2>1. InUse' = InUse
    BY <1>23 DEF CleanupWait, InUse, TypeOK, SubmitterPC, FreezerPC, CleanerPC
  <2>2. Cardinality(InUse') = Cardinality(InUse)
    BY <2>1, Zenon
  <2>3. TypeOK'
    BY <1>23, Zenon DEF CleanupWait, TypeOK, SubmitterPC, FreezerPC, CleanerPC
  <2>4. LockInv'
    BY <1>23, LockTypes, TaskNames, Zenon DEF CleanupWait, TypeOK, LockInv, OneMutex, Nobody, Cleaner
  <2>5. DepthInv'
    BY <1>23, TaskNames, Zenon DEF CleanupWait, IsZero, TypeOK, LockInv, DepthInv, CleanerDepth, CleanerKilled, CountedFreezer, Cleaner
  <2>6. RefInv'
    BY <1>23, <1>c, <2>1, <2>2, Zenon DEF CleanupWait, IsZero, TypeOK, RefInv, DepthInv, CleanerKilled
  <2>7. NoLostWakeup'
    BY <1>23 DEF CleanupWait, TypeOK, NoLostWakeup, EnterCondition, MayPass, IsZero, DepthInv, LockInv
  <2> QED
    BY <2>3, <2>4, <2>5, <2>6, <2>7, Zenon
<1>24. ASSUME SetDead PROVE IInv'
  <2>1. InUse' = InUse
    BY <1>24 DEF SetDead, InUse, TypeOK, SubmitterPC, FreezerPC, CleanerPC
  <2>2. Cardinality(InUse') = Cardinality(InUse)
    BY <2>1
  <2>3. TypeOK'
    BY <1>24 DEF SetDead, TypeOK, SubmitterPC, FreezerPC, CleanerPC
  <2>4. LockInv'
    BY <1>24, LockTypes, TaskNames, Zenon DEF SetDead, TypeOK, LockInv, OneMutex, Nobody, Cleaner
  <2>5. DepthInv'
    BY <1>24, TaskNames, Zenon DEF SetDead, TypeOK, LockInv, DepthInv, CleanerDepth, CleanerKilled, CountedFreezer, Cleaner
  <2>6. RefInv'
    BY <1>24, <1>c, <2>1, <2>2, Zenon DEF SetDead, TypeOK, RefInv, DepthInv, CleanerKilled
  <2>7. NoLostWakeup'
    BY <1>24 DEF SetDead, TypeOK, NoLostWakeup, EnterCondition, MayPass, IsZero, DepthInv, LockInv
  <2> QED
    BY <2>3, <2>4, <2>5, <2>6, <2>7, Zenon
<1>25. ASSUME SetPreemptOnly PROVE IInv'
  <2>1. InUse' = InUse
    BY <1>25 DEF SetPreemptOnly, InUse, TypeOK, SubmitterPC, FreezerPC, CleanerPC
  <2>2. Cardinality(InUse') = Cardinality(InUse)
    BY <2>1
  <2>3. TypeOK'
    BY <1>25 DEF SetPreemptOnly, TypeOK, SubmitterPC, FreezerPC, CleanerPC
  <2>4. LockInv'
    BY <1>25, LockTypes, TaskNames, Zenon DEF SetPreemptOnly, TypeOK, LockInv, OneMutex, Nobody, Cleaner
  <2>5. DepthInv'
    BY <1>25, TaskNames, Zenon DEF SetPreemptOnly, TypeOK, LockInv, DepthInv, CleanerDepth, CleanerKilled, CountedFreezer, Cleaner
  <2>6. RefInv'
    BY <1>25, <1>c, <2>1, <2>2, Zenon DEF SetPreemptOnly, TypeOK, RefInv, DepthInv, CleanerKilled
  <2>7. NoLostWakeup'
    BY <1>25 DEF SetPreemptOnly, TypeOK, NoLostWakeup, EnterCondition, MayPass, IsZero, DepthInv, LockInv
  <2> QED
    BY <2>3, <2>4, <2>5, <2>6, <2>7, Zenon
<1>26. ASSUME ClearPreemptOnly PROVE IInv'
  <2>1. InUse' = InUse
    BY <1>26 DEF ClearPreemptOnly, LastPut, WokenS, WokenF, WokenC, InUse, TypeOK, SubmitterPC, FreezerPC, CleanerPC
  <2>2. Cardinality(InUse') = Cardinality(InUse)
    BY <2>1
  <2>3. TypeOK'
    BY <1>26, Zenon DEF ClearPreemptOnly, LastPut, WokenS, WokenF, WokenC, TypeOK, SubmitterPC, FreezerPC, CleanerPC
  <2>4. LockInv'
    BY <1>26, LockTypes, TaskNames, Zenon DEF ClearPreemptOnly, LastPut, WokenS, WokenF, WokenC, TypeOK, LockInv, OneMutex, Nobody, Cleaner
  <2>5. DepthInv'
    BY <1>26, TaskNames, Zenon DEF ClearPreemptOnly, LastPut, WokenS, WokenF, WokenC, TypeOK, LockInv, DepthInv, CleanerDepth, CleanerKilled, CountedFreezer, Cleaner
  <2>6. RefInv'
    BY <1>26, <1>c, <2>1, <2>2, Zenon DEF ClearPreemptOnly, LastPut, WokenS, WokenF, WokenC, TypeOK, RefInv, DepthInv, CleanerKilled
  <2>7. NoLostWakeup'
    BY <1>26, Zenon DEF ClearPreemptOnly, LastPut, WokenS, WokenF, WokenC, TypeOK, NoLostWakeup, EnterCondition, MayPass, IsZero, DepthInv, LockInv
  <2> QED
    BY <2>3, <2>4, <2>5, <2>6, <2>7, Zenon
<1>27. CASE UNCHANGED vars
  BY <1>27 DEF vars, TypeOK, LockInv, DepthInv, RefInv, NoLostWakeup, InUse,
     CleanerDepth, CleanerKilled, CountedFreezer, EnterCondition, MayPass, IsZero
<1> QED
  BY <1>1, <1>2, <1>3, <1>4, <1>5, <1>6, <1>7, <1>8, <1>9, <1>10, <1>11, <1>12, <1>13, <1>14, <1>15, <1>16, <1>17, <1>18, <1>19, <1>20, <1>21, <1>22, <1>23, <1>24, <1>25, <1>26, <1>27, Zenon
  DEF Next, Enter, Leave, Timeout, Freeze, Cleanup, PreemptOnly

-----------------------------------------------------------------------------
(* The results.                                                            *)

LEMMA Inductive == OneMutex /\ Spec => []IInv
<1>1. ASSUME OneMutex PROVE Spec => []IInv
  <2>1. IInv /\ [Next]_vars => IInv'
    BY <1>1, NextIInv
  <2> QED
    BY <2>1, InitIInv, PTL DEF Spec
<1> QED
  BY <1>1

\* Type correctness: with one mutex, mq_freeze_depth and the reference count
\* never become negative.
THEOREM TypeCorrect == OneMutex /\ Spec => []TypeOK
<1>1. IInv => TypeOK
  BY DEF IInv
<1> QED
  BY <1>1, Inductive, PTL

\* blk_mq_freeze_queue() excludes every request and the timeout worker until
\* blk_mq_unfreeze_queue(), for any number of submitters and freezers.
THEOREM FrozenIsUnused == OneMutex /\ Spec => []FrozenMeansUnused
<1>1. ASSUME IInv PROVE FrozenMeansUnused
  <2> SUFFICES ASSUME NEW f \in Freezers, fpc[f] = "frozen"
               PROVE  (\A s \in Submitters : spc[s] # "in") /\ tpc = "idle"
    BY DEF FrozenMeansUnused
  <2>1. refs = 0 /\ TypeOK
    BY <1>1, Zenon DEF IInv, RefInv
  <2>2. Cardinality(InUse) = 0 /\ tpc = "idle"
    <3>1. 0 = (IF killed THEN 0 ELSE 1) + Cardinality(InUse) + (IF tpc = "scan" THEN 1 ELSE 0)
      BY <1>1, <2>1, Zenon DEF IInv, RefInv
    <3>2. tpc \in {"idle", "scan"}
      BY <2>1, Zenon DEF TypeOK
    <3> QED BY <3>1, <3>2, InUseFinite
  <2>3. InUse = {}
    BY <2>2, InUseFinite, FS_EmptySet
  <2> QED
    BY <2>2, <2>3 DEF InUse
<1> QED
  BY <1>1, Inductive, PTL

\* No sleeper of q->mq_freeze_wq is forgotten.
THEOREM WakeupsNotLost == OneMutex /\ Spec => []NoLostWakeup
<1>1. IInv => NoLostWakeup
  BY DEF IInv
<1> QED
  BY <1>1, Inductive, PTL

\* blk_cleanup_queue() marks the queue DEAD only when it is drained.
THEOREM DeadIsDrained == OneMutex /\ Spec => []DeadMeansDrained
<1>1. IInv => DeadMeansDrained
  BY DEF IInv, DeadMeansDrained, TypeOK, DepthInv, RefInv, CleanerDepth, CleanerKilled, CountedFreezer
<1> QED
  BY <1>1, Inductive, PTL

\* After blk_set_queue_dying() no request enters the queue.
THEOREM DyingIsShut == OneMutex /\ Spec => DyingBlocksEntry
<1> DEFINE Shut == \A s \in Submitters :
               cpc \in {"wake", "freeze", "wait", "sleep", "drained", "dead"}
               /\ spc'[s] = "in" => spc[s] = "in"
<1>1. ASSUME IInv, [Next]_vars PROVE [Shut]_vars
  <2> SUFFICES ASSUME Next, CleanerKilled, NEW s \in Submitters, spc'[s] = "in"
               PROVE  spc[s] = "in"
    BY <1>1 DEF CleanerKilled
  <2>1. killed /\ TypeOK
    BY <1>1 DEF IInv, DepthInv
  <2>2. CASE Enter
    BY <2>1, <2>2, Zenon DEF Enter, Submit, TryEnter, WaitToEnter, TypeOK
  <2>3. CASE Leave \/ Timeout
    BY <2>1, <2>3, Zenon DEF Leave, Timeout, Hang, Exit, TimeoutEnter, TimeoutExpire, TimeoutExit,
       WokenS, TypeOK
  <2>4. CASE Freeze
    BY <2>1, <2>4, Zenon DEF Freeze, LockFreezer, FreezeInc, FreezeKill, FreezeWait, UnfreezeDec,
       UnfreezeReinit, UnfreezeWake, UnlockFreezer, WokenS, TypeOK
  <2>5. CASE Cleanup \/ PreemptOnly
    BY <2>1, <2>5, Zenon DEF Cleanup, CleanupLock, SetDying, CleanupInc, CleanupKill, CleanupWake,
       CleanupFreeze, CleanupWait, SetDead, PreemptOnly, SetPreemptOnly, ClearPreemptOnly,
       WokenS, TypeOK
  <2> QED
    BY <2>2, <2>3, <2>4, <2>5 DEF Next
<1> QED
  BY <1>1, Inductive, PTL DEF Spec, DyingBlocksEntry
====
