-------------------------- MODULE BlkMqDispatchInv --------------------------
(***************************************************************************)
(* The inductive invariant of the dispatching of blk-mq: where requests    *)
(* and driver tags are, what is counted, and which threads a quiesced      *)
(* queue waits for.                                                        *)
(***************************************************************************)
EXTENDS BlkMqDispatch

-----------------------------------------------------------------------------
(* Where the requests are.                                                 *)

\* The types of what says where the requests are ...
MoveType ==
  /\ live \subseteq Requests /\ tagged \subseteq Requests /\ inDriver \subseteq Requests
  /\ sched \in [Hctxs -> Seq(Requests)] /\ dispatch \in [Hctxs -> Seq(Requests)]
  /\ list \in [Threads -> Seq(Requests)]
  /\ pc \in [Threads -> Reading \cup {"idle", "kick"}] /\ cur \in [Threads -> Hctxs]
  /\ rphase \in [Requests -> {"none", "read", "scan", "rerun"}]
  /\ elevator \in BOOLEAN

InSched(h, r) == r \in Range(sched[h])
InDispatch(h, r) == r \in Range(dispatch[h])
InList(t, r) == r \in Range(list[t])
Ending(r) == rphase[r] # "none"
Queued(r) == InSched(HctxOf[r], r) \/ InDispatch(HctxOf[r], r)

\* No element is on the list twice.
Distinct(s) == \A i, j \in DOMAIN s : s[i] = s[j] => i = j

\* No list holds a request twice.
ListInv ==
  /\ \A h \in Hctxs : Distinct(sched[h]) /\ Distinct(dispatch[h])
  /\ \A t \in Threads : Distinct(list[t])

\* A live request is in one place, and that belongs to its hardware queue.
Place(r) ==
  /\ \A h \in Hctxs : InSched(h, r) \/ InDispatch(h, r) => h = HctxOf[r]
  /\ \A t \in Threads : InList(t, r) => cur[t] = HctxOf[r]
  /\ ~(InSched(HctxOf[r], r) /\ InDispatch(HctxOf[r], r))
  /\ \A t \in Threads : InList(t, r) =>
        /\ ~Queued(r) /\ r \notin inDriver /\ ~Ending(r)
        /\ \A u \in Threads : InList(u, r) => u = t
  /\ Queued(r) => r \notin inDriver /\ ~Ending(r)
  /\ r \in inDriver => ~Ending(r)
  /\ r \in live <=> (Queued(r) \/ (\E t \in Threads : InList(t, r)) \/ r \in inDriver \/ Ending(r))
  /\ r \in live => r \in submitted

PlaceInv == \A r \in Requests : Place(r)

\* Where a thread has requests on its list.
Carrying == {"mark", "count", "tag", "twait", "retry", "next", "queue", "splice",
             "direct", "directq"}

Carries(t) ==
  /\ list[t] # <<>> <=> pc[t] \in Carrying
  /\ pc[t] = "next" => Len(list[t]) > 1
  /\ pc[t] \in {"direct", "directq"} => Range(list[t]) = {Head(list[t])}
  /\ pc[t] = "directq" => ~elevator

ThreadInv == \A t \in Threads : Carries(t)

\* Who has a driver tag.
Tag(r) ==
  /\ r \in tagged => r \in live /\ ~Ending(r)
  /\ r \in inDriver => r \in tagged
  /\ ~elevator /\ r \in live /\ ~Ending(r) => r \in tagged
  /\ elevator /\ Queued(r) => r \notin tagged

\* The tags of the requests on the list of a thread: the first one's, and the one
\* taken ahead for the second.
Holds(t) ==
  /\ pc[t] \in {"next", "queue", "directq"} => Head(list[t]) \in tagged
  /\ elevator => \A r \in Requests : InList(t, r) /\ r \in tagged =>
       \/ r = Head(list[t]) /\ pc[t] \in {"tag", "next", "queue"}
       \/ pc[t] = "queue" /\ Len(list[t]) > 1 /\ r = list[t][2]

TagInv ==
  /\ \A r \in Requests : Tag(r)
  /\ \A t \in Threads : Holds(t)

MoveInv == MoveType /\ ListInv /\ PlaceInv /\ ThreadInv /\ TagInv

\* Threads that have seen that the queue is not quiesced.
Busy == Reading \ {"start", "direct", "sync"}

\* synchronize_rcu() waits for all of them.
QuiesceInv ==
  /\ quiesced \in [Hctxs -> BOOLEAN] /\ qpc \in [Hctxs -> {"off", "sync", "on", "rerun"}]
  /\ readers \in [Hctxs -> SUBSET Threads]
  /\ \A h \in Hctxs :
       /\ qpc[h] \in {"sync", "on"} =>
            quiesced[h] /\ \A t \in Threads : pc[t] \in Busy /\ cur[t] = h => t \in readers[h]
       /\ qpc[h] = "on" => readers[h] = {}

-----------------------------------------------------------------------------
(* What counts.                                                            *)

\* No more driver tags are out than the set has.
TagCount == IsFiniteSet(tagged) /\ Cardinality(tagged) <= NTags

\* The marks that are not counted yet.
Uncounted(h) == {t \in Threads : pc[t] = "count" /\ cur[t] = h}

\* The counter of the marks; few enough threads are between a mark and its count.
RestartInv ==
  /\ restart \in [Hctxs -> BOOLEAN] /\ nrestart \in [Hctxs -> Int]
  /\ \A h \in Hctxs : IsFiniteSet(Uncounted(h))
  /\ RestartCounted

IInv == MoveInv /\ TagCount /\ RestartInv /\ QuiesceInv

====
