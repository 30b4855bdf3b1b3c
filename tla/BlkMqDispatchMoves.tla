------------------------- MODULE BlkMqDispatchMoves -------------------------
(***************************************************************************)
(* How requests move through the dispatching of blk-mq, for any number of  *)
(* hardware queues, tasks, requests and tags: what every step keeps of     *)
(* the places of the requests, of their driver tags and of the quiesced    *)
(* queues.                                                                 *)
(***************************************************************************)
EXTENDS BlkMqDispatchInv, TLAPS

-----------------------------------------------------------------------------
(* The lists of requests as sequences without repetition.                  *)

\* INIT_LIST_HEAD()
LEMMA ListEmpty == Range(<<>>) = {} /\ Distinct(<<>>)
BY DEF Range, Distinct

\* Facts about the elements of a list.
LEMMA ListElements ==
  ASSUME NEW S, NEW s \in Seq(S)
  PROVE  /\ Range(s) \subseteq S
         /\ s # <<>> <=> Range(s) # {}
         /\ s # <<>> => Head(s) \in Range(s)
         /\ s = <<>> => Distinct(s)
<1>1. Len(s) \in Nat /\ DOMAIN s = 1 .. Len(s) /\ \A i \in 1 .. Len(s) : s[i] \in S
  OBVIOUS
<1>2. s # <<>> => 1 \in DOMAIN s /\ Head(s) = s[1]
  OBVIOUS
<1>3. s = <<>> => DOMAIN s = {}
  OBVIOUS
<1> QED BY <1>1, <1>2, <1>3 DEF Range, Distinct

\* list_add_tail()
LEMMA ListAppend ==
  ASSUME NEW S, NEW s \in Seq(S), NEW e \in S
  PROVE  /\ Append(s, e) \in Seq(S) /\ Append(s, e) # <<>>
         /\ Range(Append(s, e)) = Range(s) \cup {e}
         /\ Distinct(s) /\ e \notin Range(s) => Distinct(Append(s, e))
<1> DEFINE t == Append(s, e)
<1>1. /\ t \in Seq(S) /\ Len(t) = Len(s) + 1 /\ Len(s) \in Nat
      /\ DOMAIN s = 1 .. Len(s) /\ DOMAIN t = 1 .. Len(s) + 1
      /\ t[Len(s) + 1] = e
      /\ \A i \in 1 .. Len(s) : t[i] = s[i]
  OBVIOUS
<1> HIDE DEF t
<1>2. Range(t) = Range(s) \cup {e}
  <2>1. \A x \in Range(t) : x \in Range(s) \cup {e} BY <1>1 DEF Range
  <2>2. \A x \in Range(s) : x \in Range(t) BY <1>1 DEF Range
  <2>3. e \in Range(t)
    <3>1. Len(s) + 1 \in DOMAIN t BY <1>1
    <3> QED BY <1>1, <3>1 DEF Range
  <2> QED BY <2>1, <2>2, <2>3
<1>3. ASSUME Distinct(s), e \notin Range(s) PROVE Distinct(t)
  BY <1>1, <1>3 DEF Distinct, Range
<1>4. t # <<>> BY <1>1
<1> QED BY <1>1, <1>2, <1>3, <1>4 DEF t

\* list_splice(): one list before another.
LEMMA ListConcat ==
  ASSUME NEW S, NEW s \in Seq(S), NEW t \in Seq(S)
  PROVE  /\ s \o t \in Seq(S)
         /\ Range(s \o t) = Range(s) \cup Range(t)
         /\ Distinct(s) /\ Distinct(t) /\ Range(s) \cap Range(t) = {}
              => Distinct(s \o t)
<1> DEFINE u == s \o t
           m == Len(s)
           n == Len(t)
<1>1. /\ u \in Seq(S) /\ m \in Nat /\ n \in Nat
      /\ DOMAIN s = 1 .. m /\ DOMAIN t = 1 .. n /\ DOMAIN u = 1 .. m + n
  OBVIOUS
<1>2. \A i \in 1 .. m : u[i] = s[i]
  OBVIOUS
<1>3. \A i \in m + 1 .. m + n : i - m \in 1 .. n /\ u[i] = t[i - m]
  OBVIOUS
<1>4. \A i \in 1 .. n : m + i \in m + 1 .. m + n /\ u[m + i] = t[i]
  BY <1>1, <1>3
<1> HIDE DEF u, m, n
<1>5. \A i \in DOMAIN u : i \in 1 .. m \/ i \in m + 1 .. m + n BY <1>1
<1>6. \A i \in 1 .. m : i \in DOMAIN u /\ u[i] \in Range(s)
  <2> TAKE i \in 1 .. m
  <2>1. i \in DOMAIN u BY <1>1
  <2>2. s[i] \in Range(s) BY <1>1, Zenon DEF Range
  <2> QED BY <1>2, <2>1, <2>2
<1>7. \A i \in m + 1 .. m + n : i \in DOMAIN u /\ u[i] \in Range(t)
  <2> TAKE i \in m + 1 .. m + n
  <2>1. i \in DOMAIN u BY <1>1
  <2>2. t[i - m] \in Range(t) BY <1>1, <1>3, Zenon DEF Range
  <2> QED BY <1>3, <2>1, <2>2
<1>8. Range(u) = Range(s) \cup Range(t)
  <2>1. ASSUME NEW x \in Range(u) PROVE x \in Range(s) \cup Range(t)
    <3>1. PICK i \in DOMAIN u : x = u[i] BY DEF Range
    <3> QED BY <3>1, <1>5, <1>6, <1>7
  <2>2. ASSUME NEW x \in Range(s) PROVE x \in Range(u)
    <3>1. PICK i \in 1 .. m : x = s[i] BY <1>1 DEF Range
    <3> QED BY <3>1, <1>2, <1>6 DEF Range
  <2>3. ASSUME NEW x \in Range(t) PROVE x \in Range(u)
    <3>1. PICK i \in 1 .. n : x = t[i] BY <1>1 DEF Range
    <3>2. x = u[m + i] /\ m + i \in DOMAIN u BY <3>1, <1>4, <1>7
    <3> QED BY <3>2 DEF Range
  <2> QED BY <2>1, <2>2, <2>3
<1>9. ASSUME Distinct(s), Distinct(t), Range(s) \cap Range(t) = {} PROVE Distinct(u)
  <2> SUFFICES ASSUME NEW i \in DOMAIN u, NEW j \in DOMAIN u, u[i] = u[j] PROVE i = j
    BY DEF Distinct
  <2>1. CASE i \in 1 .. m /\ j \in 1 .. m
    BY <1>1, <1>2, <1>9, <2>1 DEF Distinct
  <2>2. CASE i \in m + 1 .. m + n /\ j \in m + 1 .. m + n
    <3>1. t[i - m] = t[j - m] /\ i - m \in DOMAIN t /\ j - m \in DOMAIN t
      BY <1>1, <1>3, <2>2
    <3>2. i - m = j - m BY <3>1, <1>9 DEF Distinct
    <3> QED BY <3>2, <1>1, <2>2
  <2> QED BY <1>5, <1>6, <1>7, <1>9, <2>1, <2>2
<1> QED BY <1>1, <1>8, <1>9 DEF u

\* A list of one element.
LEMMA ListOne ==
  ASSUME NEW S, NEW e \in S
  PROVE  <<e>> \in Seq(S) /\ Range(<<e>>) = {e} /\ Distinct(<<e>>) /\ Head(<<e>>) = e
BY DEF Range, Distinct

\* list_del() of the head.
LEMMA ListTail ==
  ASSUME NEW S, NEW s \in Seq(S), s # <<>>
  PROVE  /\ Head(s) \in S /\ Tail(s) \in Seq(S)
         /\ Range(s) = Range(Tail(s)) \cup {Head(s)}
         /\ Distinct(s) => Distinct(Tail(s)) /\ Head(s) \notin Range(Tail(s))
<1> DEFINE t == Tail(s)
           n == Len(s)
<1>1. /\ t \in Seq(S) /\ n \in Nat /\ n >= 1 /\ DOMAIN s = 1 .. n /\ DOMAIN t = 1 .. n - 1
      /\ Head(s) = s[1] /\ Head(s) \in S
  OBVIOUS
<1>2. \A i \in 1 .. n - 1 : t[i] = s[i + 1]
  OBVIOUS
<1> HIDE DEF t, n
<1>3. \A i \in 1 .. n - 1 : i + 1 \in DOMAIN s /\ i + 1 # 1 BY <1>1
<1>4. \A i \in DOMAIN s : i = 1 \/ (i - 1 \in DOMAIN t /\ s[i] = t[i - 1])
  <2> SUFFICES ASSUME NEW i \in DOMAIN s, i # 1 PROVE i - 1 \in DOMAIN t /\ s[i] = t[i - 1]
    OBVIOUS
  <2>1. i - 1 \in 1 .. n - 1 /\ (i - 1) + 1 = i BY <1>1
  <2> QED BY <1>1, <1>2, <2>1
<1>5. Range(s) = Range(t) \cup {Head(s)}
  <2>1. ASSUME NEW x \in Range(s) PROVE x \in Range(t) \cup {s[1]}
    <3>1. PICK i \in DOMAIN s : x = s[i] BY DEF Range
    <3> QED BY <3>1, <1>4 DEF Range
  <2>2. ASSUME NEW x \in Range(t) PROVE x \in Range(s)
    <3>1. PICK i \in 1 .. n - 1 : x = t[i] BY <1>1 DEF Range
    <3> QED BY <3>1, <1>2, <1>3 DEF Range
  <2>3. s[1] \in Range(s) BY <1>1 DEF Range
  <2> QED BY <1>1, <2>1, <2>2, <2>3
<1>6. ASSUME Distinct(s) PROVE Distinct(t) /\ Head(s) \notin Range(t)
  <2>1. ASSUME NEW i \in DOMAIN t, NEW j \in DOMAIN t, t[i] = t[j] PROVE i = j
    <3>1. s[i + 1] = s[j + 1] /\ i + 1 \in DOMAIN s /\ j + 1 \in DOMAIN s
      BY <1>1, <1>2, <1>3, <2>1
    <3>2. i + 1 = j + 1 BY <3>1, <1>6 DEF Distinct
    <3> QED BY <3>2, <1>1
  <2>2. ASSUME NEW i \in DOMAIN t PROVE t[i] # s[1]
    <3>1. t[i] = s[i + 1] /\ i + 1 \in DOMAIN s /\ i + 1 # 1 BY <1>1, <1>2, <1>3
    <3>2. 1 \in DOMAIN s BY <1>1
    <3> QED BY <3>1, <3>2, <1>6 DEF Distinct
  <2> QED BY <1>1, <2>1, <2>2 DEF Distinct, Range
<1> QED BY <1>1, <1>5, <1>6 DEF t

\* The second element is the head of the rest.
LEMMA ListSecond ==
  ASSUME NEW S, NEW s \in Seq(S), s # <<>>
  PROVE  /\ Tail(s) # <<>> <=> Len(s) > 1
         /\ Len(s) > 1 => /\ Head(Tail(s)) = s[2] /\ s[2] \in Range(s) /\ s[2] \in S
                          /\ Distinct(s) => s[2] # Head(s)
<1>1. Len(s) \in Nat /\ DOMAIN s = 1 .. Len(s) /\ Len(Tail(s)) = Len(s) - 1 /\ Len(s) >= 1
  OBVIOUS
<1>2. Tail(s) \in Seq(S) /\ Head(s) = s[1] OBVIOUS
<1>3. Tail(s) # <<>> <=> Len(s) > 1 BY <1>1, <1>2
<1>4. ASSUME Len(s) > 1
      PROVE  /\ Head(Tail(s)) = s[2] /\ s[2] \in Range(s) /\ s[2] \in S
             /\ Distinct(s) => s[2] # Head(s)
  <2>1. 1 \in DOMAIN s /\ 2 \in DOMAIN s BY <1>1, <1>4
  <2>2. Head(Tail(s)) = s[2] BY <1>1, <1>4
  <2>3. s[2] \in Range(s) /\ s[2] \in S BY <1>1, <2>1 DEF Range
  <2>4. Distinct(s) => s[2] # s[1] BY <2>1 DEF Distinct
  <2> QED BY <1>2, <2>2, <2>3, <2>4, Zenon
<1> QED BY <1>3, <1>4

-----------------------------------------------------------------------------
(* What a step has to show for the requests and threads it leaves alone.   *)

LEMMA KeepsPlace ==
  ASSUME NEW x \in Requests, Place(x),
         \A h \in Hctxs : /\ InSched(h, x)' <=> InSched(h, x)
                          /\ InDispatch(h, x)' <=> InDispatch(h, x),
         \A t \in Threads : /\ InList(t, x)' <=> InList(t, x)
                            /\ InList(t, x) => cur'[t] = cur[t],
         x \in inDriver' <=> x \in inDriver, Ending(x)' <=> Ending(x),
         x \in live' <=> x \in live, x \in submitted => x \in submitted'
  PROVE  Place(x)' /\ (Queued(x)' <=> Queued(x))
<1>1. HctxOf[x] \in Hctxs BY MapType
<1>2. Queued(x)' <=> Queued(x) BY <1>1 DEF Queued
<1>3. InSched(HctxOf[x], x)' <=> InSched(HctxOf[x], x) BY <1>1
<1>4. InDispatch(HctxOf[x], x)' <=> InDispatch(HctxOf[x], x) BY <1>1, SMTT(20)
<1>5. Place(x)' BY <1>2, <1>3, <1>4 DEF Place
<1> QED BY <1>2, <1>5

LEMMA KeepsTag ==
  ASSUME NEW x \in Requests, Tag(x), Queued(x)' <=> Queued(x), x \in tagged' <=> x \in tagged,
         x \in inDriver' <=> x \in inDriver, Ending(x)' <=> Ending(x),
         x \in live' <=> x \in live, elevator' = elevator
  PROVE  Tag(x)'
BY DEF Tag

LEMMA KeepsThread ==
  ASSUME NEW t \in Threads, Carries(t), Holds(t), list[t] \in Seq(Requests),
         pc'[t] = pc[t], list'[t] = list[t], elevator' = elevator,
         \A r \in Requests : InList(t, r) => (r \in tagged' <=> r \in tagged)
  PROVE  Carries(t)' /\ Holds(t)'
<1>1. Carries(t)' BY DEF Carries
<1>2. pc[t] \in {"next", "queue", "directq"} => Head(list[t]) \in Requests /\ InList(t, Head(list[t]))
  <2>1. list[t] # <<>> => Head(list[t]) \in Requests /\ Head(list[t]) \in Range(list[t])
    BY ListElements
  <2> QED BY <2>1 DEF Carries, Carrying, InList
<1>3. \A r \in Requests : InList(t, r)' <=> InList(t, r) BY DEF InList
<1>4. pc'[t] \in {"next", "queue", "directq"} => Head(list'[t]) \in tagged' BY <1>2 DEF Holds
<1>5. ASSUME elevator, NEW r \in Requests, InList(t, r), r \in tagged
      PROVE  \/ r = Head(list'[t]) /\ pc'[t] \in {"tag", "next", "queue"}
             \/ pc'[t] = "queue" /\ Len(list'[t]) > 1 /\ r = list'[t][2]
  BY <1>5 DEF Holds
<1>6. Holds(t)' BY <1>3, <1>4, <1>5 DEF Holds
<1> QED BY <1>1, <1>6

\* A thread whose list is empty now.
LEMMA EmptyList ==
  ASSUME NEW t \in Threads, list'[t] = <<>>, pc'[t] \notin Carrying
  PROVE  Carries(t)' /\ Holds(t)' /\ \A r : ~InList(t, r)'
<1>1. \A r : ~InList(t, r)' BY ListEmpty DEF InList
<1>2. pc'[t] \notin {"next", "queue", "directq", "direct"} BY DEF Carrying
<1>3. Carries(t)' BY <1>2 DEF Carries
<1>4. Holds(t)' BY <1>1, <1>2 DEF Holds
<1> QED BY <1>1, <1>3, <1>4

\* A step that moves no request and no tag.
LEMMA QuietStep ==
  ASSUME MoveInv,
         UNCHANGED <<submitted, live, sched, dispatch, tagged, inDriver, pc, cur, list, elevator>>,
         rphase' \in [Requests -> {"none", "read", "scan", "rerun"}],
         \A r \in Requests : Ending(r)' <=> Ending(r)
  PROVE  MoveInv'
<1>1. MoveType' BY DEF MoveInv, MoveType
<1>2. ListInv' BY DEF MoveInv, ListInv
<1>3. \A x \in Requests : Place(x)' /\ Tag(x)'
  <2> TAKE x \in Requests
  <2>1. Place(x) /\ Tag(x) BY DEF MoveInv, PlaceInv, TagInv
  <2>2. /\ \A h \in Hctxs : /\ InSched(h, x)' <=> InSched(h, x)
                            /\ InDispatch(h, x)' <=> InDispatch(h, x)
        /\ \A t \in Threads : InList(t, x)' <=> InList(t, x)
    BY DEF InSched, InDispatch, InList
  <2>3. Place(x)' /\ (Queued(x)' <=> Queued(x)) BY <2>1, <2>2, KeepsPlace
  <2> QED BY <2>1, <2>3, KeepsTag
<1>4. \A t \in Threads : Carries(t)' /\ Holds(t)'
  BY KeepsThread DEF MoveInv, MoveType, ThreadInv, TagInv
<1> QED BY <1>1, <1>2, <1>3, <1>4 DEF MoveInv, PlaceInv, ThreadInv, TagInv

\* What only thread t does.
OnlyThread(t) ==
  \A x \in Threads : x # t => pc'[x] = pc[x] /\ list'[x] = list[x] /\ cur'[x] = cur[x]

\* A step of a thread that moves no request and no tag.
LEMMA PcStep ==
  ASSUME MoveInv, NEW t \in Threads, OnlyThread(t),
         UNCHANGED <<submitted, live, sched, dispatch, tagged, inDriver, list, rphase, elevator>>,
         pc' \in [Threads -> Reading \cup {"idle", "kick"}], cur' \in [Threads -> Hctxs],
         list[t] # <<>> => cur'[t] = cur[t],
         Carries(t)', Holds(t)'
  PROVE  MoveInv'
<1>1. MoveType' BY DEF MoveInv, MoveType
<1>2. ListInv' BY Zenon DEF MoveInv, ListInv
<1>3. \A x \in Requests : Place(x)' /\ Tag(x)'
  <2> TAKE x \in Requests
  <2>1. Place(x) /\ Tag(x) BY DEF MoveInv, PlaceInv, TagInv
  <2>2. /\ \A h \in Hctxs : /\ InSched(h, x)' <=> InSched(h, x)
                            /\ InDispatch(h, x)' <=> InDispatch(h, x)
        /\ \A u \in Threads : InList(u, x)' <=> InList(u, x)
    BY DEF InSched, InDispatch, InList
  <2>3. \A u \in Threads : InList(u, x) => cur'[u] = cur[u]
    <3>1. InList(t, x) => list[t] # <<>> BY ListEmpty DEF InList
    <3> QED BY <3>1 DEF OnlyThread
  <2>4. Ending(x)' <=> Ending(x) BY Zenon DEF Ending
  <2>5. Place(x)' /\ (Queued(x)' <=> Queued(x)) BY <2>1, <2>2, <2>3, <2>4, KeepsPlace, Zenon
  <2> QED BY <2>1, <2>4, <2>5, KeepsTag
<1>4. \A u \in Threads : Carries(u)' /\ Holds(u)'
  <2> TAKE u \in Threads
  <2>1. CASE u = t BY <2>1
  <2>2. CASE u # t
    BY <2>2, KeepsThread DEF OnlyThread, MoveInv, MoveType, ThreadInv, TagInv
  <2> QED BY <2>1, <2>2
<1> QED BY <1>1, <1>2, <1>3, <1>4 DEF MoveInv, PlaceInv, ThreadInv, TagInv

\* blk_queue_exit(): a request that has ended is gone.
LEMMA FinishStep ==
  ASSUME MoveInv, NEW r \in Requests, Ending(r), Finish(r),
         UNCHANGED <<submitted, sched, dispatch, tagged, inDriver, pc, cur, list, elevator>>
  PROVE  MoveInv'
<1>1. /\ rphase' \in [Requests -> {"none", "read", "scan", "rerun"}]
      /\ rphase'[r] = "none" /\ live' = live \ {r}
      /\ \A x \in Requests : x # r => rphase'[x] = rphase[x]
  BY DEF MoveInv, MoveType, Finish
<1>2. MoveType' BY <1>1 DEF MoveInv, MoveType
<1>3. ListInv' BY DEF MoveInv, ListInv
<1>4. \A x \in Requests : Place(x)' /\ Tag(x)'
  <2> TAKE x \in Requests
  <2>1. Place(x) /\ Tag(x) BY DEF MoveInv, PlaceInv, TagInv
  <2>2. /\ \A h \in Hctxs : /\ InSched(h, x)' <=> InSched(h, x)
                            /\ InDispatch(h, x)' <=> InDispatch(h, x)
        /\ \A t \in Threads : InList(t, x)' <=> InList(t, x)
    BY DEF InSched, InDispatch, InList
  <2>3. CASE x # r
    <3>1. Ending(x)' <=> Ending(x) BY <1>1, <2>3 DEF Ending
    <3>2. x \in live' <=> x \in live BY <1>1, <2>3
    <3>3. Place(x)' /\ (Queued(x)' <=> Queued(x)) BY <2>1, <2>2, <3>1, <3>2, KeepsPlace
    <3> QED BY <2>1, <3>1, <3>2, <3>3, KeepsTag
  <2>4. CASE x = r
    <3>1. ~Ending(r)' /\ r \notin live' BY <1>1, Zenon DEF Ending
    <3>2. /\ ~Queued(r) /\ r \notin inDriver /\ \A t \in Threads : ~InList(t, r)
      BY <2>1, <2>4 DEF Place
    <3>3. HctxOf[r] \in Hctxs BY MapType
    <3>4. ~InSched(HctxOf[r], r)' /\ ~InDispatch(HctxOf[r], r)' /\ ~Queued(r)'
      BY <2>2, <2>4, <3>2, <3>3 DEF Queued
    <3>5. \A t \in Threads : ~InList(t, r)' BY <2>2, <2>4, <3>2, Zenon
    <3>6. \A h \in Hctxs : InSched(h, r)' \/ InDispatch(h, r)' => h = HctxOf[r]
      BY <2>1, <2>2, <2>4, Zenon DEF Place
    <3>7. Place(r)' BY <3>1, <3>2, <3>4, <3>5, <3>6 DEF Place
    <3>8. Tag(r)' BY <2>1, <2>4, <3>1, <3>2, <3>4 DEF Tag
    <3> QED BY <2>4, <3>7, <3>8
  <2> QED BY <2>3, <2>4
<1>5. \A t \in Threads : Carries(t)' /\ Holds(t)'
  BY KeepsThread DEF MoveInv, MoveType, ThreadInv, TagInv
<1> QED BY <1>2, <1>3, <1>4, <1>5 DEF MoveInv, PlaceInv, ThreadInv, TagInv

\* blk_mq_get_driver_tag(): a request on the list of t has a tag now.
LEMMA TagStep ==
  ASSUME MoveInv, NEW t \in Threads, OnlyThread(t), NEW r \in Requests, InList(t, r),
         UNCHANGED <<submitted, live, sched, dispatch, inDriver, cur, list, rphase, elevator>>,
         tagged' = tagged \cup {r},
         pc' \in [Threads -> Reading \cup {"idle", "kick"}],
         Carries(t)', Holds(t)'
  PROVE  MoveInv'
<1>1. MoveType' BY Zenon DEF MoveInv, MoveType
<1>2. ListInv' BY DEF MoveInv, ListInv
<1>3. Place(r) BY Zenon DEF MoveInv, PlaceInv
<1>4. r \in live /\ ~Ending(r) /\ ~Queued(r) BY <1>3, Zenon DEF Place
<1>5. \A x \in Requests : Place(x)' /\ Tag(x)'
  <2> TAKE x \in Requests
  <2>1. Place(x) /\ Tag(x) BY SMTT(20) DEF MoveInv, PlaceInv, TagInv
  <2>2. /\ \A h \in Hctxs : /\ InSched(h, x)' <=> InSched(h, x)
                            /\ InDispatch(h, x)' <=> InDispatch(h, x)
        /\ \A u \in Threads : InList(u, x)' <=> InList(u, x)
        /\ Ending(x)' <=> Ending(x)
    BY DEF InSched, InDispatch, InList, Ending
  <2>3. Place(x)' /\ (Queued(x)' <=> Queued(x)) BY <2>1, <2>2, KeepsPlace, Zenon
  <2>4. Tag(x)' BY <1>4, <2>1, <2>2, <2>3 DEF Tag
  <2> QED BY <2>3, <2>4
<1>6. \A u \in Threads : Carries(u)' /\ Holds(u)'
  <2> TAKE u \in Threads
  <2>1. CASE u = t BY <2>1, Zenon
  <2>2. CASE u # t
    <3>1. ~InList(u, r) BY <1>3, <2>2, Zenon DEF Place
    <3>2. \A x \in Requests : InList(u, x) => (x \in tagged' <=> x \in tagged) BY <3>1
    <3> QED BY <2>2, <3>2, KeepsThread, Zenon DEF OnlyThread, MoveInv, MoveType, ThreadInv, TagInv
  <2> QED BY <2>1, <2>2
<1> QED BY <1>1, <1>2, <1>5, <1>6 DEF MoveInv, PlaceInv, ThreadInv, TagInv

\* blk_mq_put_driver_tag(): requests on the list of t give their tags back, under
\* a scheduler only.
LEMMA DropTags ==
  ASSUME MoveInv, NEW t \in Threads, OnlyThread(t), NEW R,
         \A r \in R : elevator /\ InList(t, r),
         UNCHANGED <<submitted, live, sched, dispatch, inDriver, cur, list, rphase, elevator>>,
         tagged' = tagged \ R,
         pc' \in [Threads -> Reading \cup {"idle", "kick"}],
         Carries(t)', Holds(t)'
  PROVE  MoveInv'
<1>1. MoveType' BY DEF MoveInv, MoveType
<1>2. ListInv' BY Zenon DEF MoveInv, ListInv
<1>3. \A x \in Requests : x \in R =>
        elevator /\ x \in live /\ x \notin inDriver /\ \A u \in Threads : InList(u, x) => u = t
  BY Zenon DEF MoveInv, PlaceInv, Place
<1>4. \A x \in Requests : Place(x)' /\ Tag(x)'
  <2> TAKE x \in Requests
  <2>1. Place(x) /\ Tag(x) BY Zenon DEF MoveInv, PlaceInv, TagInv
  <2>2. /\ \A h \in Hctxs : /\ InSched(h, x)' <=> InSched(h, x)
                            /\ InDispatch(h, x)' <=> InDispatch(h, x)
        /\ \A u \in Threads : InList(u, x)' <=> InList(u, x)
        /\ Ending(x)' <=> Ending(x)
    BY Zenon DEF InSched, InDispatch, InList, Ending
  <2>3. Place(x)' /\ (Queued(x)' <=> Queued(x)) BY <2>1, <2>2, KeepsPlace, Zenon
  <2>4. Tag(x)' BY <1>3, <2>1, <2>2, <2>3, Zenon DEF Tag
  <2> QED BY <2>3, <2>4
<1>5. \A u \in Threads : Carries(u)' /\ Holds(u)'
  <2> TAKE u \in Threads
  <2>1. CASE u = t BY <2>1, Zenon
  <2>2. CASE u # t
    <3>1. \A x \in Requests : InList(u, x) => (x \in tagged' <=> x \in tagged) BY <1>3, <2>2
    <3> QED BY <2>2, <3>1, KeepsThread DEF OnlyThread, MoveInv, MoveType, ThreadInv, TagInv
  <2> QED BY <2>1, <2>2
<1> QED BY <1>1, <1>2, <1>4, <1>5, Zenon DEF MoveInv, PlaceInv, ThreadInv, TagInv

\* A request that is allocated was nowhere, and without a scheduler it has a tag.
LEMMA AllocFacts ==
  ASSUME MoveInv, NEW r \in Requests, Alloc(r)
  PROVE  /\ ~Queued(r) /\ ~Ending(r) /\ r \notin inDriver /\ r \notin tagged
         /\ \A t \in Threads : ~InList(t, r)
         /\ \A h \in Hctxs : ~InSched(h, r) /\ ~InDispatch(h, r)
         /\ live' = live \cup {r} /\ submitted' = submitted \cup {r}
         /\ tagged' = IF elevator THEN tagged ELSE tagged \cup {r}
<1>1. Place(r) /\ Tag(r) BY Zenon DEF MoveInv, PlaceInv, TagInv
<1>2. r \notin submitted /\ live' = live \cup {r} /\ submitted' = submitted \cup {r} BY Zenon DEF Alloc
<1>3. r \notin live BY <1>1, <1>2, Zenon DEF Place
<1>4. /\ ~Queued(r) /\ ~Ending(r) /\ r \notin inDriver /\ r \notin tagged
      /\ \A t \in Threads : ~InList(t, r)
  BY <1>1, <1>3, Zenon DEF Place, Tag
<1>5. \A h \in Hctxs : ~InSched(h, r) /\ ~InDispatch(h, r) BY <1>1, <1>4, Zenon DEF Place, Queued
<1>6. tagged' = IF elevator THEN tagged ELSE tagged \cup {r} BY DEF Alloc
<1> QED BY <1>2, <1>4, <1>5, <1>6

LEMMA InsertRequestInv ==
  ASSUME MoveInv, NEW t \in Threads, NEW r \in Requests, InsertRequest(t, r), elevator' = elevator
  PROVE  MoveInv'
<1>1. PICK g \in Hctxs : g = HctxOf[r] BY MapType, Zenon
<1>2. /\ pc[t] = "idle" /\ sched' = [sched EXCEPT ![g] = Append(@, r)]
      /\ cur' = [cur EXCEPT ![t] = g] /\ pc' = [pc EXCEPT ![t] = "kick"]
      /\ UNCHANGED <<dispatch, inDriver, list, rphase>> /\ Alloc(r)
  BY <1>1 DEF InsertRequest, Goto, ending
<1>3. MoveType /\ ListInv /\ PlaceInv /\ ThreadInv /\ TagInv BY DEF MoveInv
<1>4. /\ ~Queued(r) /\ ~Ending(r) /\ r \notin inDriver /\ r \notin tagged
      /\ \A u \in Threads : ~InList(u, r)
      /\ \A h \in Hctxs : ~InSched(h, r) /\ ~InDispatch(h, r)
      /\ live' = live \cup {r} /\ submitted' = submitted \cup {r}
      /\ tagged' = IF elevator THEN tagged ELSE tagged \cup {r}
  BY <1>2, AllocFacts, Zenon
<1>5. /\ sched'[g] \in Seq(Requests) /\ Distinct(sched'[g])
      /\ Range(sched'[g]) = Range(sched[g]) \cup {r}
      /\ \A h \in Hctxs : h # g => sched'[h] = sched[h]
  <2>1. sched[g] \in Seq(Requests) /\ Distinct(sched[g]) /\ r \notin Range(sched[g])
    BY <1>3, <1>4 DEF MoveType, ListInv, InSched
  <2>2. sched'[g] = Append(sched[g], r) /\ \A h \in Hctxs : h # g => sched'[h] = sched[h]
    BY <1>2, <1>3, Zenon DEF MoveType
  <2>3. /\ Append(sched[g], r) \in Seq(Requests) /\ Distinct(Append(sched[g], r))
        /\ Range(Append(sched[g], r)) = Range(sched[g]) \cup {r}
    BY <2>1, ListAppend
  <2> QED BY <2>2, <2>3, Zenon
<1>6. MoveType'
  <2>1. sched' \in [Hctxs -> Seq(Requests)] BY <1>2, <1>3, <1>5, Zenon DEF MoveType
  <2> QED BY <1>2, <1>3, <1>4, <2>1, Zenon DEF MoveType
<1>7. ListInv' BY <1>2, <1>3, <1>5, Zenon DEF ListInv
<1>8. OnlyThread(t) BY <1>2, <1>3 DEF OnlyThread, MoveType
<1>9. list[t] = <<>> /\ list'[t] = <<>> /\ pc'[t] = "kick"
  BY <1>2, <1>3, Zenon DEF ThreadInv, Carries, Carrying, MoveType
<1>10. ASSUME NEW x \in Requests, x # r PROVE Place(x)' /\ Tag(x)'
  <2>1. Place(x) /\ Tag(x) BY <1>3 DEF PlaceInv, TagInv
  <2>2. \A h \in Hctxs : InSched(h, x)' <=> InSched(h, x)
    <3> TAKE h \in Hctxs
    <3>1. CASE h = g BY <1>5, <1>10, <3>1, Zenon DEF InSched
    <3>2. CASE h # g BY <1>5, <3>2, Zenon DEF InSched
    <3> QED BY <3>1, <3>2
  <2>3. /\ \A h \in Hctxs : InDispatch(h, x)' <=> InDispatch(h, x)
        /\ \A u \in Threads : InList(u, x)' <=> InList(u, x)
        /\ Ending(x)' <=> Ending(x)
    BY <1>2, Zenon DEF InDispatch, InList, Ending
  <2>4. \A u \in Threads : InList(u, x) => cur'[u] = cur[u]
    <3>1. ~InList(t, x) BY <1>9, ListEmpty DEF InList
    <3> QED BY <1>8, <3>1, Zenon DEF OnlyThread
  <2>5. /\ x \in live' <=> x \in live
        /\ x \in tagged' <=> x \in tagged
        /\ x \in submitted => x \in submitted'
    BY <1>4, <1>10, Zenon
  <2>6. Place(x)' /\ (Queued(x)' <=> Queued(x))
    BY <1>2, <2>1, <2>2, <2>3, <2>4, <2>5, KeepsPlace, Zenon
  <2> QED BY <1>2, <2>1, <2>3, <2>5, <2>6, KeepsTag, Zenon
<1>11. Place(r)' /\ Tag(r)'
  <2>1. /\ ~Ending(r)' /\ \A u \in Threads : ~InList(u, r)'
        /\ \A h \in Hctxs : ~InDispatch(h, r)'
    BY <1>2, <1>4, Zenon DEF Ending, InList, InDispatch
  <2>2. InSched(g, r)' /\ \A h \in Hctxs : InSched(h, r)' => h = g
    BY <1>4, <1>5, Zenon DEF InSched
  <2>3. Queued(r)' /\ ~(InSched(HctxOf[r], r)' /\ InDispatch(HctxOf[r], r)')
    BY <1>1, <2>1, <2>2, Zenon DEF Queued
  <2>4. r \notin inDriver' /\ r \in live' /\ r \in submitted' BY <1>2, <1>4, Zenon
  <2>5. Place(r)' BY <1>1, <2>1, <2>2, <2>3, <2>4, Zenon DEF Place
  <2>6. Tag(r)' BY <1>4, <2>1, <2>4, Zenon DEF Tag
  <2> QED BY <2>5, <2>6, Zenon
<1>12. ASSUME NEW u \in Threads PROVE Carries(u)' /\ Holds(u)'
  <2>1. CASE u = t BY <1>9, <2>1, EmptyList, Zenon DEF Carrying
  <2>2. CASE u # t
    <3>1. \A x \in Requests : InList(u, x) => (x \in tagged' <=> x \in tagged) BY <1>4, Zenon
    <3> QED BY <1>3, <1>8, <2>2, <3>1, KeepsThread, Zenon DEF OnlyThread, MoveType, ThreadInv, TagInv
  <2> QED BY <2>1, <2>2, Zenon
<1> QED BY <1>4, <1>6, <1>7, <1>10, <1>11, <1>12, Zenon DEF MoveInv, PlaceInv, ThreadInv, TagInv

LEMMA TryIssueDirectlyInv ==
  ASSUME MoveInv, NEW t \in Threads, NEW r \in Requests, TryIssueDirectly(t, r), elevator' = elevator
  PROVE  MoveInv'
<1>1. PICK g \in Hctxs : g = HctxOf[r] BY MapType
<1>2. PICK one : one = <<r>> BY Zenon
<1>3. /\ pc[t] = "idle" /\ list' = [list EXCEPT ![t] = one]
      /\ cur' = [cur EXCEPT ![t] = g] /\ pc' = [pc EXCEPT ![t] = "direct"]
      /\ UNCHANGED <<sched, dispatch, inDriver, rphase>> /\ Alloc(r)
  BY <1>1, <1>2 DEF TryIssueDirectly, Goto, ending
<1>4. MoveType /\ ListInv /\ PlaceInv /\ ThreadInv /\ TagInv BY Zenon DEF MoveInv
<1>5. /\ ~Queued(r) /\ ~Ending(r) /\ r \notin inDriver /\ r \notin tagged
      /\ \A u \in Threads : ~InList(u, r)
      /\ \A h \in Hctxs : ~InSched(h, r) /\ ~InDispatch(h, r)
      /\ live' = live \cup {r} /\ submitted' = submitted \cup {r}
      /\ tagged' = IF elevator THEN tagged ELSE tagged \cup {r}
  BY <1>3, AllocFacts
<1>6. one \in Seq(Requests) /\ Range(one) = {r} /\ Distinct(one) /\ Head(one) = r /\ one # <<>>
  BY <1>2, ListOne, Zenon
<1>7. MoveType' BY <1>3, <1>4, <1>5, <1>6, Zenon DEF MoveType, Reading
<1>8. OnlyThread(t) BY <1>3, <1>4 DEF OnlyThread, MoveType
<1>9. list[t] = <<>> /\ list'[t] = one /\ pc'[t] = "direct" /\ cur'[t] = g
  BY <1>3, <1>4, Zenon DEF ThreadInv, Carries, Carrying, MoveType
<1>10. ListInv' BY <1>3, <1>4, <1>6, <1>8, <1>9, Zenon DEF ListInv, OnlyThread
<1>11. \A u \in Threads, x \in Requests : x # r => (InList(u, x)' <=> InList(u, x))
  <2> TAKE u \in Threads, x \in Requests
  <2>1. CASE u = t
    <3>1. Range(list[t]) = {} BY <1>9, ListEmpty, Zenon
    <3> QED BY <1>6, <1>9, <2>1, <3>1, Zenon DEF InList
  <2>2. CASE u # t BY <1>8, <2>2, Zenon DEF InList, OnlyThread
  <2> QED BY <2>1, <2>2
<1>12. ASSUME NEW x \in Requests, x # r PROVE Place(x)' /\ Tag(x)'
  <2>1. Place(x) /\ Tag(x) BY <1>4, Zenon DEF PlaceInv, TagInv
  <2>2. /\ \A h \in Hctxs : /\ InSched(h, x)' <=> InSched(h, x)
                            /\ InDispatch(h, x)' <=> InDispatch(h, x)
        /\ Ending(x)' <=> Ending(x)
    BY <1>3, Zenon DEF InSched, InDispatch, Ending
  <2>3. \A u \in Threads : InList(u, x) => cur'[u] = cur[u]
    <3>1. ~InList(t, x) BY <1>9, ListEmpty, Zenon DEF InList
    <3> QED BY <1>8, <3>1, Zenon DEF OnlyThread
  <2>4. /\ x \in live' <=> x \in live
        /\ x \in tagged' <=> x \in tagged
        /\ x \in submitted => x \in submitted'
    BY <1>5, <1>12, Zenon
  <2>5. Place(x)' /\ (Queued(x)' <=> Queued(x))
    BY <1>3, <1>11, <1>12, <2>1, <2>2, <2>3, <2>4, KeepsPlace, Zenon
  <2> QED BY <1>3, <2>1, <2>2, <2>4, <2>5, KeepsTag, Zenon
<1>13. Place(r)' /\ Tag(r)'
  <2>1. ~Ending(r)' /\ \A h \in Hctxs : ~InDispatch(h, r)' /\ ~InSched(h, r)'
    BY <1>3, <1>5, Zenon DEF Ending, InSched, InDispatch
  <2>2. InList(t, r)' /\ \A u \in Threads : InList(u, r)' => u = t
    BY <1>5, <1>6, <1>8, <1>9, Zenon DEF InList, OnlyThread
  <2>3. ~Queued(r)' BY <1>1, <2>1, Zenon DEF Queued
  <2>4. r \notin inDriver' /\ r \in live' /\ r \in submitted' BY <1>3, <1>5
  <2>5. Place(r)' BY <1>1, <1>9, <2>1, <2>2, <2>3, <2>4, Zenon DEF Place
  <2>6. Tag(r)' BY <1>5, <2>1, <2>3, <2>4, Zenon DEF Tag
  <2> QED BY <2>5, <2>6
<1>14. ASSUME NEW u \in Threads PROVE Carries(u)' /\ Holds(u)'
  <2>1. CASE u = t
    <3>1. Carries(t)' BY <1>6, <1>9, Zenon DEF Carries, Carrying
    <3>2. Holds(t)' BY <1>5, <1>6, <1>9, Zenon DEF Holds, InList
    <3> QED BY <2>1, <3>1, <3>2, Zenon
  <2>2. CASE u # t
    <3>1. \A x \in Requests : InList(u, x) => (x \in tagged' <=> x \in tagged) BY <1>5, Zenon
    <3> QED BY <1>4, <1>8, <2>2, <3>1, KeepsThread, Zenon DEF OnlyThread, MoveType, ThreadInv, TagInv
  <2> QED BY <2>1, <2>2
<1> QED BY <1>5, <1>7, <1>10, <1>12, <1>13, <1>14, Zenon DEF MoveInv, PlaceInv, ThreadInv, TagInv

\* The list of t goes to hctx->dispatch.
LEMMA ToDispatch ==
  ASSUME MoveInv, NEW t \in Threads, OnlyThread(t),
         UNCHANGED <<submitted, live, sched, tagged, inDriver, rphase, elevator>>,
         NEW s \in Seq(Requests), Distinct(s), Range(s) = Range(dispatch[cur[t]]) \cup Range(list[t]),
         dispatch' = [dispatch EXCEPT ![cur[t]] = s],
         list' \in [Threads -> Seq(Requests)], list'[t] = <<>>,
         pc' \in [Threads -> Reading \cup {"idle", "kick"}], cur' \in [Threads -> Hctxs],
         pc'[t] \notin Carrying,
         \A r \in Requests : elevator /\ InList(t, r) => r \notin tagged
  PROVE  MoveInv'
<1>1. PICK g \in Hctxs : g = cur[t] BY Zenon DEF MoveInv, MoveType
<1>2. MoveType /\ ListInv /\ PlaceInv /\ ThreadInv /\ TagInv BY Zenon DEF MoveInv
<1>3. dispatch'[g] = s /\ \A h \in Hctxs : h # g => dispatch'[h] = dispatch[h]
  BY <1>1, <1>2, Zenon DEF MoveType
<1>4. MoveType' BY <1>1, <1>2 DEF MoveType
<1>5. ListInv'
  <2>1. Distinct(list'[t]) BY ListEmpty, Zenon
  <2> QED BY <1>2, <1>3, <2>1, Zenon DEF ListInv, OnlyThread
<1>6. \A x \in Requests : InDispatch(g, x)' <=> InDispatch(g, x) \/ InList(t, x)
  BY <1>1, <1>3, Zenon DEF InDispatch, InList
<1>7. \A x \in Requests, h \in Hctxs :
        /\ InSched(h, x)' <=> InSched(h, x)
        /\ h # g => (InDispatch(h, x)' <=> InDispatch(h, x))
  BY <1>3, Zenon DEF InSched, InDispatch
<1>8. \A x \in Requests, u \in Threads :
        /\ ~InList(t, x)'
        /\ u # t => (InList(u, x)' <=> InList(u, x)) /\ cur'[u] = cur[u]
  BY EmptyList, Zenon DEF InList, OnlyThread
<1>9. ASSUME NEW x \in Requests PROVE Place(x)' /\ Tag(x)'
  <2>1. Place(x) /\ Tag(x) BY <1>2, Zenon DEF PlaceInv, TagInv
  <2>2. Ending(x)' <=> Ending(x) BY DEF Ending
  <2>3. CASE ~InList(t, x)
    <3>1. \A h \in Hctxs : InDispatch(h, x)' <=> InDispatch(h, x) BY <1>6, <1>7, <2>3, Zenon
    <3>2. \A u \in Threads : InList(u, x)' <=> InList(u, x) BY <1>8, <2>3, Zenon
    <3>3. \A u \in Threads : InList(u, x) => cur'[u] = cur[u] BY <1>8, <2>3, Zenon
    <3>4. Place(x)' /\ (Queued(x)' <=> Queued(x))
      BY <1>7, <2>1, <2>2, <3>1, <3>2, <3>3, KeepsPlace, Zenon
    <3> QED BY <2>1, <2>2, <3>4, KeepsTag, Zenon
  <2>4. CASE InList(t, x)
    <3>1. /\ HctxOf[x] = g /\ ~Queued(x) /\ x \notin inDriver /\ ~Ending(x)
          /\ x \in live /\ x \in submitted
          /\ \A u \in Threads : InList(u, x) => u = t
      BY <1>1, <2>1, <2>4, Zenon DEF Place
    <3>2. /\ ~InSched(g, x) /\ ~InDispatch(g, x)
          /\ \A h \in Hctxs : ~InSched(h, x) /\ ~InDispatch(h, x)
      BY <2>1, <3>1, Zenon DEF Place, Queued
    <3>3. /\ InDispatch(g, x)' /\ \A h \in Hctxs : InDispatch(h, x)' => h = g
          /\ \A h \in Hctxs : ~InSched(h, x)'
      BY <1>6, <1>7, <2>4, <3>2, Zenon
    <3>4. \A u \in Threads : ~InList(u, x)' BY <1>8, <3>1, Zenon
    <3>5. Queued(x)' /\ ~InSched(HctxOf[x], x)' BY <3>1, <3>3, Zenon DEF Queued
    <3>6. Place(x)' BY <2>2, <3>1, <3>3, <3>4, <3>5, Zenon DEF Place
    <3>7. Tag(x)' BY <2>1, <2>2, <2>4, <3>1, Zenon DEF Tag
    <3> QED BY <3>6, <3>7, Zenon
  <2> QED BY <2>3, <2>4, Zenon
<1>10. ASSUME NEW u \in Threads PROVE Carries(u)' /\ Holds(u)'
  <2>1. CASE u = t BY <2>1, EmptyList, Zenon
  <2>2. CASE u # t BY <1>2, <2>2, KeepsThread DEF OnlyThread, MoveType, ThreadInv, TagInv
  <2> QED BY <2>1, <2>2, Zenon
<1> QED BY <1>4, <1>5, <1>9, <1>10, Zenon DEF MoveInv, PlaceInv, ThreadInv, TagInv

\* Requests of hctx->dispatch or of the scheduler go to the list of t.
LEMMA ToList ==
  ASSUME MoveInv, NEW t \in Threads, OnlyThread(t),
         UNCHANGED <<submitted, live, tagged, inDriver, rphase, elevator>>,
         NEW s \in Seq(Requests), Distinct(s), s # <<>>, list[t] = <<>>, list'[t] = s,
         list' \in [Threads -> Seq(Requests)],
         sched' \in [Hctxs -> Seq(Requests)], dispatch' \in [Hctxs -> Seq(Requests)],
         pc' \in [Threads -> Reading \cup {"idle", "kick"}], cur' = cur,
         pc'[t] \in {"mark", "tag"},
         \A h \in Hctxs : Distinct(sched'[h]) /\ Distinct(dispatch'[h]),
         \A h \in Hctxs, x \in Requests :
            /\ InSched(h, x)' <=> InSched(h, x) /\ x \notin Range(s)
            /\ InDispatch(h, x)' <=> InDispatch(h, x) /\ x \notin Range(s),
         \A x \in Range(s) : InSched(cur[t], x) \/ InDispatch(cur[t], x)
  PROVE  MoveInv'
<1>1. PICK g \in Hctxs : g = cur[t] BY DEF MoveInv, MoveType
<1>2. MoveType /\ ListInv /\ PlaceInv /\ ThreadInv /\ TagInv BY Zenon DEF MoveInv
<1>3. MoveType' BY <1>2, Zenon DEF MoveType
<1>4. ListInv' BY <1>2, Zenon DEF ListInv, OnlyThread
<1>5. \A x \in Requests, u \in Threads :
        /\ ~InList(t, x) /\ (InList(t, x)' <=> x \in Range(s))
        /\ u # t => (InList(u, x)' <=> InList(u, x))
  <2>1. Range(list[t]) = {} BY ListEmpty
  <2> QED BY <2>1, Zenon DEF InList, OnlyThread
<1>6. ASSUME NEW x \in Requests PROVE Place(x)' /\ Tag(x)' /\ (x \in Range(s) => Queued(x))
  <2>1. Place(x) /\ Tag(x) BY <1>2, Zenon DEF PlaceInv, TagInv
  <2>2. Ending(x)' <=> Ending(x) BY Zenon DEF Ending
  <2>3. CASE x \notin Range(s)
    <3>1. \A h \in Hctxs : (InSched(h, x)' <=> InSched(h, x)) /\ (InDispatch(h, x)' <=> InDispatch(h, x))
      BY <2>3, Zenon
    <3>2. \A u \in Threads : InList(u, x)' <=> InList(u, x) BY <1>5, <2>3, Zenon
    <3>3. Place(x)' /\ (Queued(x)' <=> Queued(x)) BY <2>1, <2>2, <3>1, <3>2, KeepsPlace, Zenon
    <3> QED BY <2>1, <2>2, <2>3, <3>3, KeepsTag, Zenon
  <2>4. CASE x \in Range(s)
    <3>1. HctxOf[x] = g /\ Queued(x) BY <1>1, <2>1, <2>4, Zenon DEF Place, Queued
    <3>2. /\ x \notin inDriver /\ ~Ending(x) /\ x \in live /\ x \in submitted
          /\ \A u \in Threads : ~InList(u, x)
      BY <2>1, <3>1, Zenon DEF Place
    <3>3. \A h \in Hctxs : ~InSched(h, x)' /\ ~InDispatch(h, x)' BY <2>4, Zenon
    <3>4. InList(t, x)' /\ \A u \in Threads : InList(u, x)' => u = t BY <1>5, <2>4, <3>2, Zenon
    <3>5. ~Queued(x)' BY <3>1, <3>3, Zenon DEF Queued
    <3>6. Place(x)' BY <1>1, <2>2, <3>1, <3>2, <3>3, <3>4, <3>5, Zenon DEF Place
    <3>7. Tag(x)' BY <2>1, <2>2, <3>2, <3>5, Zenon DEF Tag
    <3> QED BY <3>1, <3>6, <3>7, Zenon
  <2> QED BY <2>3, <2>4, Zenon
<1>7. ASSUME NEW u \in Threads PROVE Carries(u)' /\ Holds(u)'
  <2>1. CASE u = t
    <3>1. Carries(t)' BY Zenon DEF Carries, Carrying
    <3>2. elevator => \A x \in Requests : InList(t, x)' => x \notin tagged
      BY <1>2, <1>5, <1>6, Zenon DEF TagInv, Tag
    <3>3. Holds(t)' BY <3>2, Zenon DEF Holds
    <3> QED BY <2>1, <3>1, <3>3, Zenon
  <2>2. CASE u # t BY <1>2, <2>2, KeepsThread DEF OnlyThread, MoveType, ThreadInv, TagInv
  <2> QED BY <2>1, <2>2, Zenon
<1> QED BY <1>3, <1>4, <1>6, <1>7, Zenon DEF MoveInv, PlaceInv, ThreadInv, TagInv

\* The first request on the list of t goes to the driver, or ends.
LEMMA HeadLeaves ==
  ASSUME MoveInv, NEW t \in Threads, OnlyThread(t), NEW r \in Requests, InList(t, r),
         UNCHANGED <<submitted, live, sched, dispatch, elevator>>,
         list' \in [Threads -> Seq(Requests)],
         Range(list'[t]) = Range(list[t]) \ {r}, Distinct(list'[t]),
         pc' \in [Threads -> Reading \cup {"idle", "kick"}], cur' \in [Threads -> Hctxs],
         list'[t] # <<>> => cur'[t] = cur[t],
         \/ inDriver' = inDriver \cup {r} /\ r \in tagged /\ UNCHANGED <<tagged, rphase>>
         \/ /\ tagged' = tagged \ {r} /\ rphase' = [rphase EXCEPT ![r] = "read"]
            /\ UNCHANGED inDriver,
         Carries(t)', Holds(t)'
  PROVE  MoveInv'
<1>1. MoveType /\ ListInv /\ PlaceInv /\ ThreadInv /\ TagInv BY Zenon DEF MoveInv
<1>2. MoveType' BY <1>1, Zenon DEF MoveType
<1>3. ListInv' BY <1>1 DEF ListInv, OnlyThread
<1>4. /\ Place(r) /\ Tag(r) /\ ~Queued(r) /\ r \notin inDriver /\ ~Ending(r) /\ r \in live
      /\ r \in submitted /\ \A u \in Threads : InList(u, r) => u = t
  BY <1>1, Zenon DEF PlaceInv, Place, TagInv
<1>5. /\ ~InList(t, r)'
      /\ \A x \in Requests, u \in Threads :
           x # r \/ u # t => (InList(u, x)' <=> InList(u, x))
  BY Zenon DEF InList, OnlyThread
<1>6. \A x \in Requests, h \in Hctxs :
        (InSched(h, x)' <=> InSched(h, x)) /\ (InDispatch(h, x)' <=> InDispatch(h, x))
  BY DEF InSched, InDispatch
<1>7. ASSUME NEW x \in Requests PROVE Place(x)' /\ Tag(x)'
  <2>1. Place(x) /\ Tag(x) BY <1>1, Zenon DEF PlaceInv, TagInv
  <2>2. CASE x # r
    <3>1. /\ Ending(x)' <=> Ending(x)
          /\ x \in inDriver' <=> x \in inDriver
          /\ x \in tagged' <=> x \in tagged
      BY <1>1, <2>2 DEF Ending, MoveType
    <3>2. \A u \in Threads : InList(u, x) => cur'[u] = cur[u]
      <4>1. InList(t, x) => list'[t] # <<>>
        <5>1. InList(t, x) => x \in Range(list'[t]) BY <2>2 DEF InList
        <5> QED BY <5>1, ListEmpty, Zenon
      <4> QED BY <4>1, Zenon DEF OnlyThread
    <3>3. Place(x)' /\ (Queued(x)' <=> Queued(x))
      BY <1>5, <1>6, <2>1, <2>2, <3>1, <3>2, KeepsPlace, Zenon
    <3> QED BY <2>1, <3>1, <3>3, KeepsTag, Zenon
  <2>3. CASE x = r
    <3>1. HctxOf[r] \in Hctxs BY MapType, Zenon
    <3>2. ~Queued(r)' /\ ~InSched(HctxOf[r], r)' /\ ~InDispatch(HctxOf[r], r)'
      BY <1>4, <1>6, <3>1, Zenon DEF Queued
    <3>3. \A u \in Threads : ~InList(u, r)' BY <1>4, <1>5, Zenon
    <3>4. \A h \in Hctxs : InSched(h, r)' \/ InDispatch(h, r)' => h = HctxOf[r]
      BY <1>4, <1>6, Zenon DEF Place
    <3>5. \/ r \in inDriver' /\ ~Ending(r)' /\ r \in tagged'
          \/ r \notin inDriver' /\ Ending(r)' /\ r \notin tagged'
      BY <1>1, <1>4 DEF Ending, MoveType
    <3>6. Place(r)' BY <1>4, <3>2, <3>3, <3>4, <3>5, Zenon DEF Place
    <3>7. Tag(r)' BY <1>4, <3>2, <3>5, Zenon DEF Tag
    <3> QED BY <2>3, <3>6, <3>7, Zenon
  <2> QED BY <2>2, <2>3, Zenon
<1>8. ASSUME NEW u \in Threads PROVE Carries(u)' /\ Holds(u)'
  <2>1. CASE u = t BY <2>1, Zenon
  <2>2. CASE u # t
    <3>1. \A x \in Requests : InList(u, x) => (x \in tagged' <=> x \in tagged) BY <1>4, <2>2, Zenon
    <3> QED BY <1>1, <2>2, <3>1, KeepsThread DEF OnlyThread, MoveType, ThreadInv, TagInv
  <2> QED BY <2>1, <2>2, Zenon
<1> QED BY <1>2, <1>3, <1>7, <1>8, Zenon DEF MoveInv, PlaceInv, ThreadInv, TagInv

LEMMA CompleteInv ==
  ASSUME MoveInv, NEW r \in Requests, Complete(r)
  PROVE  MoveInv'
<1>1. /\ r \in inDriver /\ inDriver' = inDriver \ {r} /\ tagged' = tagged \ {r}
      /\ rphase' = [rphase EXCEPT ![r] = "read"]
      /\ UNCHANGED <<submitted, live, sched, dispatch, pc, cur, list, elevator>>
  BY DEF Complete, EndRequest, PutTags, locals
<1>2. MoveType /\ ListInv /\ PlaceInv /\ ThreadInv /\ TagInv BY Zenon DEF MoveInv
<1>3. MoveType' BY <1>1, <1>2, Zenon DEF MoveType
<1>4. ListInv' BY <1>1, <1>2, Zenon DEF ListInv
<1>5. /\ Place(r) /\ Tag(r) /\ ~Queued(r) /\ ~Ending(r) /\ r \in live
      /\ r \in submitted /\ \A u \in Threads : ~InList(u, r)
  BY <1>1, <1>2, Zenon DEF PlaceInv, Place, TagInv
<1>6. \A x \in Requests :
        /\ \A h \in Hctxs : (InSched(h, x)' <=> InSched(h, x)) /\ (InDispatch(h, x)' <=> InDispatch(h, x))
        /\ \A u \in Threads : InList(u, x)' <=> InList(u, x)
  BY <1>1, Zenon DEF InSched, InDispatch, InList
<1>7. ASSUME NEW x \in Requests PROVE Place(x)' /\ Tag(x)'
  <2>1. Place(x) /\ Tag(x) BY <1>2, Zenon DEF PlaceInv, TagInv
  <2>2. CASE x # r
    <3>1. /\ Ending(x)' <=> Ending(x)
          /\ x \in inDriver' <=> x \in inDriver
          /\ x \in tagged' <=> x \in tagged
      BY <1>1, <1>2, <2>2, Zenon DEF Ending, MoveType
    <3>2. Place(x)' /\ (Queued(x)' <=> Queued(x)) BY <1>1, <1>6, <2>1, <3>1, KeepsPlace
    <3> QED BY <1>1, <2>1, <3>1, <3>2, KeepsTag, Zenon
  <2>3. CASE x = r
    <3>1. HctxOf[r] \in Hctxs BY MapType, Zenon
    <3>2. ~Queued(r)' /\ ~InSched(HctxOf[r], r)' /\ ~InDispatch(HctxOf[r], r)'
      BY <1>5, <1>6, <3>1, Zenon DEF Queued
    <3>3. \A u \in Threads : ~InList(u, r)' BY <1>5, <1>6
    <3>4. \A h \in Hctxs : InSched(h, r)' \/ InDispatch(h, r)' => h = HctxOf[r]
      BY <1>5, <1>6, Zenon DEF Place
    <3>5. r \notin inDriver' /\ Ending(r)' /\ r \notin tagged'
      BY <1>1, <1>2 DEF Ending, MoveType
    <3>6. Place(r)' BY <1>1, <1>5, <3>2, <3>3, <3>4, <3>5, Zenon DEF Place
    <3>7. Tag(r)' BY <3>2, <3>5, Zenon DEF Tag
    <3> QED BY <2>3, <3>6, <3>7
  <2> QED BY <2>2, <2>3
<1>8. ASSUME NEW u \in Threads PROVE Carries(u)' /\ Holds(u)'
  <2>1. \A x \in Requests : InList(u, x) => (x \in tagged' <=> x \in tagged) BY <1>1, <1>5, Zenon
  <2> QED BY <1>1, <1>2, <2>1, KeepsThread, Zenon DEF MoveType, ThreadInv, TagInv
<1> QED BY <1>3, <1>4, <1>7, <1>8, Zenon DEF MoveInv, PlaceInv, ThreadInv, TagInv

-----------------------------------------------------------------------------
(* The actions keep every request in its place, and its tag with it.       *)

LEMMA GotoFacts ==
  ASSUME MoveType, NEW t \in Threads, NEW label \in Reading \cup {"idle", "kick"}, Goto(t, label)
  PROVE  /\ pc' \in [Threads -> Reading \cup {"idle", "kick"}] /\ pc'[t] = label
         /\ \A x \in Threads : x # t => pc'[x] = pc[x]
BY DEF MoveType, Goto

LEMMA ReturnFacts ==
  ASSUME MoveType, NEW t \in Threads, Return(t)
  PROVE  /\ OnlyThread(t) /\ pc'[t] = "idle" /\ list'[t] = <<>>
         /\ pc' \in [Threads -> Reading \cup {"idle", "kick"}]
         /\ cur' \in [Threads -> Hctxs] /\ list' \in [Threads -> Seq(Requests)]
         /\ pc'[t] \notin Carrying /\ Carries(t)' /\ Holds(t)'
<1>1. AnyHctx \in Hctxs BY Zenon DEF AnyHctx, MoveType
<1>2. pc' \in [Threads -> Reading \cup {"idle", "kick"}] /\ pc'[t] = "idle" BY Zenon DEF MoveType, Return
<1>3. cur' \in [Threads -> Hctxs] BY <1>1, Zenon DEF MoveType, Return
<1>4. list' \in [Threads -> Seq(Requests)] /\ list'[t] = <<>> BY DEF MoveType, Return
<1>5. OnlyThread(t) BY DEF MoveType, Return, OnlyThread
<1>6. pc'[t] \notin Carrying BY <1>2, Zenon DEF Carrying
<1> QED BY <1>2, <1>3, <1>4, <1>5, <1>6, EmptyList, Zenon

\* A thread with an empty list returns.
LEMMA ReturnStep ==
  ASSUME MoveInv, NEW t \in Threads, Return(t), pc[t] \notin Carrying,
         UNCHANGED <<submitted, live, sched, dispatch, tagged, inDriver, rphase, elevator>>
  PROVE  MoveInv'
<1>1. MoveType /\ Carries(t) BY Zenon DEF MoveInv, ThreadInv
<1>2. list[t] = <<>> BY <1>1, Zenon DEF Carries
<1>3. list' = list BY <1>1, <1>2, Zenon DEF Return, MoveType
<1> QED BY <1>1, <1>2, <1>3, ReturnFacts, PcStep, Zenon

\* A thread goes on, and no request on its list has a tag a scheduler gave.
LEMMA GotoStep ==
  ASSUME MoveInv, NEW t \in Threads, NEW label \in Reading \cup {"idle", "kick"}, Goto(t, label),
         UNCHANGED <<submitted, live, sched, dispatch, tagged, inDriver, cur, list, rphase, elevator>>,
         label \in Carrying <=> pc[t] \in Carrying,
         label \notin {"next", "queue", "direct", "directq"},
         elevator => \A r \in Requests : InList(t, r) => r \notin tagged
  PROVE  MoveInv'
<1>1. MoveType /\ Carries(t) BY Zenon DEF MoveInv, ThreadInv
<1>2. /\ pc' \in [Threads -> Reading \cup {"idle", "kick"}] /\ pc'[t] = label
      /\ \A x \in Threads : x # t => pc'[x] = pc[x]
  BY <1>1, GotoFacts, Zenon
<1>3. OnlyThread(t) BY <1>2 DEF OnlyThread
<1>4. Carries(t)' BY <1>1, <1>2, Zenon DEF Carries
<1>5. Holds(t)' BY <1>2, Zenon DEF Holds, InList
<1>6. cur' \in [Threads -> Hctxs] BY <1>1, Zenon DEF MoveType
<1> QED BY <1>2, <1>3, <1>4, <1>5, <1>6, PcStep, Zenon

\* Where no request on the list of a thread has a tag a scheduler gave.
LEMMA Untagged ==
  ASSUME MoveInv, NEW t \in Threads, elevator,
         \/ pc[t] \notin {"tag", "next", "queue"}
         \/ pc[t] = "tag" /\ Head(list[t]) \notin tagged
  PROVE  \A r \in Requests : InList(t, r) => r \notin tagged
BY Zenon DEF MoveInv, TagInv, Holds

LEMMA MovingPc ==
  ASSUME MoveInv, NEW t \in Threads, elevator' = elevator,
         \/ RunHwQueue(t) \/ RunSync(t) \/ MarkRestart(t) \/ CountRestart(t)
         \/ MarkTagWait(t) \/ CheckRestart(t)
  PROVE  MoveInv'
<1>1. CASE RunHwQueue(t)
  <2>1. pc[t] \notin Carrying BY <1>1, Zenon DEF RunHwQueue, Carrying
  <2> QED BY <1>1, <2>1, ReturnStep, Zenon DEF RunHwQueue, ending
<1>2. CASE RunSync(t)
  <2>1. pc[t] = "sync" /\ pc[t] \notin Carrying BY <1>2, Zenon DEF RunSync, Carrying
  <2>2. UNCHANGED <<submitted, live, sched, dispatch, tagged, inDriver, rphase>> BY <1>2, Zenon DEF RunSync, ending
  <2>3. CASE Return(t) BY <2>1, <2>2, <2>3, ReturnStep, Zenon
  <2>4. CASE Goto(t, "start") /\ UNCHANGED <<cur, list>>
    <3>1. "start" \in Reading /\ "start" \notin Carrying BY Zenon DEF Reading, Carrying
    <3> QED BY <2>1, <2>2, <2>4, <3>1, Untagged, GotoStep, Zenon
  <2> QED BY <1>2, <2>3, <2>4 DEF RunSync
<1>3. CASE MarkRestart(t)
  <2>1. pc[t] = "mark" /\ pc[t] \in Carrying BY <1>3, Zenon DEF MarkRestart, Carrying
  <2>2. UNCHANGED <<submitted, live, sched, dispatch, tagged, inDriver, cur, list, rphase>>
    BY <1>3, Zenon DEF MarkRestart, ending
  <2>3. PICK label \in {"count", "tag"} : Goto(t, label) BY <1>3, Zenon DEF MarkRestart
  <2>4. label \in Reading /\ label \in Carrying BY Zenon DEF Reading, Carrying
  <2> QED BY <2>1, <2>2, <2>3, <2>4, Untagged, GotoStep
<1>4. CASE CountRestart(t)
  <2>1. pc[t] = "count" /\ pc[t] \in Carrying BY <1>4, Zenon DEF CountRestart, Carrying
  <2>2. UNCHANGED <<submitted, live, sched, dispatch, tagged, inDriver, cur, list, rphase>> /\ Goto(t, "tag")
    BY <1>4 DEF CountRestart, ending
  <2>3. "tag" \in Reading /\ "tag" \in Carrying BY Zenon DEF Reading, Carrying
  <2> QED BY <2>1, <2>2, <2>3, Untagged, GotoStep, Zenon
<1>5. CASE MarkTagWait(t)
  <2>1. pc[t] = "twait" /\ pc[t] \in Carrying BY <1>5, Zenon DEF MarkTagWait, Carrying
  <2>2. UNCHANGED <<submitted, live, sched, dispatch, tagged, inDriver, cur, list, rphase>>
    BY <1>5, Zenon DEF MarkTagWait, ending
  <2>3. PICK label \in {"retry", "splice"} : Goto(t, label) BY <1>5, Zenon DEF MarkTagWait
  <2>4. label \in Reading /\ label \in Carrying BY Zenon DEF Reading, Carrying
  <2> QED BY <2>1, <2>2, <2>3, <2>4, Untagged, GotoStep, Zenon
<1>6. CASE CheckRestart(t)
  <2>1. pc[t] \notin Carrying BY <1>6, Zenon DEF CheckRestart, Carrying
  <2>2. Return(t) /\ UNCHANGED <<submitted, live, sched, dispatch, tagged, inDriver, rphase>>
    BY <1>6, Zenon DEF CheckRestart, ending
  <2> QED BY <2>1, <2>2, ReturnStep
<1> QED BY <1>1, <1>2, <1>3, <1>4, <1>5, <1>6, Zenon

LEMMA RunWorkInv ==
  ASSUME MoveInv, NEW h \in Hctxs, RunWork(h)
  PROVE  MoveInv'
<1>1. h \in Threads /\ pc[h] = "idle" /\ pc[h] \notin Carrying BY Zenon DEF RunWork, Carrying, Threads
<1>2. /\ UNCHANGED <<submitted, live, sched, dispatch, tagged, inDriver, cur, list, rphase, elevator>>
      /\ Goto(h, "start")
  BY Zenon DEF RunWork, ending
<1>3. "start" \in Reading /\ "start" \notin Carrying BY Zenon DEF Reading, Carrying
<1> QED BY <1>1, <1>2, <1>3, Untagged, GotoStep, Zenon

\* list_splice(): the list of t and hctx->dispatch have nothing in common.
LEMMA SpliceFacts ==
  ASSUME MoveInv, NEW t \in Threads,
         NEW s, s = dispatch[cur[t]] \o list[t] \/ s = list[t] \o dispatch[cur[t]]
  PROVE  s \in Seq(Requests) /\ Distinct(s) /\ Range(s) = Range(dispatch[cur[t]]) \cup Range(list[t])
<1>1. PICK g \in Hctxs : g = cur[t] BY Zenon DEF MoveInv, MoveType
<1>2. PICK d \in Seq(Requests) : d = dispatch[g] /\ Distinct(d) BY Zenon DEF MoveInv, MoveType, ListInv
<1>3. PICK l \in Seq(Requests) : l = list[t] /\ Distinct(l) BY Zenon DEF MoveInv, MoveType, ListInv
<1>4. Range(d) \subseteq Requests /\ Range(l) \subseteq Requests BY ListElements, Zenon
<1>5. Range(d) \cap Range(l) = {}
  <2>1. ASSUME NEW x \in Requests, x \in Range(d), x \in Range(l) PROVE FALSE
    <3>1. Place(x) /\ InList(t, x) /\ InDispatch(g, x)
      BY <1>2, <1>3, <2>1 DEF MoveInv, PlaceInv, InList, InDispatch
    <3>2. HctxOf[x] = g BY <1>1, <3>1, Zenon DEF Place
    <3> QED BY <3>1, <3>2, Zenon DEF Place, Queued
  <2> QED BY <1>4, <2>1
<1>6. s = d \o l \/ s = l \o d BY <1>1, <1>2, <1>3, Zenon
<1>7. s \in Seq(Requests) /\ Distinct(s) /\ Range(s) = Range(d) \cup Range(l)
  <2>1. Distinct(d) /\ Distinct(l) BY <1>2, <1>3, Zenon
  <2>2. /\ d \o l \in Seq(Requests) /\ Distinct(d \o l)
        /\ Range(d \o l) = Range(d) \cup Range(l)
    BY <1>5, <2>1, ListConcat
  <2>3. Range(l) \cap Range(d) = {} BY <1>5, Zenon
  <2>4. /\ l \o d \in Seq(Requests) /\ Distinct(l \o d)
        /\ Range(l \o d) = Range(l) \cup Range(d)
    BY <2>1, <2>3, ListConcat
  <2> QED BY <1>6, <2>2, <2>4, Zenon
<1> QED BY <1>1, <1>2, <1>3, <1>7, Zenon

\* The list of t is spliced to hctx->dispatch and t goes on with an empty one.
LEMMA SpliceStep ==
  ASSUME MoveInv, NEW t \in Threads, NEW label \in Reading \ Carrying,
         dispatch' = [dispatch EXCEPT ![cur[t]] = @ \o list[t]]
           \/ dispatch' = [dispatch EXCEPT ![cur[t]] = list[t] \o @],
         Return(t) \/ (Goto(t, label) /\ list' = [list EXCEPT ![t] = <<>>] /\ cur' = cur),
         UNCHANGED <<submitted, live, sched, tagged, inDriver, rphase, elevator>>,
         pc[t] \notin {"tag", "next", "queue"}
  PROVE  MoveInv'
<1>1. MoveType BY Zenon DEF MoveInv
<1>2. cur[t] \in Hctxs /\ dispatch \in [Hctxs -> Seq(Requests)] BY <1>1 DEF MoveType
<1>3. PICK s : /\ s = dispatch[cur[t]] \o list[t] \/ s = list[t] \o dispatch[cur[t]]
               /\ dispatch' = [dispatch EXCEPT ![cur[t]] = s]
  BY <1>2, Zenon
<1>4. s \in Seq(Requests) /\ Distinct(s) /\ Range(s) = Range(dispatch[cur[t]]) \cup Range(list[t])
  BY <1>3, SpliceFacts, Zenon
<1>5. /\ OnlyThread(t) /\ list'[t] = <<>> /\ pc'[t] \notin Carrying
      /\ pc' \in [Threads -> Reading \cup {"idle", "kick"}]
      /\ cur' \in [Threads -> Hctxs] /\ list' \in [Threads -> Seq(Requests)]
  <2>1. CASE Return(t) BY <1>1, <2>1, ReturnFacts, Zenon
  <2>2. CASE Goto(t, label) /\ list' = [list EXCEPT ![t] = <<>>] /\ cur' = cur
    <3>1. /\ pc' \in [Threads -> Reading \cup {"idle", "kick"}] /\ pc'[t] = label
          /\ \A x \in Threads : x # t => pc'[x] = pc[x]
      BY <1>1, <2>2, GotoFacts, Zenon
    <3>2. list'[t] = <<>> /\ list' \in [Threads -> Seq(Requests)] /\ cur' \in [Threads -> Hctxs]
      BY <1>1, <2>2 DEF MoveType
    <3>3. OnlyThread(t) BY <1>1, <2>2, <3>1, Zenon DEF MoveType, OnlyThread
    <3> QED BY <3>1, <3>2, <3>3, Zenon
  <2> QED BY <2>1, <2>2, Zenon
<1>6. \A r \in Requests : elevator /\ InList(t, r) => r \notin tagged BY Untagged, Zenon
<1> QED BY <1>3, <1>4, <1>5, <1>6, ToDispatch, Zenon

LEMMA CheckDirectInv ==
  ASSUME MoveInv, NEW t \in Threads, CheckDirect(t), elevator' = elevator
  PROVE  MoveInv'
<1>1. pc[t] = "direct" /\ UNCHANGED <<submitted, live, sched, tagged, inDriver, rphase>>
  BY Zenon DEF CheckDirect, ending
<1>2. "sync" \in Reading \ Carrying BY DEF Reading, Carrying
<1>3. CASE BypassInsert(t) /\ Return(t)
  BY <1>1, <1>2, <1>3, SpliceStep, Zenon DEF BypassInsert
<1>4. CASE BypassInsert(t) /\ list' = [list EXCEPT ![t] = <<>>] /\ Goto(t, "sync") /\ cur' = cur
  BY <1>1, <1>2, <1>4, SpliceStep, Zenon DEF BypassInsert
<1>5. CASE ~elevator /\ Goto(t, "directq") /\ UNCHANGED <<dispatch, cur, list>>
  <2>1. MoveType /\ Carries(t) BY DEF MoveInv, ThreadInv
  <2>2. "directq" \in Reading BY Zenon DEF Reading
  <2>3. /\ pc' \in [Threads -> Reading \cup {"idle", "kick"}] /\ pc'[t] = "directq"
        /\ \A x \in Threads : x # t => pc'[x] = pc[x]
    BY <1>5, <2>1, <2>2, GotoFacts, Zenon
  <2>4. OnlyThread(t) BY <1>5, <2>3, Zenon DEF OnlyThread
  <2>5. list[t] # <<>> /\ Carries(t)' BY <1>1, <1>5, <2>1, <2>3, Zenon DEF Carries, Carrying
  <2>6. PICK r \in Requests : r = Head(list[t]) /\ InList(t, r)
    BY <2>1, <2>5, ListElements, Zenon DEF MoveType, InList
  <2>7. r \in tagged
    <3>1. Place(r) /\ Tag(r) BY Zenon DEF MoveInv, PlaceInv, TagInv
    <3>2. r \in live /\ ~Ending(r) BY <2>6, <3>1, Zenon DEF Place
    <3> QED BY <1>5, <3>1, <3>2 DEF Tag
  <2>8. Holds(t)' BY <1>1, <1>5, <2>3, <2>6, <2>7, Zenon DEF Holds
  <2>9. cur' \in [Threads -> Hctxs] BY <1>5, <2>1 DEF MoveType
  <2> QED BY <1>1, <1>5, <2>3, <2>4, <2>5, <2>8, <2>9, PcStep, Zenon
<1> QED BY <1>3, <1>4, <1>5, Zenon DEF CheckDirect

LEMMA SpliceBackInv ==
  ASSUME MoveInv, NEW t \in Threads, SpliceBack(t), elevator' = elevator
  PROVE  MoveInv'
<1>1. "check" \in Reading \ Carrying BY DEF Reading, Carrying
<1> QED BY <1>1, SpliceStep, Zenon DEF SpliceBack, ending

LEMMA StartDispatchInv ==
  ASSUME MoveInv, NEW t \in Threads, StartDispatch(t), elevator' = elevator
  PROVE  MoveInv'
<1>1. pc[t] = "start" /\ pc[t] \notin Carrying
      /\ UNCHANGED <<submitted, live, sched, tagged, inDriver, rphase>>
  BY DEF StartDispatch, Carrying, ending
<1>2. MoveType /\ Carries(t) BY Zenon DEF MoveInv, ThreadInv
<1>3. PICK g \in Hctxs : g = cur[t] BY <1>2, Zenon DEF MoveType
<1>4. CASE Return(t) /\ UNCHANGED dispatch BY <1>1, <1>4, ReturnStep, Zenon
<1>5. CASE Goto(t, "take") /\ UNCHANGED <<dispatch, cur, list>>
  <2>1. "take" \in Reading /\ "take" \notin Carrying BY DEF Reading, Carrying
  <2> QED BY <1>1, <1>5, <2>1, Untagged, GotoStep, Zenon
<1>6. CASE /\ dispatch[g] # <<>> /\ list' = [list EXCEPT ![t] = dispatch[g]]
           /\ dispatch' = [dispatch EXCEPT ![g] = <<>>] /\ Goto(t, "mark") /\ cur' = cur
  <2>1. PICK s \in Seq(Requests) : s = dispatch[g] /\ Distinct(s)
    BY <1>2, Zenon DEF MoveType, MoveInv, ListInv
  <2>2. "mark" \in Reading BY Zenon DEF Reading
  <2>3. /\ pc' \in [Threads -> Reading \cup {"idle", "kick"}] /\ pc'[t] = "mark"
        /\ \A x \in Threads : x # t => pc'[x] = pc[x]
    BY <1>2, <1>6, <2>2, GotoFacts, Zenon
  <2>4. /\ list' \in [Threads -> Seq(Requests)] /\ list'[t] = s
        /\ \A x \in Threads : x # t => list'[x] = list[x]
    BY <1>2, <1>6, <2>1, Zenon DEF MoveType
  <2>5. OnlyThread(t) BY <1>6, <2>3, <2>4, Zenon DEF OnlyThread
  <2>6. list[t] = <<>> BY <1>1, <1>2, Zenon DEF Carries
  <2>7. /\ dispatch' \in [Hctxs -> Seq(Requests)] /\ dispatch'[g] = <<>>
        /\ \A h \in Hctxs : h # g => dispatch'[h] = dispatch[h]
    BY <1>2, <1>6 DEF MoveType
  <2>8. sched' \in [Hctxs -> Seq(Requests)] BY <1>1, <1>2, Zenon DEF MoveType
  <2>9. \A h \in Hctxs : Distinct(sched'[h]) /\ Distinct(dispatch'[h])
    <3>1. Distinct(dispatch'[g]) BY <2>7, ListEmpty, Zenon
    <3> QED BY <1>1, <2>7, <3>1, Zenon DEF MoveInv, ListInv
  <2>10. \A h \in Hctxs, x \in Requests :
            /\ InSched(h, x)' <=> InSched(h, x) /\ x \notin Range(s)
            /\ InDispatch(h, x)' <=> InDispatch(h, x) /\ x \notin Range(s)
    <3> TAKE h \in Hctxs, x \in Requests
    <3>1. Place(x) BY DEF MoveInv, PlaceInv
    <3>2. x \in Range(s) <=> InDispatch(g, x) BY <2>1, Zenon DEF InDispatch
    <3>3. InSched(h, x)' <=> InSched(h, x) BY <1>1 DEF InSched
    <3>4. InSched(h, x) => ~InDispatch(g, x) BY <3>1, Zenon DEF Place
    <3>5. ~InDispatch(g, x)' BY <2>7, ListEmpty, Zenon DEF InDispatch
    <3>6. h # g => (InDispatch(h, x)' <=> InDispatch(h, x)) BY <2>7, Zenon DEF InDispatch
    <3>7. h # g /\ InDispatch(h, x) => ~InDispatch(g, x) BY <3>1, Zenon DEF Place
    <3>8. InDispatch(h, x)' <=> InDispatch(h, x) /\ ~InDispatch(g, x)
      <4>1. CASE h = g BY <3>5, <4>1, Zenon
      <4>2. CASE h # g BY <3>6, <3>7, <4>2, Zenon
      <4> QED BY <4>1, <4>2, Zenon
    <3> QED BY <3>2, <3>3, <3>4, <3>8, Zenon
  <2>11. \A x \in Range(s) : InSched(cur[t], x) \/ InDispatch(cur[t], x)
    BY <1>3, <2>1 DEF InDispatch
  <2> QED BY <1>1, <1>6, <2>1, <2>3, <2>4, <2>5, <2>6, <2>7, <2>8, <2>9, <2>10, <2>11, ToList, Zenon
<1> QED BY <1>3, <1>4, <1>5, <1>6, Zenon DEF StartDispatch

LEMMA TakeFromSchedInv ==
  ASSUME MoveInv, NEW t \in Threads, TakeFromSched(t), elevator' = elevator
  PROVE  MoveInv'
<1>1. pc[t] \notin Carrying
      /\ UNCHANGED <<submitted, live, dispatch, tagged, inDriver, rphase>>
  BY DEF TakeFromSched, Carrying, ending
<1>2. MoveType /\ Carries(t) BY DEF MoveInv, ThreadInv
<1>3. PICK g \in Hctxs : g = cur[t] BY <1>2 DEF MoveType
<1>4. CASE Return(t) /\ UNCHANGED sched BY <1>1, <1>4, ReturnStep
<1>5. ASSUME NEW s, NEW w \in Seq(Requests), s \in Seq(Requests), s # <<>>, Distinct(s), Distinct(w),
             Range(sched[g]) = Range(s) \cup Range(w), Range(s) \cap Range(w) = {},
             list' = [list EXCEPT ![t] = s], sched' = [sched EXCEPT ![g] = w],
             Goto(t, "tag"), cur' = cur
      PROVE  MoveInv'
  <2>1. "tag" \in Reading BY Zenon DEF Reading
  <2>2. /\ pc' \in [Threads -> Reading \cup {"idle", "kick"}] /\ pc'[t] = "tag"
        /\ \A x \in Threads : x # t => pc'[x] = pc[x]
    BY <1>2, <1>5, <2>1, GotoFacts, Zenon
  <2>3. /\ list' \in [Threads -> Seq(Requests)] /\ list'[t] = s
        /\ \A x \in Threads : x # t => list'[x] = list[x]
    BY <1>2, <1>5 DEF MoveType
  <2>4. OnlyThread(t) BY <1>5, <2>2, <2>3, Zenon DEF OnlyThread
  <2>5. list[t] = <<>> BY <1>1, <1>2, Zenon DEF Carries
  <2>6. /\ sched' \in [Hctxs -> Seq(Requests)] /\ sched'[g] = w
        /\ \A h \in Hctxs : h # g => sched'[h] = sched[h]
    BY <1>2, <1>5, Zenon DEF MoveType
  <2>7. dispatch' \in [Hctxs -> Seq(Requests)] BY <1>1, <1>2 DEF MoveType
  <2>8. \A h \in Hctxs : Distinct(sched'[h]) /\ Distinct(dispatch'[h])
    BY <1>1, <1>5, <2>6, Zenon DEF MoveInv, ListInv
  <2>9. \A h \in Hctxs, x \in Requests :
            /\ InSched(h, x)' <=> InSched(h, x) /\ x \notin Range(s)
            /\ InDispatch(h, x)' <=> InDispatch(h, x) /\ x \notin Range(s)
    <3> TAKE h \in Hctxs, x \in Requests
    <3>1. Place(x) BY Zenon DEF MoveInv, PlaceInv
    <3>2. x \in Range(s) => InSched(g, x) BY <1>5, Zenon DEF InSched
    <3>3. InDispatch(h, x)' <=> InDispatch(h, x) BY <1>1, Zenon DEF InDispatch
    <3>4. InDispatch(h, x) => ~InSched(g, x) BY <3>1, Zenon DEF Place
    <3>5. InSched(g, x)' <=> InSched(g, x) /\ x \notin Range(s) BY <1>5, <2>6, Zenon DEF InSched
    <3>6. h # g => (InSched(h, x)' <=> InSched(h, x)) BY <2>6 DEF InSched
    <3>7. h # g /\ InSched(h, x) => ~InSched(g, x) BY <3>1, Zenon DEF Place
    <3>8. InSched(h, x)' <=> InSched(h, x) /\ x \notin Range(s)
      <4>1. CASE h = g BY <3>5, <4>1, Zenon
      <4>2. CASE h # g BY <3>2, <3>6, <3>7, <4>2, Zenon
      <4> QED BY <4>1, <4>2, Zenon
    <3> QED BY <3>2, <3>3, <3>4, <3>8, Zenon
  <2>10. \A x \in Range(s) : InSched(cur[t], x) \/ InDispatch(cur[t], x)
    BY <1>3, <1>5 DEF InSched
  <2> QED BY <1>1, <1>5, <2>2, <2>3, <2>4, <2>5, <2>6, <2>7, <2>8, <2>9, <2>10, ToList, Zenon
<1>6. PICK q \in Seq(Requests) : q = sched[g] /\ Distinct(q) BY <1>2, Zenon DEF MoveType, MoveInv, ListInv
<1>7. CASE /\ q # <<>> /\ list' = [list EXCEPT ![t] = <<Head(q)>>]
           /\ sched' = [sched EXCEPT ![g] = Tail(q)] /\ Goto(t, "tag") /\ cur' = cur
  <2>1. /\ Head(q) \in Requests /\ Tail(q) \in Seq(Requests)
        /\ Range(q) = Range(Tail(q)) \cup {Head(q)}
        /\ Distinct(Tail(q)) /\ Head(q) \notin Range(Tail(q))
    BY <1>6, <1>7, ListTail
  <2>2. PICK s : s = <<Head(q)>> BY Zenon
  <2>3. s \in Seq(Requests) /\ Range(s) = {Head(q)} /\ Distinct(s) /\ s # <<>>
    BY <2>1, <2>2, ListOne, Zenon
  <2>4. Range(sched[g]) = Range(s) \cup Range(Tail(q)) /\ Range(s) \cap Range(Tail(q)) = {}
    BY <1>6, <2>1, <2>3, Zenon
  <2>5. list' = [list EXCEPT ![t] = s] BY <1>7, <2>2
  <2> QED BY <1>5, <1>7, <2>1, <2>3, <2>4, <2>5, Zenon
<1>8. CASE /\ q # <<>> /\ list' = [list EXCEPT ![t] = q]
           /\ sched' = [sched EXCEPT ![g] = <<>>] /\ Goto(t, "tag") /\ cur' = cur
  <2>1. PICK w : w = <<>> OBVIOUS
  <2>2. w \in Seq(Requests) /\ Distinct(w) /\ Range(w) = {} BY <2>1, ListEmpty
  <2>3. sched' = [sched EXCEPT ![g] = w] BY <1>8, <2>1, Zenon
  <2> QED BY <1>5, <1>6, <1>8, <2>2, <2>3, Zenon
<1>9. sched \in [Hctxs -> Seq(Requests)] BY <1>2 DEF MoveType
<1>10. [sched EXCEPT ![g] = Tail(@)] = [sched EXCEPT ![g] = Tail(q)] BY <1>6, <1>9, Zenon
<1> QED BY <1>3, <1>4, <1>6, <1>7, <1>8, <1>10, Zenon DEF TakeFromSched

\* The first request on the list of a thread that carries some.
LEMMA HeadFacts ==
  ASSUME MoveInv, NEW t \in Threads, pc[t] \in Carrying
  PROVE  /\ list[t] \in Seq(Requests) /\ list[t] # <<>> /\ Distinct(list[t])
         /\ Head(list[t]) \in Requests /\ InList(t, Head(list[t]))
<1>1. list[t] \in Seq(Requests) /\ list[t] # <<>> /\ Distinct(list[t])
  BY DEF MoveInv, MoveType, ThreadInv, Carries, ListInv
<1> QED BY <1>1, ListElements, ListTail, Zenon DEF InList

\* With a tag for the first request, the thread is at "next" or "queue".
LEMMA TaggedHead ==
  ASSUME MoveInv, NEW t \in Threads, pc[t] \in {"tag", "retry"},
         tagged' = tagged \cup {Head(list[t])},
         Goto(t, AfterTag(t)),
         UNCHANGED <<submitted, live, sched, dispatch, inDriver, cur, list, rphase, elevator>>
  PROVE  MoveInv'
<1>1. /\ list[t] \in Seq(Requests) /\ list[t] # <<>> /\ Distinct(list[t])
      /\ Head(list[t]) \in Requests /\ InList(t, Head(list[t]))
  BY HeadFacts, Zenon DEF Carrying
<1>2. PICK r \in Requests : r = Head(list[t]) BY <1>1, Zenon
<1>3. MoveType /\ Carries(t) /\ Holds(t) BY DEF MoveInv, ThreadInv, TagInv
<1>4. PICK label \in {"next", "queue"} : label = AfterTag(t) BY Zenon DEF AfterTag
<1>5. label \in Reading /\ label \in Carrying /\ (label = "next" => Len(list[t]) > 1)
  BY <1>4, Zenon DEF Reading, Carrying, AfterTag
<1>6. /\ pc' \in [Threads -> Reading \cup {"idle", "kick"}] /\ pc'[t] = label
      /\ \A x \in Threads : x # t => pc'[x] = pc[x]
  BY <1>3, <1>4, <1>5, GotoFacts, Zenon
<1>7. OnlyThread(t) BY <1>6 DEF OnlyThread
<1>8. Carries(t)' BY <1>1, <1>4, <1>5, <1>6, Zenon DEF Carries
<1>9. elevator => \A x \in Requests : InList(t, x) /\ x \in tagged => x = Head(list[t])
  BY <1>3, Zenon DEF Holds
<1>10. Holds(t)'
  <2>1. Head(list'[t]) \in tagged' BY <1>2, Zenon
  <2>2. elevator' => \A x \in Requests : InList(t, x)' /\ x \in tagged' => x = Head(list'[t])
    BY <1>9, Zenon DEF InList
  <2> QED BY <1>4, <1>6, <2>1, <2>2, Zenon DEF Holds
<1> QED BY <1>1, <1>2, <1>6, <1>7, <1>8, <1>10, TagStep, Zenon

LEMMA GetDriverTagInv ==
  ASSUME MoveInv, NEW t \in Threads, GetDriverTag(t), elevator' = elevator
  PROVE  MoveInv'
<1>1. /\ pc[t] = "tag" /\ pc[t] \in Carrying
      /\ UNCHANGED <<submitted, live, sched, dispatch, inDriver, cur, list, rphase>>
  BY Zenon DEF GetDriverTag, Carrying, ending
<1>2. CASE /\ Head(list[t]) \in tagged \/ TagFree
           /\ tagged' = tagged \cup {Head(list[t])} /\ Goto(t, AfterTag(t))
  BY <1>1, <1>2, TaggedHead, Zenon
<1>3. CASE Head(list[t]) \notin tagged /\ Goto(t, "twait") /\ UNCHANGED tagged
  <2>1. "twait" \in Reading /\ "twait" \in Carrying BY Zenon DEF Reading, Carrying
  <2> QED BY <1>1, <1>3, <2>1, Untagged, GotoStep, Zenon
<1> QED BY <1>2, <1>3, Zenon DEF GetDriverTag

LEMMA RetryTagInv ==
  ASSUME MoveInv, NEW t \in Threads, RetryTag(t), elevator' = elevator
  PROVE  MoveInv'
<1>1. /\ pc[t] = "retry" /\ pc[t] \in Carrying
      /\ UNCHANGED <<submitted, live, sched, dispatch, inDriver, cur, list, rphase>>
  BY Zenon DEF RetryTag, Carrying, ending
<1>2. CASE TagFree /\ tagged' = tagged \cup {Head(list[t])} /\ Goto(t, AfterTag(t))
  BY <1>1, <1>2, TaggedHead, Zenon
<1>3. CASE Goto(t, "splice") /\ UNCHANGED tagged
  <2>1. "splice" \in Reading /\ "splice" \in Carrying BY DEF Reading, Carrying
  <2> QED BY <1>1, <1>3, <2>1, Untagged, GotoStep, Zenon
<1> QED BY <1>2, <1>3, Zenon DEF RetryTag

LEMMA GetNextTagInv ==
  ASSUME MoveInv, NEW t \in Threads, GetNextTag(t), elevator' = elevator
  PROVE  MoveInv'
<1>1. /\ pc[t] = "next" /\ pc[t] \in Carrying /\ Goto(t, "queue")
      /\ UNCHANGED <<submitted, live, sched, dispatch, inDriver, cur, list, rphase>>
  BY Zenon DEF GetNextTag, Carrying, ending
<1>2. /\ list[t] \in Seq(Requests) /\ list[t] # <<>> /\ Distinct(list[t])
      /\ Head(list[t]) \in Requests /\ InList(t, Head(list[t]))
  BY <1>1, HeadFacts, Zenon
<1>3. MoveType /\ Carries(t) /\ Holds(t) BY Zenon DEF MoveInv, ThreadInv, TagInv
<1>4. Head(list[t]) \in tagged /\ Len(list[t]) > 1 BY <1>1, <1>3, Zenon DEF Holds, Carries
<1>5. list[t][2] \in Requests /\ InList(t, list[t][2]) BY <1>2, <1>4, ListSecond, Zenon DEF InList
<1>6. PICK r \in Requests : /\ r \in {Head(list[t]), list[t][2]} /\ InList(t, r)
                            /\ r \in tagged \/ TagFree
                            /\ tagged' = tagged \cup {r}
  <2>1. CASE TagFree BY <1>5, <2>1, Zenon DEF GetNextTag
  <2>2. CASE ~TagFree
    <3>1. tagged' = tagged \cup {Head(list[t])} BY <1>4, <2>2, Zenon DEF GetNextTag
    <3> QED BY <1>2, <1>4, <3>1, Zenon
  <2> QED BY <2>1, <2>2, Zenon
<1>7. "queue" \in Reading /\ "queue" \in Carrying BY Zenon DEF Reading, Carrying
<1>8. /\ pc' \in [Threads -> Reading \cup {"idle", "kick"}] /\ pc'[t] = "queue"
      /\ \A x \in Threads : x # t => pc'[x] = pc[x]
  BY <1>1, <1>3, <1>7, GotoFacts, Zenon
<1>9. OnlyThread(t) BY <1>1, <1>8, Zenon DEF OnlyThread
<1>10. Carries(t)' BY <1>1, <1>2, <1>7, <1>8, Zenon DEF Carries
<1>11. elevator => \A x \in Requests : InList(t, x) /\ x \in tagged => x = Head(list[t])
  BY <1>1, <1>3, Zenon DEF Holds
<1>12. Holds(t)'
  <2>1. Head(list'[t]) \in tagged' BY <1>1, <1>4, <1>6, Zenon
  <2>2. elevator' => \A x \in Requests : InList(t, x)' /\ x \in tagged' =>
           x = Head(list'[t]) \/ (Len(list'[t]) > 1 /\ x = list'[t][2])
    BY <1>1, <1>4, <1>6, <1>11, Zenon DEF InList
  <2> QED BY <1>8, <2>1, <2>2, Zenon DEF Holds
<1> QED BY <1>1, <1>6, <1>8, <1>9, <1>10, <1>12, TagStep, Zenon

LEMMA IssueDirectlyInv ==
  ASSUME MoveInv, NEW t \in Threads, IssueDirectly(t), elevator' = elevator
  PROVE  MoveInv'
<1>1. /\ pc[t] = "directq" /\ pc[t] \in Carrying
      /\ UNCHANGED <<submitted, live, sched>>
  BY Zenon DEF IssueDirectly, Carrying
<1>2. /\ list[t] \in Seq(Requests) /\ list[t] # <<>> /\ Distinct(list[t])
      /\ Head(list[t]) \in Requests /\ InList(t, Head(list[t]))
  BY <1>1, HeadFacts, Zenon
<1>3. PICK r \in Requests : r = Head(list[t]) BY <1>2, Zenon
<1>4. MoveType /\ Carries(t) /\ Holds(t) BY Zenon DEF MoveInv, ThreadInv, TagInv
<1>5. r \in tagged /\ Range(list[t]) = {r} BY <1>1, <1>3, <1>4 DEF Holds, Carries
<1>6. CASE /\ BypassInsert(t) /\ list' = [list EXCEPT ![t] = <<>>] /\ Goto(t, "sync")
           /\ UNCHANGED <<tagged, inDriver, rphase, cur>>
  <2>1. "sync" \in Reading \ Carrying BY DEF Reading, Carrying
  <2> QED BY <1>1, <1>6, <2>1, SpliceStep, Zenon DEF BypassInsert
<1>7. CASE /\ Return(t) /\ UNCHANGED dispatch
           /\ \/ inDriver' = inDriver \cup {r} /\ UNCHANGED <<tagged, rphase>>
              \/ /\ tagged' = tagged \ {r} /\ rphase' = [rphase EXCEPT ![r] = "read"]
                 /\ UNCHANGED inDriver
  <2>1. /\ OnlyThread(t) /\ pc'[t] = "idle" /\ list'[t] = <<>>
        /\ pc' \in [Threads -> Reading \cup {"idle", "kick"}]
        /\ cur' \in [Threads -> Hctxs] /\ list' \in [Threads -> Seq(Requests)]
        /\ pc'[t] \notin Carrying /\ Carries(t)' /\ Holds(t)'
    BY <1>4, <1>7, ReturnFacts, Zenon
  <2>2. Range(list'[t]) = {} /\ Distinct(list'[t]) BY <2>1, ListEmpty
  <2>3. Range(list'[t]) = Range(list[t]) \ {r} BY <1>5, <2>2, Zenon
  <2>4. InList(t, r) BY <1>2, <1>3, Zenon
  <2> QED BY <1>1, <1>5, <1>7, <2>1, <2>2, <2>3, <2>4, HeadLeaves, Zenon
<1> QED BY <1>3, <1>6, <1>7, Zenon DEF IssueDirectly, EndRequest, PutTags

\* queue_rq() took the first request or failed it: on with the next one.
LEMMA AdvanceInv ==
  ASSUME MoveInv, NEW t \in Threads, pc[t] = "queue", NEW r \in Requests, r = Head(list[t]),
         \/ inDriver' = inDriver \cup {r} /\ UNCHANGED <<tagged, rphase>>
         \/ /\ tagged' = tagged \ {r} /\ rphase' = [rphase EXCEPT ![r] = "read"]
            /\ UNCHANGED inDriver,
         list' = [list EXCEPT ![t] = Tail(list[t])],
         \/ Tail(list[t]) # <<>> /\ Goto(t, "tag") /\ cur' = cur
         \/ Tail(list[t]) = <<>> /\ Goto(t, "loop") /\ cur' = cur
         \/ Tail(list[t]) = <<>> /\ Return(t),
         UNCHANGED <<submitted, live, sched, dispatch, elevator>>
  PROVE  MoveInv'
<1>1. /\ list[t] \in Seq(Requests) /\ list[t] # <<>> /\ Distinct(list[t])
      /\ Head(list[t]) \in Requests /\ InList(t, r)
  BY HeadFacts, Zenon DEF Carrying
<1>2. MoveType /\ Carries(t) /\ Holds(t) BY DEF MoveInv, ThreadInv, TagInv
<1>3. PICK rest : rest = Tail(list[t]) BY Zenon
<1>4. /\ rest \in Seq(Requests) /\ Distinct(rest) /\ Range(rest) = Range(list[t]) \ {r}
      /\ r \notin Range(rest)
  <2>1. /\ Range(list[t]) = Range(rest) \cup {r} /\ r \notin Range(rest)
        /\ rest \in Seq(Requests) /\ Distinct(rest)
    BY <1>1, <1>3, ListTail, Zenon
  <2> QED BY <2>1, Zenon
<1>5. list' \in [Threads -> Seq(Requests)] /\ list'[t] = rest
      /\ \A x \in Threads : x # t => list'[x] = list[x]
  BY <1>2, <1>3, <1>4 DEF MoveType
<1>6. r \in tagged BY <1>2, Zenon DEF Holds
<1>7. /\ OnlyThread(t) /\ pc' \in [Threads -> Reading \cup {"idle", "kick"}]
      /\ cur' \in [Threads -> Hctxs] /\ (rest # <<>> => cur'[t] = cur[t])
      /\ Carries(t)' /\ Holds(t)'
  <2>1. CASE rest # <<>> /\ Goto(t, "tag") /\ cur' = cur
    <3>1. "tag" \in Reading /\ "tag" \in Carrying BY Zenon DEF Reading, Carrying
    <3>2. /\ pc' \in [Threads -> Reading \cup {"idle", "kick"}] /\ pc'[t] = "tag"
          /\ \A x \in Threads : x # t => pc'[x] = pc[x]
      BY <1>2, <2>1, <3>1, GotoFacts, Zenon
    <3>3. OnlyThread(t) BY <1>5, <2>1, <3>2, Zenon DEF OnlyThread
    <3>4. Carries(t)' BY <1>5, <2>1, <3>1, <3>2, Zenon DEF Carries
    <3>5. ASSUME elevator, NEW x \in Requests, x \in Range(rest), x \in tagged'
          PROVE  x = Head(rest)
      <4>1. x \in tagged /\ InList(t, x) /\ x # r BY <1>4, <3>5 DEF InList
      <4>2. Len(list[t]) > 1 /\ x = list[t][2] BY <1>2, <3>5, <4>1, Zenon DEF Holds
      <4> QED BY <1>1, <1>3, <4>2, ListSecond, Zenon
    <3>6. Holds(t)' BY <1>5, <3>2, <3>5, Zenon DEF Holds, InList
    <3>7. cur' \in [Threads -> Hctxs] BY <1>2, <2>1, Zenon DEF MoveType
    <3> QED BY <2>1, <3>2, <3>3, <3>4, <3>6, <3>7, Zenon
  <2>2. CASE rest = <<>> /\ Goto(t, "loop") /\ cur' = cur
    <3>1. "loop" \in Reading /\ "loop" \notin Carrying BY Zenon DEF Reading, Carrying
    <3>2. /\ pc' \in [Threads -> Reading \cup {"idle", "kick"}] /\ pc'[t] = "loop"
          /\ \A x \in Threads : x # t => pc'[x] = pc[x]
      BY <1>2, <2>2, <3>1, GotoFacts, Zenon
    <3>3. OnlyThread(t) BY <1>5, <2>2, <3>2, Zenon DEF OnlyThread
    <3>4. Carries(t)' /\ Holds(t)' BY <1>5, <2>2, <3>1, <3>2, EmptyList, Zenon
    <3>5. cur' \in [Threads -> Hctxs] BY <1>2, <2>2, Zenon DEF MoveType
    <3> QED BY <2>2, <3>2, <3>3, <3>4, <3>5, Zenon
  <2>3. CASE rest = <<>> /\ Return(t) BY <1>2, <2>3, ReturnFacts
  <2> QED BY <1>3, <2>1, <2>2, <2>3, Zenon
<1> QED BY <1>1, <1>4, <1>5, <1>6, <1>7, HeadLeaves, Zenon

LEMMA QueueRqInv ==
  ASSUME MoveInv, NEW t \in Threads, QueueRq(t), elevator' = elevator
  PROVE  MoveInv'
<1>1. /\ pc[t] = "queue" /\ pc[t] \in Carrying
      /\ UNCHANGED <<submitted, live, sched, dispatch>>
  BY Zenon DEF QueueRq, Carrying
<1>2. /\ list[t] \in Seq(Requests) /\ list[t] # <<>> /\ Distinct(list[t])
      /\ Head(list[t]) \in Requests /\ InList(t, Head(list[t]))
  BY <1>1, HeadFacts, Zenon
<1>3. MoveType /\ Carries(t) /\ Holds(t) BY DEF MoveInv, ThreadInv, TagInv
<1>4. CASE /\ \/ inDriver' = inDriver \cup {Head(list[t])} /\ UNCHANGED <<tagged, rphase>>
              \/ /\ tagged' = tagged \ {Head(list[t])}
                 /\ rphase' = [rphase EXCEPT ![Head(list[t])] = "read"]
                 /\ UNCHANGED inDriver
           /\ list' = [list EXCEPT ![t] = Tail(list[t])]
           /\ \/ Tail(list[t]) # <<>> /\ Goto(t, "tag") /\ cur' = cur
              \/ Tail(list[t]) = <<>> /\ Goto(t, "loop") /\ cur' = cur
              \/ Tail(list[t]) = <<>> /\ Return(t)
  BY <1>1, <1>2, <1>4, AdvanceInv, Zenon
<1>5. CASE /\ tagged' = tagged \ (IF elevator THEN Refused(t) ELSE {})
           /\ Goto(t, "splice") /\ UNCHANGED <<inDriver, rphase, cur, list>>
  <2>1. PICK R : R = IF elevator THEN Refused(t) ELSE {} BY Zenon
  <2>2. \A x \in R : elevator /\ InList(t, x) BY <2>1 DEF Refused, InList, Range
  <2>3. "splice" \in Reading /\ "splice" \in Carrying BY Zenon DEF Reading, Carrying
  <2>4. /\ pc' \in [Threads -> Reading \cup {"idle", "kick"}] /\ pc'[t] = "splice"
        /\ \A x \in Threads : x # t => pc'[x] = pc[x]
    BY <1>3, <1>5, <2>3, GotoFacts
  <2>5. OnlyThread(t) BY <1>5, <2>4, Zenon DEF OnlyThread
  <2>6. Carries(t)' BY <1>2, <1>5, <2>3, <2>4, Zenon DEF Carries
  <2>7. elevator => \A x \in Requests : InList(t, x) => x \notin tagged'
    <3> SUFFICES ASSUME elevator, NEW x \in Requests, InList(t, x), x \in tagged, x \notin Refused(t)
                 PROVE  FALSE
      BY <1>5, Zenon
    <3>1. DOMAIN list[t] = 1 .. Len(list[t]) /\ Len(list[t]) \in Nat /\ Len(list[t]) > 0
          /\ Head(list[t]) = list[t][1]
      BY <1>2
    <3>2. 1 \in DOMAIN list[t] \cap 1..2 /\ (Len(list[t]) > 1 => 2 \in DOMAIN list[t] \cap 1..2)
      BY <3>1
    <3>3. x # list[t][1] /\ (Len(list[t]) > 1 => x # list[t][2]) BY <3>2, Zenon DEF Refused
    <3> QED BY <1>1, <1>3, <3>1, <3>3, Zenon DEF Holds
  <2>8. Holds(t)' BY <1>5, <2>4, <2>7, Zenon DEF Holds, InList
  <2>9. tagged' = tagged \ R BY <1>5, <2>1, Zenon
  <2> QED BY <1>1, <1>5, <2>2, <2>4, <2>5, <2>6, <2>8, <2>9, DropTags, Zenon
<1> QED BY <1>4, <1>5, Zenon DEF QueueRq, EndRequest, PutTags

LEMMA StepMove ==
  ASSUME MoveInv, NEW t \in Threads, Step(t)
  PROVE  MoveInv'
BY MovingPc, CheckDirectInv, IssueDirectlyInv, StartDispatchInv, TakeFromSchedInv, GetDriverTagInv,
   RetryTagInv, GetNextTagInv, QueueRqInv, SpliceBackInv, Zenon DEF Step

LEMMA EndMove ==
  ASSUME MoveInv, NEW r \in Requests, End(r)
  PROVE  MoveInv'
<1>1. MoveType BY DEF MoveInv
<1>2. /\ rphase[r] # "none" /\ Ending(r)
      /\ UNCHANGED <<submitted, sched, dispatch, tagged, inDriver, pc, cur, list, elevator>>
  BY Zenon DEF End, ReadRestart, ClearRestart, RestartHctx, Ending, locals
<1>3. CASE Finish(r) BY <1>2, <1>3, FinishStep, Zenon
<1>4. ASSUME NEW phase \in {"scan", "rerun"}, rphase' = [rphase EXCEPT ![r] = phase], live' = live
      PROVE  MoveInv'
  <2>1. rphase' \in [Requests -> {"none", "read", "scan", "rerun"}] BY <1>1, <1>4, Zenon DEF MoveType
  <2>2. \A x \in Requests : Ending(x)' <=> Ending(x) BY <1>1, <1>2, <1>4, Zenon DEF Ending, MoveType
  <2> QED BY <1>2, <1>4, <2>1, <2>2, QuietStep, Zenon
<1>5. CASE live' = live /\ rphase' = rphase
  <2>1. rphase' \in [Requests -> {"none", "read", "scan", "rerun"}] BY <1>1, <1>5 DEF MoveType
  <2>2. \A x \in Requests : Ending(x)' <=> Ending(x) BY <1>5 DEF Ending
  <2> QED BY <1>2, <1>5, <2>1, <2>2, QuietStep, Zenon
<1>6. \/ Finish(r)
      \/ live' = live /\ rphase' = [rphase EXCEPT ![r] = "scan"]
      \/ live' = live /\ rphase' = [rphase EXCEPT ![r] = "rerun"]
      \/ live' = live /\ rphase' = rphase
  BY Zenon DEF End, ReadRestart, ClearRestart, RestartHctx
<1> QED BY <1>3, <1>4, <1>5, <1>6

\* Stopping, quiescing, and a step that changes nothing.
LEMMA OtherMove ==
  ASSUME MoveInv,
         \/ \E h \in Hctxs : StopHwQueue(h) \/ StartHwQueue(h) \/ QuiesceQueue(h) \/ Quiescing(h)
         \/ UNCHANGED vars
  PROVE  MoveInv'
<1>1. UNCHANGED <<submitted, live, sched, dispatch, tagged, inDriver, pc, cur, list, rphase, elevator>>
  BY Zenon DEF StopHwQueue, StartHwQueue, QuiesceQueue, Quiescing, Quiesced, UnquiesceQueue,
         RunAfterQuiesce, vars, locals, ending
<1>2. rphase' \in [Requests -> {"none", "read", "scan", "rerun"}] BY <1>1, Zenon DEF MoveInv, MoveType
<1>3. \A x \in Requests : Ending(x)' <=> Ending(x) BY <1>1, Zenon DEF Ending
<1> QED BY <1>1, <1>2, <1>3, QuietStep

LEMMA NextMove ==
  ASSUME MoveInv, [Next]_vars
  PROVE  MoveInv'
<1>1. ASSUME NEW t \in Tasks, Submit(t) PROVE MoveInv'
  <2>1. t \in Threads BY DEF Threads
  <2> QED BY <1>1, <2>1, InsertRequestInv, TryIssueDirectlyInv DEF Submit
<1> QED BY <1>1, StepMove, RunWorkInv, OtherMove, CompleteInv, EndMove, Zenon DEF Next

LEMMA InitMove ==
  ASSUME Init
  PROVE  MoveInv
<1>1. MoveType
  <2>1. AnyHctx \in Hctxs BY SomeHctx, Zenon DEF AnyHctx
  <2>2. cur \in [Threads -> Hctxs] BY <2>1, Zenon DEF Init, Threads
  <2>3. elevator \in BOOLEAN BY FlagTypes, Zenon DEF Init
  <2> QED BY <2>2, <2>3 DEF Init, MoveType
<1>2. /\ \A h \in Hctxs : sched[h] = <<>> /\ dispatch[h] = <<>>
      /\ \A t \in Threads : list[t] = <<>>
  BY Zenon DEF Init
<1>3. ListInv BY <1>2, ListEmpty, Zenon DEF ListInv
<1>4. ASSUME NEW r \in Requests
      PROVE  /\ r \notin live /\ r \notin inDriver /\ ~Ending(r)
             /\ \A h \in Hctxs : ~InSched(h, r) /\ ~InDispatch(h, r)
             /\ \A t \in Threads : ~InList(t, r)
  <2>1. r \notin live /\ r \notin inDriver /\ ~Ending(r) BY Zenon DEF Init, Ending
  <2> QED BY <1>2, <2>1, ListEmpty, Zenon DEF InSched, InDispatch, InList
<1>5. PlaceInv
  <2> SUFFICES ASSUME NEW r \in Requests PROVE Place(r) BY Zenon DEF PlaceInv
  <2>1. HctxOf[r] \in Hctxs BY MapType, Zenon
  <2>2. ~Queued(r) BY <1>4, <2>1, Zenon DEF Queued
  <2> QED BY <1>4, <2>1, <2>2, Zenon DEF Place
<1>6. ThreadInv BY Zenon DEF Init, ThreadInv, Carries, Carrying
<1>7. TagInv
  <2>1. tagged = {} BY Zenon DEF Init
  <2>2. \A r \in Requests : Tag(r) BY <1>4, <2>1, Zenon DEF Tag
  <2>3. \A t \in Threads : Holds(t) BY <2>1, Zenon DEF Init, Holds
  <2> QED BY <2>2, <2>3, Zenon DEF TagInv
<1> QED BY <1>1, <1>3, <1>5, <1>6, <1>7, Zenon DEF MoveInv

-----------------------------------------------------------------------------
(* The quiesced queues.                                                    *)

\* Where a step leaves its thread: in a dispatch it was in already or one it
\* entered when the queue was not quiesced.
Moves(t) ==
  /\ OnlyThread(t)
  /\ pc'[t] \in Busy => cur'[t] = cur[t] /\ (pc[t] \in Busy \/ ~quiesced[cur[t]])
  /\ pc[t] # "count" /\ pc'[t] # "count"

\* The thread goes on to label, in the same queue, perhaps with another list.
GoesOn(t, label) ==
  /\ Goto(t, label) /\ cur' = cur
  /\ list' = list \/ \E s : list' = [list EXCEPT ![t] = s]

LEMMA GoesOnMoves ==
  ASSUME MoveType, NEW t \in Threads, NEW label \in Reading \cup {"idle", "kick"}, GoesOn(t, label),
         pc[t] # "count", label # "count",
         label \in Busy => pc[t] \in Busy \/ ~quiesced[cur[t]]
  PROVE  Moves(t)
<1>1. pc'[t] = label /\ \A x \in Threads : x # t => pc'[x] = pc[x]
  BY GotoFacts, Zenon DEF GoesOn
<1>2. OnlyThread(t) BY <1>1, Zenon DEF OnlyThread, MoveType, GoesOn
<1> QED BY <1>1, <1>2, Zenon DEF Moves, GoesOn

LEMMA StepMoves ==
  ASSUME MoveType, NEW t \in Threads,
         \/ RunHwQueue(t) \/ CheckDirect(t) \/ IssueDirectly(t) \/ RunSync(t)
         \/ StartDispatch(t) \/ TakeFromSched(t)
         \/ GetDriverTag(t) \/ MarkTagWait(t) \/ RetryTag(t) \/ GetNextTag(t) \/ QueueRq(t)
         \/ SpliceBack(t) \/ CheckRestart(t)
  PROVE  Moves(t)
<1>1. /\ Busy = {"mark", "count", "take", "loop", "tag", "twait", "retry", "next",
                 "queue", "splice", "check", "directq"}
      /\ "idle" \notin Busy /\ "sync" \notin Busy /\ "start" \notin Busy
  BY DEF Busy, Reading
<1>2. ASSUME Return(t), pc[t] # "count" PROVE Moves(t)
  BY <1>1, <1>2, ReturnFacts, Zenon DEF Moves
<1>3. {"start", "take", "mark", "loop", "tag", "twait", "retry", "next", "queue", "splice", "check",
       "directq", "sync"} \subseteq Reading
  BY DEF Reading
<1>4. ASSUME NEW label \in {"start", "sync"}, GoesOn(t, label), pc[t] # "count" PROVE Moves(t)
  <2>1. label \in Reading /\ label # "count" /\ label \notin Busy BY <1>1, <1>3, Zenon
  <2> QED BY <1>4, <2>1, GoesOnMoves, Zenon
<1>5. ASSUME NEW label \in {"take", "mark", "tag", "twait", "retry", "next", "queue", "loop", "splice",
                            "check", "directq"},
             GoesOn(t, label), pc[t] # "count", pc[t] \in Busy \/ ~quiesced[cur[t]]
      PROVE  Moves(t)
  <2>1. label \in Reading /\ label # "count" BY <1>3, Zenon
  <2> QED BY <1>5, <2>1, GoesOnMoves, Zenon
<1>6. CASE RunHwQueue(t) BY <1>2, <1>6, Zenon DEF RunHwQueue
<1>7. CASE CheckDirect(t)
  <2>1. /\ pc[t] = "direct"
        /\ \/ Return(t) \/ GoesOn(t, "sync")
           \/ ~quiesced[cur[t]] /\ GoesOn(t, "directq")
    BY <1>7, Zenon DEF CheckDirect, GoesOn
  <2> QED BY <1>2, <1>4, <1>5, <2>1, Zenon
<1>8. CASE IssueDirectly(t)
  <2>1. pc[t] = "directq" /\ (Return(t) \/ GoesOn(t, "sync")) BY <1>8, Zenon DEF IssueDirectly, GoesOn
  <2> QED BY <1>2, <1>4, <2>1, Zenon
<1>9. CASE RunSync(t)
  <2>1. pc[t] = "sync" /\ (Return(t) \/ GoesOn(t, "start")) BY <1>9, Zenon DEF RunSync, GoesOn
  <2> QED BY <1>2, <1>4, <2>1, Zenon
<1>10. CASE StartDispatch(t)
  <2>1. /\ pc[t] = "start"
        /\ \/ Return(t)
           \/ /\ ~quiesced[cur[t]] /\ Goto(t, "mark") /\ cur' = cur
              /\ list' = [list EXCEPT ![t] = dispatch[cur[t]]]
           \/ ~quiesced[cur[t]] /\ Goto(t, "take") /\ cur' = cur /\ list' = list
    BY <1>10, Zenon DEF StartDispatch
  <2>2. ASSUME Goto(t, "mark"), cur' = cur, list' = [list EXCEPT ![t] = dispatch[cur[t]]]
        PROVE  GoesOn(t, "mark")
    BY <2>2, Zenon DEF GoesOn
  <2>3. ASSUME Goto(t, "take"), cur' = cur, list' = list PROVE GoesOn(t, "take")
    BY <2>3, Zenon DEF GoesOn
  <2> QED BY <1>2, <1>5, <2>1, <2>2, <2>3, Zenon
<1>11. CASE TakeFromSched(t)
  <2>1. pc[t] \in {"take", "loop"} /\ (Return(t) \/ GoesOn(t, "tag"))
    BY <1>11, Zenon DEF TakeFromSched, GoesOn
  <2>2. pc[t] \in Busy /\ pc[t] # "count" BY <1>1, <2>1, Zenon
  <2> QED BY <1>2, <1>5, <2>1, <2>2, Zenon
<1>12. AfterTag(t) \in {"next", "queue"} BY DEF AfterTag
<1>13. CASE GetDriverTag(t)
  <2>1. pc[t] = "tag" /\ (GoesOn(t, AfterTag(t)) \/ GoesOn(t, "twait"))
    BY <1>13, Zenon DEF GetDriverTag, GoesOn
  <2>2. pc[t] \in Busy /\ pc[t] # "count" BY <1>1, <2>1, Zenon
  <2> QED BY <1>5, <1>12, <2>1, <2>2, Zenon
<1>14. CASE MarkTagWait(t)
  <2>1. pc[t] = "twait" /\ (GoesOn(t, "retry") \/ GoesOn(t, "splice"))
    BY <1>14, Zenon DEF MarkTagWait, GoesOn
  <2>2. pc[t] \in Busy /\ pc[t] # "count" BY <1>1, <2>1, Zenon
  <2> QED BY <1>5, <2>1, <2>2, Zenon
<1>15. CASE RetryTag(t)
  <2>1. pc[t] = "retry" /\ (GoesOn(t, AfterTag(t)) \/ GoesOn(t, "splice"))
    BY <1>15, Zenon DEF RetryTag, GoesOn
  <2>2. pc[t] \in Busy /\ pc[t] # "count" BY <1>1, <2>1, Zenon
  <2> QED BY <1>5, <1>12, <2>1, <2>2, Zenon
<1>16. CASE GetNextTag(t)
  <2>1. pc[t] = "next" /\ GoesOn(t, "queue") BY <1>16, Zenon DEF GetNextTag, GoesOn
  <2>2. pc[t] \in Busy /\ pc[t] # "count" BY <1>1, <2>1, Zenon
  <2> QED BY <1>5, <2>1, <2>2, Zenon
<1>17. CASE QueueRq(t)
  <2>1. pc[t] = "queue" /\ (Return(t) \/ \E label \in {"tag", "loop", "splice"} : GoesOn(t, label))
    BY <1>17, Zenon DEF QueueRq, GoesOn
  <2>2. pc[t] \in Busy /\ pc[t] # "count" BY <1>1, <2>1, Zenon
  <2> QED BY <1>2, <1>5, <2>1, <2>2, Zenon
<1>18. CASE SpliceBack(t)
  <2>1. pc[t] = "splice" /\ GoesOn(t, "check") BY <1>18, Zenon DEF SpliceBack, GoesOn
  <2>2. pc[t] \in Busy /\ pc[t] # "count" BY <1>1, <2>1, Zenon
  <2> QED BY <1>5, <2>1, <2>2, Zenon
<1>19. CASE CheckRestart(t) BY <1>2, <1>19, Zenon DEF CheckRestart
<1> QED BY <1>6, <1>7, <1>8, <1>9, <1>10, <1>11, <1>13, <1>14, <1>15, <1>16, <1>17, <1>18, <1>19, Zenon

\* A step that leaves the quiesced queues alone.
LEMMA KeepsQuiesced ==
  ASSUME QuiesceInv, UNCHANGED quiesce,
         \A x \in Threads : pc'[x] \in Busy => pc[x] \in Busy /\ cur'[x] = cur[x]
  PROVE  QuiesceInv'
<1>1. quiesced' = quiesced /\ qpc' = qpc /\ readers' = readers BY DEF quiesce
<1>2. ASSUME NEW h \in Hctxs, qpc[h] \in {"sync", "on"}, NEW t \in Threads, pc'[t] \in Busy, cur'[t] = h
      PROVE  t \in readers[h]
  BY <1>2, Zenon DEF QuiesceInv
<1> QED BY <1>1, <1>2, Zenon DEF QuiesceInv

LEMMA NextQuiesced ==
  ASSUME MoveType, QuiesceInv, [Next]_vars
  PROVE  QuiesceInv'
<1>1. /\ "kick" \notin Busy /\ "direct" \notin Busy /\ "start" \notin Busy /\ "idle" \notin Busy
      /\ Busy \subseteq Reading /\ {"mark", "count", "tag"} \subseteq Busy
  BY Zenon DEF Busy, Reading
<1>2. ASSUME NEW t \in Tasks, Submit(t) PROVE QuiesceInv'
  <2>1. t \in Threads /\ UNCHANGED quiesce
        /\ (pc' = [pc EXCEPT ![t] = "kick"] \/ pc' = [pc EXCEPT ![t] = "direct"])
        /\ \E g : cur' = [cur EXCEPT ![t] = g]
    BY <1>2, Zenon DEF Submit, InsertRequest, TryIssueDirectly, Goto, Threads
  <2>2. \A x \in Threads : pc'[x] \in Busy => pc[x] \in Busy /\ cur'[x] = cur[x]
    BY <1>1, <2>1 DEF MoveType
  <2> QED BY <2>1, <2>2, KeepsQuiesced, Zenon
<1>3. ASSUME NEW t \in Threads, Step(t) PROVE QuiesceInv'
  <2>1. OnlyThread(t) /\ (pc'[t] \in Busy => cur'[t] = cur[t] /\ (pc[t] \in Busy \/ ~quiesced[cur[t]]))
    <3>1. CASE MarkRestart(t) \/ CountRestart(t)
      <4>1. PICK label \in {"count", "tag"} : Goto(t, label) BY <3>1, Zenon DEF MarkRestart, CountRestart
      <4>2. UNCHANGED <<cur, list>> /\ pc[t] \in Busy BY <1>1, <3>1, Zenon DEF MarkRestart, CountRestart
      <4>3. label \in Reading BY <1>1
      <4> QED BY <4>1, <4>2, <4>3, GotoFacts, Zenon DEF OnlyThread
    <3>2. CASE ~(MarkRestart(t) \/ CountRestart(t))
      <4>1. Moves(t) BY <1>3, <3>2, StepMoves, Zenon DEF Step
      <4> QED BY <4>1, Zenon DEF Moves
    <3> QED BY <3>1, <3>2, Zenon
  <2>2. UNCHANGED <<quiesced, qpc>>
    BY <1>3, Zenon DEF Step, RunHwQueue, CheckDirect, IssueDirectly, RunSync, StartDispatch, TakeFromSched,
                MarkRestart, CountRestart, GetDriverTag, MarkTagWait, RetryTag, GetNextTag, QueueRq,
                SpliceBack, CheckRestart
  <2>3. readers' = [h \in Hctxs |-> IF pc'[t] \in Reading THEN readers[h] ELSE readers[h] \ {t}]
    BY <1>3, Zenon DEF Step, LeaveRcu
  <2>4. readers' \in [Hctxs -> SUBSET Threads]
        /\ \A h \in Hctxs : /\ readers'[h] \subseteq readers[h]
                            /\ \A x \in readers[h] : x # t \/ pc'[t] \in Reading => x \in readers'[h]
    BY <2>3, Zenon DEF QuiesceInv
  <2>5. ASSUME NEW h \in Hctxs, qpc[h] \in {"sync", "on"}, NEW x \in Threads, pc'[x] \in Busy, cur'[x] = h
        PROVE  x \in readers'[h]
    <3>1. quiesced[h] /\ \A u \in Threads : pc[u] \in Busy /\ cur[u] = h => u \in readers[h]
      BY <2>5, Zenon DEF QuiesceInv
    <3>2. CASE x = t
      <4>1. pc[t] \in Busy /\ cur[t] = h BY <2>1, <2>5, <3>1, <3>2, Zenon
      <4>2. t \in readers[h] /\ pc'[t] \in Reading BY <1>1, <2>5, <3>1, <3>2, <4>1, Zenon
      <4> QED BY <2>4, <3>2, <4>2, Zenon
    <3>3. CASE x # t
      <4>1. pc[x] \in Busy /\ cur[x] = h BY <2>1, <2>5, <3>3, Zenon DEF OnlyThread
      <4> QED BY <2>4, <3>1, <3>3, <4>1, Zenon
    <3> QED BY <3>2, <3>3
  <2> QED BY <2>2, <2>4, <2>5, Zenon DEF QuiesceInv
<1>4. ASSUME NEW h \in Hctxs, RunWork(h) PROVE QuiesceInv'
  <2>1. UNCHANGED <<quiesce, cur>> /\ pc' = [pc EXCEPT ![h] = "start"]
    BY <1>4, Zenon DEF RunWork, Goto
  <2>2. \A x \in Threads : pc'[x] \in Busy => pc[x] \in Busy BY <1>1, <2>1, Zenon DEF MoveType
  <2> QED BY <2>1, <2>2, KeepsQuiesced, Zenon
<1>5. ASSUME UNCHANGED <<quiesce, pc, cur>> PROVE QuiesceInv' BY <1>5, KeepsQuiesced, Zenon
<1>6. ASSUME NEW h \in Hctxs, StopHwQueue(h) \/ StartHwQueue(h) PROVE QuiesceInv'
  BY <1>5, <1>6 DEF StopHwQueue, StartHwQueue, locals
<1>7. ASSUME NEW h \in Hctxs, QuiesceQueue(h) PROVE QuiesceInv'
  <2>1. /\ quiesced' = [quiesced EXCEPT ![h] = TRUE] /\ qpc' = [qpc EXCEPT ![h] = "sync"]
        /\ readers' = [readers EXCEPT ![h] = {t \in Threads : pc[t] \in Reading /\ cur[t] = h}]
        /\ UNCHANGED <<pc, cur>>
    BY <1>7, Zenon DEF QuiesceQueue, locals
  <2>2. /\ quiesced' \in [Hctxs -> BOOLEAN] /\ qpc' \in [Hctxs -> {"off", "sync", "on", "rerun"}]
        /\ readers' \in [Hctxs -> SUBSET Threads]
    BY <2>1, Zenon DEF QuiesceInv
  <2>3. \A g \in Hctxs :
         /\ qpc'[g] \in {"sync", "on"} =>
              quiesced'[g] /\ \A t \in Threads : pc'[t] \in Busy /\ cur'[t] = g => t \in readers'[g]
         /\ qpc'[g] = "on" => readers'[g] = {}
    <3> TAKE g \in Hctxs
    <3>1. CASE g = h BY <1>1, <2>1, <3>1, Zenon DEF QuiesceInv
    <3>2. CASE g # h BY <2>1, <3>2, Zenon DEF QuiesceInv
    <3> QED BY <3>1, <3>2, Zenon
  <2> QED BY <2>2, <2>3, Zenon DEF QuiesceInv
<1>8. ASSUME NEW h \in Hctxs, Quiescing(h) PROVE QuiesceInv'
  <2>1. UNCHANGED <<pc, cur>> BY <1>8, Zenon DEF Quiescing, Quiesced, UnquiesceQueue, RunAfterQuiesce, locals
  <2>2. CASE Quiesced(h) BY <2>1, <2>2, Zenon DEF Quiesced, QuiesceInv
  <2>3. CASE UnquiesceQueue(h) BY <2>1, <2>3 DEF UnquiesceQueue, QuiesceInv
  <2>4. CASE RunAfterQuiesce(h) BY <2>1, <2>4, Zenon DEF RunAfterQuiesce, QuiesceInv
  <2> QED BY <1>8, <2>2, <2>3, <2>4, Zenon DEF Quiescing
<1>9. ASSUME NEW r \in Requests, Complete(r) \/ End(r) PROVE QuiesceInv'
  BY <1>5, <1>9, Zenon DEF Complete, End, ReadRestart, ClearRestart, RestartHctx, locals
<1>10. CASE UNCHANGED vars BY <1>5, <1>10 DEF vars, locals
<1> QED BY <1>2, <1>3, <1>4, <1>6, <1>7, <1>8, <1>9, <1>10, Zenon DEF Next

-----------------------------------------------------------------------------
(* The tags.                                                               *)

\* Tags are given back, or one that is free is taken.
TagMove ==
  \/ tagged' \subseteq tagged
  \/ \E x : (x \in tagged \/ TagFree) /\ tagged' = tagged \cup {x}

LEMMA NextTags ==
  ASSUME [Next]_vars
  PROVE  TagMove
<1>1. ASSUME NEW t \in Tasks, Submit(t) PROVE TagMove
  <2>1. PICK r : Alloc(r) BY <1>1, Zenon DEF Submit, InsertRequest, TryIssueDirectly
  <2> QED BY <2>1 DEF Alloc, TagMove
<1>2. ASSUME NEW t \in Threads, Step(t) PROVE TagMove
  <2>1. CASE \/ RunHwQueue(t) \/ CheckDirect(t) \/ RunSync(t) \/ StartDispatch(t)
             \/ MarkRestart(t) \/ CountRestart(t) \/ TakeFromSched(t) \/ MarkTagWait(t)
             \/ SpliceBack(t) \/ CheckRestart(t)
    <3>1. tagged' = tagged
      BY <2>1, Zenon DEF RunHwQueue, CheckDirect, RunSync, StartDispatch, MarkRestart, CountRestart,
                         TakeFromSched, MarkTagWait, SpliceBack, CheckRestart
    <3> QED BY <3>1 DEF TagMove
  <2>2. CASE GetDriverTag(t) BY <2>2, Zenon DEF GetDriverTag, TagMove
  <2>3. CASE RetryTag(t) BY <2>3, Zenon DEF RetryTag, TagMove
  <2>4. CASE GetNextTag(t) BY <2>4, Zenon DEF GetNextTag, TagMove
  <2>5. CASE QueueRq(t) \/ IssueDirectly(t)
    <3>1. tagged' = tagged \/ \E R : tagged' = tagged \ R
      BY <2>5, Zenon DEF QueueRq, IssueDirectly, EndRequest, PutTags
    <3> QED BY <3>1, Zenon DEF TagMove
  <2> QED BY <1>2, <2>1, <2>2, <2>3, <2>4, <2>5, Zenon DEF Step
<1>3. ASSUME NEW h \in Hctxs, \/ RunWork(h) \/ StopHwQueue(h) \/ StartHwQueue(h)
                              \/ QuiesceQueue(h) \/ Quiescing(h)
      PROVE  TagMove
  <2>1. tagged' = tagged
    BY <1>3, Zenon DEF RunWork, StopHwQueue, StartHwQueue, QuiesceQueue, Quiescing, Quiesced,
                       UnquiesceQueue, RunAfterQuiesce
  <2> QED BY <2>1 DEF TagMove
<1>4. ASSUME NEW r \in Requests, Complete(r) PROVE TagMove
  <2>1. tagged' = tagged \ {r} BY <1>4 DEF Complete, EndRequest, PutTags
  <2> QED BY <2>1, Zenon DEF TagMove
<1>5. ASSUME NEW r \in Requests, End(r) PROVE TagMove
  <2>1. tagged' = tagged BY <1>5, Zenon DEF End, ReadRestart, ClearRestart, RestartHctx
  <2> QED BY <2>1 DEF TagMove
<1>6. CASE UNCHANGED vars BY <1>6 DEF vars, TagMove
<1> QED BY <1>1, <1>2, <1>3, <1>4, <1>5, <1>6, Zenon DEF Next

====
