---------------------------- MODULE Jbd2LogSpace ----------------------------
(***************************************************************************)
(* The geometry of the log: distances on the ring of blocks and between    *)
(* transaction numbers, the list of the transactions that still have to be *)
(* checkpointed, and what the handles, the checkpointing and               *)
(* jbd2_journal_flush() keep of the invariant LogInv.  And what the scan   *)
(* of the log after a power failure returns.  StillNeeded() and Scan are   *)
(* recursive functions: their properties are proved with a least           *)
(* counterexample.                                                         *)
(***************************************************************************)
EXTENDS Jbd2LogInv, WellFoundedInduction, TLAPS

\* Induction on the naturals, in the form that needs no operator: a nonempty set of
\* them has a least element.
LEMMA LeastNatural ==
  ASSUME NEW T, T \subseteq Nat, T # {}
  PROVE  \E n \in T : \A m \in T : n <= m
<1> DEFINE R == OpToRel(<, Nat)
<1>1. IsWellFoundedOn(R, Nat) BY NatLessThanWellFounded, Zenon
<1>2. \A x, y \in Nat : x < y => <<x, y>> \in R BY DEF OpToRel
<1> HIDE DEF R
<1>3. PICK x \in T : \A y \in T : <<y, x>> \notin R BY <1>1, WFMin, Zenon
<1>4. \A y \in T : x \in Nat /\ y \in Nat /\ ~(y < x) BY <1>2, <1>3, Zenon
<1> QED BY <1>4

\* The recursion of StillNeeded().
Kept(bufs, f, n) ==
  IF n = 0 THEN <<>>
  ELSE IF \E b \in Blocks : bufs[b].cp = checkpoint[n].tid
       THEN Append(f[n - 1], checkpoint[n])
       ELSE f[n - 1]

\* There is such a function, so that StillNeeded() computes with it.
LEMMA KeptDefined ==
  ASSUME NEW bufs, NEW N \in Nat
  PROVE  \E f : f = [n \in 0 .. N |-> Kept(bufs, f, n)]
<1> DEFINE Ok(m) == \E f : f = [n \in 0 .. m |-> Kept(bufs, f, n)]
           Bad == {m \in Nat : ~Ok(m)}
<1> SUFFICES ASSUME Bad # {} PROVE FALSE
  OBVIOUS
<1>1. PICK m \in Bad : \A k \in Bad : m <= k BY LeastNatural, Zenon
<1>2. m # 0
  <2> DEFINE f == [n \in 0 .. 0 |-> <<>>]
  <2>1. f = [n \in 0 .. 0 |-> Kept(bufs, f, n)] BY DEF Kept
  <2> HIDE DEF f
  <2>2. Ok(0) BY <2>1
  <2> QED BY <2>2, Zenon
<1>3. m - 1 \in Nat /\ Ok(m - 1) BY <1>1, <1>2
<1>4. PICK f : f = [n \in 0 .. m - 1 |-> Kept(bufs, f, n)] BY <1>3
<1> DEFINE g == [n \in 0 .. m |-> IF n = m THEN Kept(bufs, f, m) ELSE f[n]]
<1>5. \A n \in 0 .. m : n # 0 => g[n - 1] = f[n - 1] BY <1>3
<1>6. \A n \in 0 .. m : Kept(bufs, g, n) = Kept(bufs, f, n)
  <2> HIDE DEF g
  <2> QED BY <1>5 DEF Kept
<1>7. \A n \in 0 .. m - 1 : f[n] = Kept(bufs, f, n)
  <2> DEFINE K(n) == Kept(bufs, f, n)
  <2>1. f = [n \in 0 .. m - 1 |-> K(n)] BY <1>4
  <2> HIDE DEF K
  <2>2. \A n \in 0 .. m - 1 : f[n] = K(n) BY <2>1
  <2> QED BY <2>2 DEF K
<1>8. g = [n \in 0 .. m |-> Kept(bufs, g, n)] BY <1>3, <1>6, <1>7
<1>9. Ok(m)
  <2> HIDE DEF g
  <2> QED BY <1>8
<1> QED BY <1>9

-----------------------------------------------------------------------------
\* j_first .. j_last - 1 is a ring of at least one block.
LEMMA RingType == Ring \in Nat /\ Ring >= 1 /\ LogBlocks = 1 .. Ring
BY Jbd2Assumption DEF Ring, LogBlocks

\* A distance on the ring is less than a turn, and zero from a block to itself only.
LEMMA AheadType ==
  ASSUME NEW a \in LogBlocks, NEW b \in LogBlocks
  PROVE  /\ Ahead(a, b) \in 0 .. Ring - 1
         /\ Ahead(a, b) = 0 <=> a = b
BY RingType DEF Ahead

\* Distances add up when they make less than a turn.
LEMMA AheadSum ==
  ASSUME NEW a \in LogBlocks, NEW b \in LogBlocks, NEW c \in LogBlocks
  PROVE  /\ Ahead(a, b) + Ahead(b, c) < Ring => Ahead(a, c) = Ahead(a, b) + Ahead(b, c)
         /\ Ahead(b, c) <= Ahead(a, c) => Ahead(a, c) = Ahead(a, b) + Ahead(b, c)
BY RingType DEF Ahead

\* next_log_block() n times.
LEMMA AheadTake ==
  ASSUME NEW a \in LogBlocks, NEW b \in LogBlocks, NEW n \in Nat, Ahead(a, b) + n < Ring
  PROVE  LogAdd(b, n) \in LogBlocks /\ Ahead(a, LogAdd(b, n)) = Ahead(a, b) + n
<1>1. Ring \in Nat /\ LogBlocks = 1 .. Ring /\ Maxlen = Ring + 1
  BY RingType, Jbd2Assumption DEF Ring
<1> QED BY <1>1 DEF Ahead, LogAdd

\* Transaction numbers wrap, and a distance grows by one with each.
LEMMA TidType ==
  ASSUME NEW x \in Tid, NEW y \in Tid
  PROVE  /\ TidDistance(x, y) \in Tid
         /\ TidDistance(x, y) = 0 <=> x = y
         /\ TidPlus(x, 1) \in Tid /\ TidMinus(x, 1) \in Tid
         /\ TidMinus(TidPlus(x, 1), 1) = x /\ TidPlus(TidMinus(x, 1), 1) = x
         /\ TidDistance(x, y) < TidMod - 1 =>
              TidDistance(TidPlus(x, 1), y) = TidDistance(x, y) + 1
BY TidHalfAssumption DEF TidDistance, TidPlus, TidMinus, Tid, TidMod

\* tid_gt() tells which of two is nearer to e, when both are within half of the
\* numbers behind it.
LEMMA TidLater ==
  ASSUME NEW e \in Tid, NEW x \in Tid, NEW y \in Tid,
         TidDistance(e, x) < TidHalf, TidDistance(e, y) < TidHalf
  PROVE  tid_gt(x, y) <=> TidDistance(e, x) < TidDistance(e, y)
BY TidHalfAssumption DEF TidDistance, Tid, TidMod, tid_gt, TidDifference

\* The same of places: their distances are numbers, and zero for the same one.
LEMMA PlaceType ==
  ASSUME NEW e \in Place, NEW t \in Place
  PROVE  /\ Age(e, t) \in Tid /\ Room(e, t) \in 0 .. Ring - 1
         /\ Age(e, e) = 0 /\ Room(e, e) = 0
         /\ Age(e, t) = 0 <=> e.tid = t.tid
         /\ Room(e, t) = 0 <=> e.start = t.start
<1>1. e.tid \in Tid /\ e.start \in LogBlocks /\ t.tid \in Tid /\ t.start \in LogBlocks
  BY DEF Place
<1>2. Age(e, t) \in Tid /\ (Age(e, t) = 0 <=> e.tid = t.tid) /\ Age(e, e) = 0
  BY <1>1, TidType DEF Age
<1>3. Room(e, t) \in 0 .. Ring - 1 /\ (Room(e, t) = 0 <=> e.start = t.start) /\ Room(e, e) = 0
  BY <1>1, AheadType, SMTT(20) DEF Room
<1> QED BY <1>2, <1>3

\* The commit of the transaction at e ends and the next one begins at f.
LEMMA PlaceAdvance ==
  ASSUME NEW e \in Place, NEW f \in Place, NEW t \in Place, Maxlen <= TidHalf,
         f.tid = TidPlus(e.tid, 1), e.start # f.start, Placed(e, t),
         Room(e, t) + Room(f, e) < Ring
  PROVE  /\ Age(f, t) = Age(e, t) + 1
         /\ Room(f, t) = Room(e, t) + Room(f, e)
         /\ Room(f, e) >= 1
         /\ Age(f, e) = 1
         /\ Placed(f, t) /\ Placed(f, e)
<1>1. e.tid \in Tid /\ e.start \in LogBlocks /\ t.tid \in Tid /\ t.start \in LogBlocks /\ f.start \in LogBlocks
  BY DEF Place
<1>2. /\ Age(e, t) \in Nat /\ Room(e, t) \in Nat /\ Room(f, e) \in Nat /\ Room(e, t) < Ring
      /\ Room(f, e) # 0 /\ Age(e, e) = 0
  BY PlaceType, RingType, SMTT(20) DEF Tid
<1>3. Ring < TidMod - 1 /\ Ring \in Nat /\ TidMod \in Nat 
  BY RingType, Jbd2Assumption, TidHalfAssumption DEF Ring, TidMod
<1>4. Age(f, t) = Age(e, t) + 1
  BY <1>1, <1>2, <1>3, TidType DEF Age, Placed
<1>5. Age(f, e) = 1
  BY <1>1, <1>2, <1>3, TidType DEF Age
<1>6. Room(f, t) = Room(e, t) + Room(f, e)
  BY <1>1, AheadSum DEF Room
<1> QED BY <1>2, <1>4, <1>5, <1>6, SMTT(20) DEF Placed

\* ... seen from f, what was between the tail t and e is still behind the tail, and in
\* the same order.
LEMMA ListedAdvance ==
  ASSUME NEW e \in Place, NEW f \in Place, NEW t \in Place, Maxlen <= TidHalf,
         f.tid = TidPlus(e.tid, 1), e.start # f.start, Placed(e, t),
         Room(e, t) + Room(f, e) < Ring,
         NEW p \in Place, Placed(e, p), Room(e, p) <= Room(e, t),
         NEW q \in Place, Placed(e, q), Room(e, q) <= Room(e, t), Later(e, p, q)
  PROVE  /\ Placed(f, p) /\ Age(f, p) >= 1 /\ Room(f, p) <= Room(f, t)
         /\ Later(f, p, q)
<1>1. /\ Room(e, p) \in Nat /\ Room(e, q) \in Nat /\ Room(e, t) \in Nat /\ Room(f, e) \in Nat
      /\ Age(e, p) \in Nat /\ Age(e, q) \in Nat /\ Ring \in Nat
  BY PlaceType, RingType DEF Tid
<1>2. Room(e, p) + Room(f, e) < Ring /\ Room(e, q) + Room(f, e) < Ring
  BY <1>1
<1>3. /\ Age(f, p) = Age(e, p) + 1 /\ Room(f, p) = Room(e, p) + Room(f, e) /\ Placed(f, p)
  BY <1>2, PlaceAdvance
<1>4. /\ Age(f, q) = Age(e, q) + 1 /\ Room(f, q) = Room(e, q) + Room(f, e)
  BY <1>2, PlaceAdvance
<1>5. Room(f, t) = Room(e, t) + Room(f, e)
  BY PlaceAdvance
<1> QED BY <1>1, <1>3, <1>4, <1>5, SMTT(20) DEF Later

\* A list with or without an entry more at its end.
LEMMA ListGrows ==
  ASSUME NEW L \in Seq(Place), NEW e \in Place, NEW M, M = L \/ M = Append(L, e)
  PROVE  /\ M \in Seq(Place)
         /\ \A i \in DOMAIN M : \/ i \in DOMAIN L /\ M[i] = L[i]
                                \/ i = Len(L) + 1 /\ M[i] = e
         /\ \A i \in DOMAIN L : L[i] \in Place /\ i \in Nat /\ i <= Len(L)
<1>1. CASE M = L BY <1>1
<1>2. CASE M = Append(L, e) BY <1>2
<1> QED BY <1>1, <1>2

\* ... and a list L of such places stays one, with or without e at its end.
LEMMA ListAdvance ==
  ASSUME NEW e \in Place, NEW f \in Place, NEW t \in Place, Maxlen <= TidHalf,
         f.tid = TidPlus(e.tid, 1), e.start # f.start, Placed(e, t),
         Room(e, t) + Room(f, e) < Ring,
         NEW L \in Seq(Place), NEW M, M = L \/ M = Append(L, e),
         \A i \in DOMAIN L : Placed(e, L[i]) /\ Room(e, L[i]) <= Room(e, t),
         \A i, j \in DOMAIN L : i < j => Later(e, L[i], L[j])
  PROVE  /\ M \in Seq(Place)
         /\ \A i \in DOMAIN M :
              Placed(f, M[i]) /\ Age(f, M[i]) >= 1 /\ Room(f, M[i]) <= Room(f, t)
         /\ \A i, j \in DOMAIN M : i < j => Later(f, M[i], M[j])
<1> DEFINE On(p) == p \in Place /\ Placed(e, p) /\ Room(e, p) <= Room(e, t)
<1>1. /\ M \in Seq(Place)
      /\ \A i \in DOMAIN M : \/ i \in DOMAIN L /\ M[i] = L[i]
                             \/ i = Len(L) + 1 /\ M[i] = e
      /\ \A i \in DOMAIN L : L[i] \in Place /\ i \in Nat /\ i <= Len(L)
  BY ListGrows
<1>2. On(e) /\ Age(e, e) = 0 /\ Room(e, e) = 0
  BY PlaceType, RingType DEF Placed
<1>3. \A i \in DOMAIN M : On(M[i])
  BY <1>1, <1>2, Zenon
<1>4. \A p \in Place : Later(e, p, p) /\ Later(e, p, e)
  <2> TAKE p \in Place
  <2>1. Age(e, p) \in Nat /\ Room(e, p) \in Nat BY PlaceType, RingType DEF Tid
  <2> QED BY <1>2, <2>1 DEF Later
<1>5. ASSUME NEW i \in DOMAIN M, NEW j \in DOMAIN M, i < j
      PROVE  Later(e, M[i], M[j])
  <2>1. i \in DOMAIN L /\ M[i] = L[i] BY <1>1, <1>5
  <2>2. CASE j \in DOMAIN L /\ M[j] = L[j] BY <1>5, <2>1, <2>2
  <2>3. CASE M[j] = e BY <1>3, <1>4, <2>3
  <2> QED BY <1>1, <2>2, <2>3
<1>6. ASSUME NEW p, On(p), NEW q, On(q), Later(e, p, q)
      PROVE  /\ Placed(f, p) /\ Age(f, p) >= 1 /\ Room(f, p) <= Room(f, t)
             /\ Later(f, p, q)
  BY <1>6, ListedAdvance
<1>7. \A i \in DOMAIN M : Later(e, M[i], M[i]) BY <1>3, <1>4
<1> HIDE DEF On
<1> QED BY <1>1, <1>3, <1>5, <1>6, <1>7

-----------------------------------------------------------------------------
\* A list with some of the entries that another one has at certain places, in the
\* same order.
ThinnedFrom(new, old, places) ==
  /\ \A i \in DOMAIN new : \E k \in places : new[i] = old[k]
  /\ \A i, j \in DOMAIN new : i < j =>
       \E k, l \in places : k < l /\ new[i] = old[k] /\ new[j] = old[l]

\* ... at any of its places.
Thinned(new, old) == ThinnedFrom(new, old, DOMAIN old)

\* StillNeeded() drops entries of the checkpoint list and keeps the order of the others.
LEMMA KeptThins ==
  ASSUME NEW bufs, checkpoint \in Seq(Place)
  PROVE  StillNeeded(bufs) \in Seq(Place) /\ Thinned(StillNeeded(bufs), checkpoint)
<1> DEFINE N == Len(checkpoint)
           f == CHOOSE g : g = [n \in 0 .. N |-> Kept(bufs, g, n)]
           Upto(s, m) == s \in Seq(Place) /\ ThinnedFrom(s, checkpoint, 1 .. m)
           Bad == {m \in 0 .. N : ~Upto(f[m], m)}
<1>1. N \in Nat /\ DOMAIN checkpoint = 1 .. N /\ \A k \in 1 .. N : checkpoint[k] \in Place
  OBVIOUS
<1>2. StillNeeded(bufs) = f[N] BY DEF StillNeeded, Kept
<1>3. \A n \in 0 .. N : f[n] = Kept(bufs, f, n)
  <2>1. f = [n \in 0 .. N |-> Kept(bufs, f, n)] BY <1>1, KeptDefined
  <2> DEFINE K(n) == Kept(bufs, f, n)
  <2>2. f = [n \in 0 .. N |-> K(n)] BY <2>1
  <2> HIDE DEF K, f
  <2>3. \A n \in 0 .. N : f[n] = K(n) BY <2>2
  <2> QED BY <2>3 DEF K
<1> HIDE DEF f
<1>4. Upto(<<>>, 0) BY DEF ThinnedFrom
<1>5. ASSUME NEW s, NEW m \in 1 .. N, Upto(s, m - 1) PROVE Upto(s, m)
  <2>1. \A k \in 1 .. m - 1 : k \in 1 .. m BY <1>1
  <2>2. \A i \in DOMAIN s : \E k \in 1 .. m : s[i] = checkpoint[k] BY <1>5, <2>1 DEF ThinnedFrom
  <2>3. ASSUME NEW i \in DOMAIN s, NEW j \in DOMAIN s, i < j
        PROVE  \E k, l \in 1 .. m : k < l /\ s[i] = checkpoint[k] /\ s[j] = checkpoint[l]
    <3>1. PICK k \in 1 .. m - 1, l \in 1 .. m - 1 :
            k < l /\ s[i] = checkpoint[k] /\ s[j] = checkpoint[l]
      BY <1>5, <2>3 DEF ThinnedFrom
    <3> QED BY <2>1, <3>1
  <2> QED BY <1>5, <2>2, <2>3 DEF ThinnedFrom
<1>6. ASSUME NEW s, NEW m \in 1 .. N, Upto(s, m - 1) PROVE Upto(Append(s, checkpoint[m]), m)
  <2> DEFINE t == Append(s, checkpoint[m])
  <2>1. /\ s \in Seq(Place) /\ t \in Seq(Place) /\ Len(s) \in Nat
        /\ DOMAIN s = 1 .. Len(s) /\ DOMAIN t = 1 .. Len(s) + 1
        /\ \A i \in 1 .. Len(s) : t[i] = s[i]
        /\ t[Len(s) + 1] = checkpoint[m]
    BY <1>1, <1>6
  <2> HIDE DEF t
  <2>2. \A i \in DOMAIN t : \E k \in 1 .. m : t[i] = checkpoint[k]
    BY <1>1, <1>6, <2>1, SMTT(20) DEF ThinnedFrom
  <2>3. ASSUME NEW i \in DOMAIN t, NEW j \in DOMAIN t, i < j
        PROVE  \E k, l \in 1 .. m : k < l /\ t[i] = checkpoint[k] /\ t[j] = checkpoint[l]
    <3>1. i \in DOMAIN s BY <2>1, <2>3
    <3>2. CASE j \in DOMAIN s
      <4>1. PICK k \in 1 .. m - 1, l \in 1 .. m - 1 : k < l /\ s[i] = checkpoint[k] /\ s[j] = checkpoint[l]
        BY <1>6, <2>3, <3>1, <3>2, SMTT(20) DEF ThinnedFrom
      <4> QED BY <2>1, <3>1, <3>2, <4>1, SMTT(20)
    <3>3. CASE j = Len(s) + 1
      <4>1. PICK k \in 1 .. m - 1 : s[i] = checkpoint[k] BY <1>6, <3>1 DEF ThinnedFrom
      <4>2. k < m /\ k \in 1 .. m /\ m \in 1 .. m BY <1>1
      <4> QED BY <2>1, <3>1, <3>3, <4>1, <4>2, SMTT(20)
    <3> QED BY <2>1, <3>2, <3>3
  <2>4. Upto(t, m) BY <2>1, <2>2, <2>3 DEF ThinnedFrom
  <2> QED BY <2>4 DEF t
<1>7. Bad = {}
  <2> SUFFICES ASSUME Bad # {} PROVE FALSE
    OBVIOUS
  <2> HIDE DEF Upto
  <2>0. Bad \subseteq Nat BY <1>1
  <2>1. PICK m \in Bad : \A k \in Bad : m <= k
    <3> HIDE DEF Bad
    <3> QED BY <2>0, LeastNatural, Zenon
  <2>2. m # 0 BY <1>1, <1>3, <1>4, <2>1, SMTT(20) DEF Kept
  <2>3. m \in 1 .. N /\ m - 1 \in 0 .. N /\ m - 1 \notin Bad BY <1>1, <2>1, <2>2, SMTT(20)
  <2>4. Upto(f[m - 1], m - 1) BY <2>3
  <2>5. Upto(f[m - 1], m) /\ Upto(Append(f[m - 1], checkpoint[m]), m)
    BY <1>5, <1>6, <2>3, <2>4
  <2>6. f[m] = f[m - 1] \/ f[m] = Append(f[m - 1], checkpoint[m])
    BY <1>3, <2>2, <2>3, Zenon DEF Kept
  <2>7. Upto(f[m], m) BY <2>5, <2>6, Zenon
  <2> QED BY <2>1, <2>7
<1>8. Upto(f[N], N)
  <2> HIDE DEF Upto
  <2> QED BY <1>1, <1>7
<1>9. Thinned(f[N], checkpoint)
  <2>1. 1 .. N = DOMAIN checkpoint BY <1>1
  <2> HIDE DEF N
  <2> QED BY <1>8, <2>1, Zenon DEF Thinned
<1> QED BY <1>2, <1>8, <1>9, Zenon

-----------------------------------------------------------------------------
\* The end point and the tail are places of the log, and what lies between them
\* is within the reach of tid_gt().
LEMMA EndFacts ==
  ASSUME LogInv, Maxlen <= TidHalf
  PROVE  /\ OpenTid \in Tid /\ EndPlace \in Place /\ TailPlace \in Place
         /\ \A t \in Place : Placed(EndPlace, t) => Age(EndPlace, t) < TidHalf
<1>1. journal.seq \in Tid /\ journal.tailSeq \in Tid /\ journal.head \in LogBlocks
      /\ journal.tail \in LogBlocks
  BY DEF LogInv, LogType, JournalType
<1>2. OpenTid \in Tid BY <1>1, TidType, SMTT(20) DEF OpenTid, RunTid
<1>3. EndPlace \in Place BY <1>1, <1>2, SMTT(20) DEF EndPlace, Place, LogInv, CommitInv
<1>4. TailPlace \in Place BY <1>1 DEF TailPlace, Place
<1>5. ASSUME NEW t \in Place, Placed(EndPlace, t) PROVE Age(EndPlace, t) < TidHalf
  <2>1. Age(EndPlace, t) <= Room(EndPlace, t) /\ Room(EndPlace, t) \in 0 .. Ring - 1
        /\ Age(EndPlace, t) \in Tid
    BY <1>3, <1>5, PlaceType, SMTT(20) DEF Placed
  <2> QED BY <2>1, RingType, TidHalfAssumption, Jbd2Assumption, SMTT(20) DEF Ring, Tid, TidMod
<1> QED BY <1>2, <1>3, <1>4, <1>5, SMTT(20)

\* What jbd2_journal_get_log_tail() finds lies between the tail and the end point,
\* and before everything that is still to be checkpointed.
LEMMA LogTailFacts ==
  ASSUME LogInv, Maxlen <= TidHalf
  PROVE  /\ LogTail \in Place /\ Placed(EndPlace, LogTail)
         /\ Room(EndPlace, LogTail) <= Room(EndPlace, TailPlace)
         /\ \A i \in DOMAIN checkpoint : Later(EndPlace, LogTail, checkpoint[i])
         /\ committing.pc = "none" /\ Age(EndPlace, LogTail) = 0 => Room(EndPlace, LogTail) = 0
         /\ TailChosen => Age(EndPlace, LogTail) <= Age(EndPlace, committing.tail)
         /\ LogTailMoved <=> Age(EndPlace, LogTail) < Age(EndPlace, TailPlace)
<1>e. EndPlace \in Place /\ TailPlace \in Place BY EndFacts
<1>l. checkpoint \in Seq(Place) BY SMTT(20) DEF LogInv, LogType
<1>m. ASSUME LogTail \in Place, Placed(EndPlace, LogTail)
      PROVE  LogTailMoved <=> Age(EndPlace, LogTail) < Age(EndPlace, TailPlace)
  <2>1. Age(EndPlace, LogTail) < TidHalf /\ Age(EndPlace, TailPlace) < TidHalf
    BY <1>e, <1>m, EndFacts DEF LogInv, SpaceInv
  <2>2. EndPlace.tid \in Tid /\ LogTail.tid \in Tid /\ TailPlace.tid \in Tid
    BY <1>e, <1>m DEF Place
  <2>3. TailPlace.tid = journal.tailSeq BY DEF TailPlace
  <2> QED BY <2>1, <2>2, <2>3, TidLater, SMTT(20) DEF LogTailMoved, Age
<1>1. CASE checkpoint # <<>>
  <2>1. LogTail = checkpoint[1] BY <1>1 DEF LogTail
  <2>2. 1 \in DOMAIN checkpoint /\ checkpoint[1] \in Place BY <1>1, <1>l, SMTT(20)
  <2>3. /\ Placed(EndPlace, checkpoint[1]) /\ Age(EndPlace, checkpoint[1]) >= 1
        /\ Room(EndPlace, checkpoint[1]) <= Room(EndPlace, TailPlace)
    BY <2>2 DEF LogInv, ListInv
  <2>4. ASSUME NEW i \in DOMAIN checkpoint PROVE Later(EndPlace, checkpoint[1], checkpoint[i])
    <3>1. CASE i = 1
      <4>1. Age(EndPlace, checkpoint[1]) \in Int /\ Room(EndPlace, checkpoint[1]) \in Int
        BY <1>e, <2>2, PlaceType, SMTT(20) DEF Tid
      <4> QED BY <3>1, <4>1 DEF Later
    <3>2. CASE i # 1
      <4>1. 1 < i BY <1>l, <3>2
      <4> QED BY <2>2, <4>1 DEF LogInv, ListInv
    <3> QED BY <3>1, <3>2, SMTT(20)
  <2>5. TailChosen => Age(EndPlace, checkpoint[1]) <= Age(EndPlace, committing.tail)
    BY <2>2 DEF LogInv, TailInv, Later
  <2> QED BY <1>m, <2>1, <2>2, <2>3, <2>4, <2>5, SMTT(20)
<1>2. CASE checkpoint = <<>>
  <2>1. LogTail = EndPlace BY <1>2, Zenon DEF LogTail, EndPlace, OpenTid
  <2>2. Age(EndPlace, EndPlace) = 0 /\ Room(EndPlace, EndPlace) = 0
        /\ Room(EndPlace, TailPlace) \in 0 .. Ring - 1
    BY <1>e, PlaceType
  <2>3. Placed(EndPlace, EndPlace) BY <2>2 DEF Placed
  <2>4. DOMAIN checkpoint = {} BY <1>2
  <2>5. TailChosen => Age(EndPlace, committing.tail) \in Tid
    BY <1>e, PlaceType DEF LogInv, TailInv
  <2> QED BY <1>e, <1>m, <2>1, <2>2, <2>3, <2>4, <2>5, RingType, SMTT(20) DEF Tid
<1> QED BY <1>1, <1>2

\* A step that leaves the end point where it is and may move the tail to t: what
\* there is to checkpoint lies between them,
LEMMA ListKept ==
  ASSUME LogInv, NEW t \in Place, EndPlace' = EndPlace, TailPlace' = t,
         Thinned(checkpoint', checkpoint),
         \A i \in DOMAIN checkpoint : Room(EndPlace, checkpoint[i]) <= Room(EndPlace, t)
  PROVE  ListInv'
<1>1. \A i \in DOMAIN checkpoint' : \E k \in DOMAIN checkpoint : checkpoint'[i] = checkpoint[k]
  BY DEF Thinned, ThinnedFrom
<1>2. ASSUME NEW i \in DOMAIN checkpoint', NEW j \in DOMAIN checkpoint', i < j
      PROVE  Later(EndPlace, checkpoint'[i], checkpoint'[j])
  <2>1. PICK k \in DOMAIN checkpoint, l \in DOMAIN checkpoint :
          k < l /\ checkpoint'[i] = checkpoint[k] /\ checkpoint'[j] = checkpoint[l]
    BY <1>2 DEF Thinned, ThinnedFrom
  <2> QED BY <2>1 DEF LogInv, ListInv
<1>3. ASSUME NEW i \in DOMAIN checkpoint'
      PROVE  /\ Placed(EndPlace, checkpoint'[i]) /\ Age(EndPlace, checkpoint'[i]) >= 1
             /\ Room(EndPlace, checkpoint'[i]) <= Room(EndPlace, t)
  BY <1>1 DEF LogInv, ListInv
<1> QED BY <1>2, <1>3, Zenon DEF ListInv, Placed, Later, Age, Room

\* and the tail that the commit has chosen before it, or it is out of date.
LEMMA ChoiceKept ==
  ASSUME LogInv, NEW t \in Place, EndPlace' = EndPlace, TailPlace' = t,
         Thinned(checkpoint', checkpoint),
         TailChosen' => /\ TailChosen /\ committing'.tail = committing.tail
                        /\ Age(EndPlace, committing.tail) < Age(EndPlace, t) =>
                             Room(EndPlace, committing.tail) <= Room(EndPlace, t)
  PROVE  TailInv'
<1> SUFFICES ASSUME TailChosen' PROVE TailInv'
  BY SMTT(20) DEF TailInv
<1>1. /\ TailChosen /\ committing'.tail = committing.tail
      /\ committing.tail \in Place /\ Placed(EndPlace, committing.tail)
      /\ Age(EndPlace, committing.tail) < Age(EndPlace, t) =>
           Room(EndPlace, committing.tail) <= Room(EndPlace, t)
  BY DEF LogInv, TailInv
<1>2. ASSUME NEW i \in DOMAIN checkpoint'
      PROVE  Later(EndPlace, committing.tail, checkpoint'[i])
  <2>1. \E k \in DOMAIN checkpoint : checkpoint'[i] = checkpoint[k] BY DEF Thinned, ThinnedFrom
  <2> QED BY <1>1, <2>1, SMTT(20) DEF LogInv, TailInv
<1>3. Place' = Place BY SMTT(20) DEF Place, LogBlocks, Tid, TidMod
<1> QED BY <1>1, <1>2, <1>3, ZenonT(30) DEF TailInv, Placed, Later, Age, Room

\* The distances between the tail, the end point and the head.
LEMMA Distances ==
  ASSUME LogInv, Maxlen <= TidHalf
  PROVE  /\ EndPlace.start \in LogBlocks /\ journal.tail \in LogBlocks /\ journal.head \in LogBlocks
         /\ Ahead(journal.tail, journal.head)
              = Ahead(journal.tail, EndPlace.start) + Ahead(EndPlace.start, journal.head)
         /\ journal.free = Ring - Ahead(journal.tail, journal.head)
         /\ Ahead(journal.tail, EndPlace.start) \in 0 .. Ring - 1
         /\ Ahead(EndPlace.start, journal.head) \in 0 .. Ring - 1
         /\ Ahead(journal.tail, journal.head) \in 0 .. Ring - 1
<1>1. EndPlace.start \in LogBlocks /\ TailPlace.start = journal.tail
      /\ journal.tail \in LogBlocks /\ journal.head \in LogBlocks
  BY EndFacts, SMTT(20) DEF Place, TailPlace, LogInv, LogType, JournalType
<1>2. /\ Ahead(journal.tail, journal.head)
           = Ahead(journal.tail, EndPlace.start) + Ahead(EndPlace.start, journal.head)
      /\ journal.free = Ring - Ahead(journal.tail, journal.head)
  BY <1>1 DEF LogInv, SpaceInv, Room
<1> QED BY <1>1, <1>2, AheadType, SMTT(20)

\* __jbd2_update_log_tail() to a place between the tail and the end point.
LEMMA SpaceMoved ==
  ASSUME LogInv, Maxlen <= TidHalf, NEW t \in Place,
         Placed(EndPlace, t), Room(EndPlace, t) <= Room(EndPlace, TailPlace),
         EndPlace' = EndPlace, TailPlace' = t,
         journal'.head = journal.head, journal'.tail = t.start,
         journal'.free = journal.free + Freed(t.start),
         committing'.pc = "none" =>
           committing.pc = "none" /\ (Age(EndPlace, t) = 0 => Room(EndPlace, t) = 0)
  PROVE  SpaceInv'
<1> DEFINE e == EndPlace.start
           h == journal.head
           a == journal.tail
           s == t.start
<1>1. e \in LogBlocks /\ h \in LogBlocks /\ a \in LogBlocks /\ s \in LogBlocks
  BY Distances, SMTT(20) DEF Place
<1>2. Room(EndPlace, t) = Ahead(s, e) /\ Room(EndPlace, TailPlace) = Ahead(a, e)
      /\ Freed(s) = Ahead(a, s)
  BY DEF Room, TailPlace, Freed, Ahead, Ring
<1>3. Ahead(a, h) = Ahead(a, e) + Ahead(e, h) /\ journal.free = Ring - Ahead(a, h)
      /\ Ahead(a, h) \in 0 .. Ring - 1
  BY Distances
<1>4. Ring \in Nat /\ Ahead(s, e) \in 0 .. Ring - 1 /\ Ahead(a, e) \in 0 .. Ring - 1
      /\ Ahead(e, h) \in 0 .. Ring - 1 /\ Ahead(a, s) \in 0 .. Ring - 1
      /\ (Ahead(s, e) = 0 => s = e)
  BY <1>1, AheadType, RingType, Zenon
<1>5. Ahead(a, e) = Ahead(a, s) + Ahead(s, e) BY <1>1, <1>2, AheadSum, SMTT(20)
<1>6. Ahead(s, h) = Ahead(s, e) + Ahead(e, h)
  <2>1. Ahead(s, e) + Ahead(e, h) < Ring BY <1>3, <1>4, <1>5, SMTT(20)
  <2> QED BY <1>1, <2>1, AheadSum, SMTT(20)
<1>7. journal.free + Freed(s) = Ring - Ahead(s, h)
  <2>1. Ring \in Int /\ Ahead(a, s) \in Int /\ Ahead(s, e) \in Int /\ Ahead(e, h) \in Int BY <1>4
  <2>2. (Ring - ((Ahead(a, s) + Ahead(s, e)) + Ahead(e, h))) + Ahead(a, s)
          = Ring - (Ahead(s, e) + Ahead(e, h))
    BY <2>1
  <2> QED BY <1>2, <1>3, <1>5, <1>6, <2>2, Zenon
<1>8. committing'.pc = "none" /\ Age(EndPlace, t) = 0 => h = s
  <2>1. committing.pc = "none" => e = h BY SMTT(20) DEF EndPlace
  <2> QED BY <1>2, <1>4, <2>1, SMTT(20)
<1>9. /\ journal'.free = Ring - Ahead(journal'.tail, journal'.head)
      /\ Ahead(journal'.tail, journal'.head) = Room(EndPlace, t) + Ahead(EndPlace.start, journal'.head)
      /\ committing'.pc = "none" /\ Age(EndPlace, t) = 0 => journal'.head = journal'.tail
  BY <1>2, <1>6, <1>7, <1>8, Zenon
<1> QED BY <1>9, Zenon DEF SpaceInv, Placed, Age, Room, Ahead, Ring

\* jbd2_journal_next_log_block(), n times, by a commit that finds room.
LEMMA SpaceTaken ==
  ASSUME LogInv, Maxlen <= TidHalf, NEW n \in Nat,
         committing.pc # "none", committing'.pc # "none",
         EndPlace' = EndPlace, TailPlace' = TailPlace,
         journal'.head = LogAdd(journal.head, n), journal'.tail = journal.tail,
         journal'.free = journal.free - n, journal'.free >= 1
  PROVE  /\ SpaceInv' /\ journal'.head \in LogBlocks
         /\ n > 0 \/ committing.start # journal.head => journal'.head # committing.start
<1> DEFINE e == EndPlace.start
           h == journal.head
           a == journal.tail
           k == LogAdd(h, n)
<1>1. e \in LogBlocks /\ h \in LogBlocks /\ a \in LogBlocks /\ e = committing.start
  BY Distances DEF EndPlace
<1>2. /\ Ahead(a, h) = Ahead(a, e) + Ahead(e, h) /\ journal.free = Ring - Ahead(a, h)
      /\ Ahead(a, h) \in 0 .. Ring - 1 /\ Ahead(e, h) \in 0 .. Ring - 1
      /\ Ahead(a, e) \in 0 .. Ring - 1 /\ Ring \in Nat
      /\ (Ahead(e, h) = 0 => e = h)
  BY <1>1, Distances, RingType, AheadType, Zenon
<1>3. Ahead(a, h) + n < Ring /\ Ahead(e, h) + n < Ring BY <1>2, SMTT(20)
<1>4. k \in LogBlocks /\ Ahead(a, k) = Ahead(a, h) + n /\ Ahead(e, k) = Ahead(e, h) + n
  BY <1>1, <1>3, AheadTake, Zenon
<1>5. n > 0 \/ e # h => k # e
  <2>1. k = e => Ahead(e, k) = 0 BY <1>1, AheadType, SMTT(20)
  <2> QED BY <1>2, <1>4, <2>1, SMTT(20)
<1>6. Placed(EndPlace, TailPlace) /\ Room(EndPlace, TailPlace) = Ahead(a, e)
  BY SMTT(20) DEF LogInv, SpaceInv, Room, TailPlace
<1>7. /\ journal'.free = Ring - Ahead(journal'.tail, journal'.head)
      /\ Ahead(journal'.tail, journal'.head)
           = Room(EndPlace, TailPlace) + Ahead(EndPlace.start, journal'.head)
  BY <1>2, <1>4, <1>6
<1>8. SpaceInv' BY <1>6, <1>7, Zenon DEF SpaceInv, Placed, Age, Room, Ahead, Ring
<1> QED BY <1>1, <1>4, <1>5, <1>8, SMTT(20)

\* A step that moves neither the tail, nor the head, nor the end point.
LEMMA PlacesKept ==
  ASSUME LogInv, Maxlen <= TidHalf, EndPlace' = EndPlace, TailPlace' = TailPlace,
         journal'.head = journal.head, journal'.tail = journal.tail,
         journal'.free = journal.free,
         committing'.pc = "none" => committing.pc = "none",
         Thinned(checkpoint', checkpoint),
         TailChosen' => TailChosen /\ committing'.tail = committing.tail
  PROVE  SpaceInv' /\ ListInv' /\ TailInv'
<1>1. TailPlace \in Place BY EndFacts
<1>2. SpaceInv'
  BY ZenonT(30) DEF LogInv, SpaceInv, Placed, Age, Room, Ahead, Ring
<1>3. /\ \A i \in DOMAIN checkpoint : Room(EndPlace, checkpoint[i]) <= Room(EndPlace, TailPlace)
      /\ TailChosen' =>
           /\ TailChosen /\ committing'.tail = committing.tail
           /\ Age(EndPlace, committing.tail) < Age(EndPlace, TailPlace) =>
                Room(EndPlace, committing.tail) <= Room(EndPlace, TailPlace)
  BY DEF LogInv, ListInv, TailInv
<1>4. ListInv' /\ TailInv' BY <1>1, <1>3, ListKept, ChoiceKept, SMTT(20)
<1> QED BY <1>2, <1>4, SMTT(20)

\* The list of checkpoints as it is.
LEMMA SameList ==
  ASSUME checkpoint \in Seq(Place), checkpoint' = checkpoint
  PROVE  Thinned(checkpoint', checkpoint)
<1>1. \A i \in DOMAIN checkpoint : checkpoint'[i] = checkpoint[i] /\ DOMAIN checkpoint' = DOMAIN checkpoint
  OBVIOUS
<1> QED BY <1>1 DEF Thinned, ThinnedFrom

\* A step that changes nothing of the log but the list of checkpoints.
LEMMA LogUntouched ==
  ASSUME LogInv, Maxlen <= TidHalf, journal' = journal, committing' = committing,
         running'.state = running.state, running' = [f \in RunningFields |-> running'[f]],
         mode' = mode, \A v \in Values(sb') : v.seq \in Tid,
         checkpoint' \in Seq(Place), Thinned(checkpoint', checkpoint)
  PROVE  LogInv'
<1>1. EndPlace' = EndPlace /\ TailPlace' = TailPlace /\ OpenTid' = OpenTid
  BY DEF EndPlace, TailPlace, OpenTid, RunTid
<1>2. LogType'
  BY Zenon DEF LogInv, LogType, JournalType, Place, Tid, TidMod, LogBlocks, Values,
       CommitFields, RunningFields
<1>3. SpaceInv' /\ ListInv' /\ TailInv' BY <1>1, PlacesKept DEF TailChosen
<1>4. CommitInv' BY <1>1, Zenon DEF LogInv, CommitInv, RecordTaken, Tid, TidMod, LogBlocks
<1>5. FlushedInv' BY <1>1, Zenon DEF LogInv, FlushedInv, Age
<1> QED BY <1>2, <1>3, <1>4, <1>5, SMTT(20) DEF LogInv

-----------------------------------------------------------------------------
\* What a step of the log may rely on.
LEMMA TypeFacts ==
  ASSUME LogInv
  PROVE  /\ journal \in JournalType /\ checkpoint \in Seq(Place)
         /\ running = [f \in RunningFields |-> running[f]]
         /\ committing = [f \in CommitFields |-> committing[f]]
         /\ \A v \in Values(sb) : v.seq \in Tid
BY DEF LogInv, LogType

\* The handles touch neither the log nor the list: get_transaction() opens the next
\* transaction and takes its number.
LEMMA HandleLog == Maxlen <= TidHalf /\ LogInv /\ HandleStep => LogInv'
<1> SUFFICES ASSUME Maxlen <= TidHalf, LogInv, HandleStep PROVE LogInv'
  OBVIOUS
<1>1. CASE GetTransaction
  <2>1. /\ running.state = "none" /\ running' = [state |-> "running", out |-> 0]
        /\ journal' = [journal EXCEPT !.seq = TidPlus(@, 1)]
        /\ committing' = committing /\ checkpoint' = checkpoint /\ sb' = sb /\ mode' = mode
    BY <1>1 DEF GetTransaction, diskVars, sysVars
  <2>2. /\ journal.seq \in Tid /\ journal' \in JournalType
        /\ journal'.seq = TidPlus(journal.seq, 1)
        /\ journal'.head = journal.head /\ journal'.tail = journal.tail
        /\ journal'.tailSeq = journal.tailSeq /\ journal'.free = journal.free
        /\ journal'.flushed = journal.flushed
    BY <2>1, TypeFacts, TidType, Zenon DEF JournalType
  <2>3. OpenTid' = OpenTid BY <2>1, <2>2, TidType DEF OpenTid, RunTid
  <2>4. EndPlace' = EndPlace /\ TailPlace' = TailPlace
    BY <2>1, <2>2, <2>3 DEF EndPlace, TailPlace
  <2>5. LogType'
    <3>1. running' = [f \in RunningFields |-> running'[f]] BY <2>1, Zenon DEF RunningFields
    <3> QED BY <2>1, <2>2, <3>1, Zenon
         DEF LogInv, LogType, JournalType, Place, Tid, TidMod, LogBlocks, Values,
             CommitFields, RunningFields
  <2>6. SpaceInv' /\ ListInv' /\ TailInv'
    BY <2>1, <2>2, <2>4, PlacesKept, SameList, TypeFacts, SMTT(20) DEF TailChosen
  <2>7. CommitInv'
    BY <2>1, <2>2, <2>3, Zenon DEF LogInv, CommitInv, RecordTaken, Tid, TidMod, LogBlocks
  <2>8. FlushedInv' BY <2>1, <2>2, <2>4 DEF LogInv, FlushedInv, Age
  <2> QED BY <2>5, <2>6, <2>7, <2>8 DEF LogInv
<1>2. ASSUME NEW x, running' = [running EXCEPT !.out = x] \/ running' = running, journal' = journal,
             committing' = committing, checkpoint' = checkpoint, sb' = sb, mode' = mode
      PROVE  LogInv'
  <2>1. running'.state = running.state /\ running' = [f \in RunningFields |-> running'[f]]
    BY <1>2, TypeFacts, Zenon DEF RunningFields
  <2>2. Thinned(checkpoint', checkpoint) BY <1>2, TypeFacts, SameList
  <2> QED BY <1>2, <2>1, <2>2, TypeFacts, LogUntouched, SMTT(20)
<1>3. ASSUME NEW c \in 1 .. MaxCredits, StartHandle(c) \/ ExtendHandle(c) PROVE LogInv'
  BY <1>2, <1>3, Zenon DEF StartHandle, ExtendHandle, diskVars, sysVars
<1>4. ASSUME NEW b \in Blocks,
             ClearDirty(b) \/ GetWriteAccess(b) \/ GetCreateAccess(b) \/ DirtyMetadata(b) \/ Revoke(b)
      PROVE  LogInv'
  BY <1>2, <1>4, Zenon
     DEF ClearDirty, GetWriteAccess, GetCreateAccess, DirtyMetadata, Revoke, diskVars, sysVars
<1>5. CASE StopHandle BY <1>2, <1>5, Zenon DEF StopHandle, diskVars, sysVars
<1> QED BY <1>1, <1>3, <1>4, <1>5 DEF HandleStep

\* The fields of the journal after __jbd2_update_log_tail().
LEMMA FieldsMoved ==
  ASSUME journal \in JournalType, NEW t \in Place, NEW empty \in BOOLEAN,
         journal' = [journal EXCEPT !.free = @ + Freed(t.start), !.tailSeq = t.tid,
                                    !.tail = t.start, !.flushed = empty]
  PROVE  /\ journal' \in JournalType /\ journal'.head = journal.head /\ journal'.seq = journal.seq
         /\ journal'.tail = t.start /\ journal'.tailSeq = t.tid /\ journal'.flushed = empty
         /\ journal'.free = journal.free + Freed(t.start)
<1>1. t.tid \in Tid /\ t.start \in LogBlocks BY DEF Place
<1>2. Freed(t.start) \in Int
  BY <1>1, RingType, Jbd2Assumption DEF Freed, JournalType, Ring
<1>3. /\ journal.free \in Int /\ journal.head \in LogBlocks /\ journal.seq \in Tid
      /\ journal.commitSeq \in Tid
  BY DEF JournalType
<1>4. journal' = [head |-> journal.head, tail |-> t.start, tailSeq |-> t.tid,
                  free |-> journal.free + Freed(t.start), seq |-> journal.seq,
                  commitSeq |-> journal.commitSeq, flushed |-> empty]
  BY Zenon DEF JournalType
<1>5. journal' \in JournalType
  <2>1. journal.free + Freed(t.start) \in Int BY <1>2, <1>3, SMTT(20)
  <2> QED BY <1>1, <1>3, <1>4, <2>1, Zenon DEF JournalType
<1> QED BY <1>4, <1>5

\* The tail moves to a place between it and the end point.
LEMMA TailMoves ==
  ASSUME Maxlen <= TidHalf, LogInv, NEW t \in Place, NEW empty \in BOOLEAN,
         Placed(EndPlace, t), Room(EndPlace, t) <= Room(EndPlace, TailPlace),
         \A i \in DOMAIN checkpoint : Room(EndPlace, checkpoint[i]) <= Room(EndPlace, t),
         committing.pc = "none" /\ Age(EndPlace, t) = 0 => Room(EndPlace, t) = 0,
         empty => /\ committing.pc = "none" /\ running.state # "locked"
                  /\ Age(EndPlace, t) = 0,
         journal' \in JournalType, journal'.head = journal.head, journal'.seq = journal.seq,
         journal'.tail = t.start, journal'.tailSeq = t.tid, journal'.flushed = empty,
         journal'.free = journal.free + Freed(t.start),
         \A v \in Values(sb') : v.seq \in Tid,
         running' = running, checkpoint' = checkpoint, mode' = mode,
         committing' = [f \in CommitFields |-> committing'[f]],
         committing'.pc = "none" <=> committing.pc = "none",
         committing'.tid = committing.tid, committing'.start = committing.start,
         RecordTaken' => RecordTaken,
         TailChosen' => /\ TailChosen /\ committing'.tail = committing.tail
                        /\ Age(EndPlace, committing.tail) < Age(EndPlace, t) =>
                             Room(EndPlace, committing.tail) <= Room(EndPlace, t)
  PROVE  LogInv'
<1>1. OpenTid' = OpenTid BY DEF OpenTid, RunTid
<1>2. EndPlace' = EndPlace BY <1>1, Zenon DEF EndPlace
<1>3. TailPlace' = t BY DEF TailPlace, Place
<1>4. LogType'
  BY Zenon DEF LogInv, LogType, JournalType, Place, Tid, TidMod, LogBlocks, Values,
       CommitFields, RunningFields
<1>5. SpaceInv' BY <1>2, <1>3, SpaceMoved, SMTT(20)
<1>6. Thinned(checkpoint', checkpoint) BY SameList, TypeFacts
<1>9. ListInv' BY <1>2, <1>3, <1>6, ListKept, SMTT(20)
<1>10. TailInv' BY <1>2, <1>3, <1>6, ChoiceKept
<1>7. CommitInv'
  BY <1>1, Zenon DEF LogInv, CommitInv, Tid, TidMod, LogBlocks
<1>8. FlushedInv' BY <1>2, <1>3, Zenon DEF FlushedInv, Age
<1> QED BY <1>4, <1>5, <1>7, <1>8, <1>9, <1>10, SMTT(20) DEF LogInv

\* jbd2_cleanup_journal_tail()
LEMMA CleanupLog ==
  ASSUME Maxlen <= TidHalf, LogInv, CleanupJournalTail, running' = running,
         committing' = committing, checkpoint' = checkpoint, mode' = mode
  PROVE  LogInv'
<1> DEFINE t == LogTail
<1>1. /\ t \in Place /\ Placed(EndPlace, t) /\ Room(EndPlace, t) <= Room(EndPlace, TailPlace)
      /\ \A i \in DOMAIN checkpoint : Room(EndPlace, checkpoint[i]) <= Room(EndPlace, t)
      /\ committing.pc = "none" /\ Age(EndPlace, t) = 0 => Room(EndPlace, t) = 0
      /\ TailChosen => Age(EndPlace, t) <= Age(EndPlace, committing.tail)
  BY LogTailFacts DEF Later
<1>2. sb' = Cell([seq |-> t.tid, start |-> t.start])
  BY DEF CleanupJournalTail, MoveTail
<1>3. journal' = [journal EXCEPT !.free = @ + Freed(t.start), !.tailSeq = t.tid,
                                 !.tail = t.start, !.flushed = FALSE]
  BY DEF CleanupJournalTail, MoveTail
<1> HIDE DEF t
<1>4. \A v \in Values(sb') : v.seq \in Tid BY <1>1, <1>2, SMTT(20) DEF Values, Cell, Place
<1>5. TailChosen' => /\ TailChosen /\ committing'.tail = committing.tail
                     /\ ~(Age(EndPlace, committing.tail) < Age(EndPlace, t))
  <2> SUFFICES ASSUME TailChosen' PROVE /\ TailChosen /\ committing'.tail = committing.tail
                                        /\ ~(Age(EndPlace, committing.tail) < Age(EndPlace, t))
    OBVIOUS
  <2>1. TailChosen /\ committing'.tail = committing.tail BY SMTT(20) DEF TailChosen
  <2>2. Age(EndPlace, t) \in Int /\ Age(EndPlace, committing.tail) \in Int
    <3>1. EndPlace \in Place /\ committing.tail \in Place
      BY <2>1, EndFacts, Zenon DEF LogInv, TailInv
    <3>2. Age(EndPlace, t) \in Tid /\ Age(EndPlace, committing.tail) \in Tid
      BY <1>1, <3>1, PlaceType, Zenon
    <3> QED BY <3>2, Jbd2Assumption DEF Tid
  <2> QED BY <1>1, <2>1, <2>2
<1>6. RecordTaken' => RecordTaken BY Zenon DEF RecordTaken
<1>7. /\ journal' \in JournalType /\ journal'.head = journal.head /\ journal'.seq = journal.seq
      /\ journal'.tail = t.start /\ journal'.tailSeq = t.tid /\ journal'.flushed = FALSE
      /\ journal'.free = journal.free + Freed(t.start)
  BY <1>1, <1>3, TypeFacts, FieldsMoved, Zenon
<1> QED BY <1>1, <1>4, <1>5, <1>6, <1>7, TypeFacts, TailMoves, Zenon

\* jbd2_journal_flush(): the tail goes to where the next transaction will begin.
LEMMA FlushLogEmpty == Maxlen <= TidHalf /\ LogInv /\ JournalFlush => LogInv'
<1> SUFFICES ASSUME Maxlen <= TidHalf, LogInv, JournalFlush PROVE LogInv'
  OBVIOUS
<1> DEFINE t == IF LogTailMoved THEN LogTail ELSE TailPlace
<1>1. /\ running.state = "none" /\ committing.pc = "none" /\ checkpoint = <<>>
      /\ running' = running /\ committing' = committing /\ checkpoint' = checkpoint /\ mode' = mode
  BY DEF JournalFlush, sysVars
<1>2. /\ sb' = Cell([seq |-> t.tid, start |-> 0])
      /\ journal' = [journal EXCEPT !.free = @ + Freed(t.start), !.tailSeq = t.tid,
                                    !.tail = t.start, !.flushed = TRUE]
  BY DEF JournalFlush, TailPlace
<1>3. LogTail = EndPlace BY <1>1, Zenon DEF LogTail, EndPlace, OpenTid
<1>4. EndPlace \in Place /\ TailPlace \in Place BY EndFacts
<1>5. Age(EndPlace, EndPlace) = 0 /\ Room(EndPlace, EndPlace) = 0
      /\ Room(EndPlace, TailPlace) \in 0 .. Ring - 1 /\ Age(EndPlace, TailPlace) \in Tid
  BY <1>4, PlaceType
<1>6. LogTailMoved <=> Age(EndPlace, TailPlace) > 0
  BY <1>3, <1>5, LogTailFacts DEF Tid
<1>7. /\ t \in Place /\ Placed(EndPlace, t) /\ Room(EndPlace, t) <= Room(EndPlace, TailPlace)
      /\ Age(EndPlace, t) = 0 /\ Room(EndPlace, t) = 0
  <2>1. CASE LogTailMoved
    BY <1>3, <1>4, <1>5, <2>1 DEF Placed
  <2>2. CASE ~LogTailMoved
    <3>1. Age(EndPlace, TailPlace) = 0 BY <1>5, <1>6, <2>2 DEF Tid
    <3>2. journal.head = journal.tail BY <1>1, <3>1, SMTT(20) DEF LogInv, SpaceInv
    <3>3. Room(EndPlace, TailPlace) = 0
      BY <1>1, <1>4, <3>2, PlaceType DEF EndPlace, TailPlace
    <3> QED BY <1>4, <2>2, <3>1, <3>3 DEF Placed
  <2> QED BY <2>1, <2>2
<1> HIDE DEF t
<1>8. \A v \in Values(sb') : v.seq \in Tid BY <1>2, <1>7 DEF Values, Cell, Place
<1>9. DOMAIN checkpoint = {} BY <1>1
<1>10. ~TailChosen' /\ ~RecordTaken' BY <1>1 DEF TailChosen, RecordTaken
<1>11. /\ journal' \in JournalType /\ journal'.head = journal.head /\ journal'.seq = journal.seq
       /\ journal'.tail = t.start /\ journal'.tailSeq = t.tid /\ journal'.flushed = TRUE
       /\ journal'.free = journal.free + Freed(t.start)
  BY <1>2, <1>7, TypeFacts, FieldsMoved, Zenon
<1> QED BY <1>1, <1>7, <1>8, <1>9, <1>10, <1>11, TypeFacts, TailMoves, Zenon

\* The steps of checkpointing and of the buffer cache.
LEMMA CheckpointLog ==
  Maxlen <= TidHalf /\ LogInv /\ (CheckpointStep \/ BufferStep) => LogInv'
<1> SUFFICES ASSUME Maxlen <= TidHalf, LogInv, CheckpointStep \/ BufferStep PROVE LogInv'
  OBVIOUS
<1> DEFINE Thins == \/ checkpoint' = checkpoint
                    \/ checkpoint' = StillNeeded(bh')
           Same == /\ running' = running /\ committing' = committing /\ journal' = journal
                   /\ sb' = sb /\ mode' = mode
<1>1. ASSUME Same, Thins PROVE LogInv'
  <2>1. checkpoint' \in Seq(Place) /\ Thinned(checkpoint', checkpoint)
    BY <1>1, TypeFacts, SameList, KeptThins
  <2> QED BY <1>1, <2>1, TypeFacts, LogUntouched
<1>2. ASSUME CleanupJournalTail, running' = running, committing' = committing,
             checkpoint' = checkpoint, mode' = mode
      PROVE  LogInv'
  BY <1>2, CleanupLog
<1>3. CASE WaitForSpace
  <2>1. CleanupJournalTail \/ (sb' = sb /\ journal' = journal)
    BY <1>3, Zenon DEF WaitForSpace, diskVars
  <2>2. running' = running /\ committing' = committing /\ checkpoint' = checkpoint /\ mode' = mode
    BY <1>3, Zenon DEF WaitForSpace, sysVars
  <2> HIDE DEF CleanupJournalTail
  <2> QED BY <1>1, <1>2, <2>1, <2>2, Zenon
<1>4. CASE CheckpointDone
  <2>1. CleanupJournalTail \/ (sb' = sb /\ journal' = journal)
    BY <1>4, Zenon DEF CheckpointDone, diskVars
  <2>2. running' = running /\ committing' = committing /\ checkpoint' = checkpoint /\ mode' = mode
    BY <1>4, Zenon DEF CheckpointDone, sysVars
  <2> HIDE DEF CleanupJournalTail
  <2> QED BY <1>1, <1>2, <2>1, <2>2, Zenon
<1>5. CASE JournalFlush BY <1>5, FlushLogEmpty
<1>6. CASE WaitCommit
  BY <1>1, <1>6, Zenon DEF WaitCommit, diskVars, sysVars
<1>7. ASSUME NEW b \in Blocks, ProcessBuffer(b) \/ FlushBatch(b) \/ WaitCpIo(b) PROVE LogInv'
  <2>1. Same /\ Thins
    BY <1>7, Zenon DEF ProcessBuffer, FlushBatch, WaitCpIo, diskVars, sysVars
  <2> QED BY <1>1, <2>1
<1>8. ASSUME NEW b \in Blocks,
             WriteBack(b) \/ EndWrite(b) \/ TryToFreeBuffer(b) \/ WriteFileData(b)
      PROVE  LogInv'
  <2>1. Same /\ Thins
    BY <1>8, Zenon DEF WriteBack, EndWrite, TryToFreeBuffer, WriteFileData, diskVars, sysVars
  <2> QED BY <1>1, <2>1
<1> QED BY <1>3, <1>4, <1>5, <1>6, <1>7, <1>8 DEF CheckpointStep, BufferStep

-----------------------------------------------------------------------------
(* The scan of the log.                                                    *)

\* The recursion of Scan.
Passed(start, f, n) ==
  IF n = 0 THEN start ELSE LET s == f[n - 1] IN IF s.stop THEN s ELSE ScanStep(s)

\* There is such a function, so that Scan computes with it.
LEMMA PassedDefined ==
  ASSUME NEW start, NEW N \in Nat
  PROVE  \E f : f = [n \in 0 .. N |-> Passed(start, f, n)]
<1> DEFINE Ok(m) == \E f : f = [n \in 0 .. m |-> Passed(start, f, n)]
           Bad == {m \in Nat : ~Ok(m)}
<1> SUFFICES ASSUME Bad # {} PROVE FALSE
  OBVIOUS
<1>1. PICK m \in Bad : \A k \in Bad : m <= k BY LeastNatural, Zenon
<1>2. m # 0
  <2> DEFINE f == [n \in 0 .. 0 |-> start]
  <2>1. f = [n \in 0 .. 0 |-> Passed(start, f, n)] BY DEF Passed
  <2> HIDE DEF f
  <2>2. Ok(0) BY <2>1
  <2> QED BY <2>2, Zenon
<1>3. m - 1 \in Nat /\ Ok(m - 1) BY <1>1, <1>2
<1>4. PICK f : f = [n \in 0 .. m - 1 |-> Passed(start, f, n)] BY <1>3
<1> DEFINE g == [n \in 0 .. m |-> IF n = m THEN Passed(start, f, m) ELSE f[n]]
<1>5. \A n \in 0 .. m : n # 0 => g[n - 1] = f[n - 1] BY <1>3
<1>6. \A n \in 0 .. m : Passed(start, g, n) = Passed(start, f, n)
  <2> HIDE DEF g
  <2> QED BY <1>5 DEF Passed
<1>7. \A n \in 0 .. m - 1 : f[n] = Passed(start, f, n)
  <2> DEFINE K(n) == Passed(start, f, n)
  <2>1. f = [n \in 0 .. m - 1 |-> K(n)] BY <1>4
  <2> HIDE DEF K
  <2>2. \A n \in 0 .. m - 1 : f[n] = K(n) BY <2>1
  <2> QED BY <2>2 DEF K
<1>8. g = [n \in 0 .. m |-> Passed(start, g, n)] BY <1>3, <1>6, <1>7
<1>9. Ok(m)
  <2> HIDE DEF g
  <2> QED BY <1>8
<1> QED BY <1>9

\* The fields of the scan.
ScanFields == {"pos", "id", "sum", "found", "revoked", "end", "stop"}

\* The transaction a scan stands at, and the one it ends with, have tids.
ScanTyped(s) ==
  /\ s = [f \in ScanFields |-> s[f]]
  /\ s.id \in Tid /\ s.end \in Tid

\* A step of do_one_pass() keeps it, and so the next transaction number in range.
LEMMA ScanStepTyped ==
  ASSUME NEW s, ScanTyped(s)
  PROVE  ScanTyped(ScanStep(s))
<1> DEFINE rec == log[s.pos].cur
           next == [s EXCEPT !.pos = LogNext(@)]
           bad == mode.async /\ rec.sum # s.sum
           n == Len(rec.tags)
           w == [i \in 1 .. n |-> <<rec.tags[i], LogData(LogAdd(s.pos, i))>>]
           fnd == s.found \o [i \in 1 .. n |-> [tid |-> s.id, write |-> w[i]]]
           rvk == s.revoked \cup {[tid |-> s.id, block |-> b] : b \in rec.blocks}
           A == [s EXCEPT !.stop = TRUE]
           B == [s EXCEPT !.pos = LogAdd(@, n + 1), !.sum = @ \o w, !.found = fnd]
           C == [next EXCEPT !.revoked = rvk]
           D == [next EXCEPT !.id = TidPlus(@, 1), !.sum = <<>>,
                             !.end = IF bad THEN s.id ELSE @]
<1>1. ScanTyped(A) /\ ScanTyped(B) /\ ScanTyped(next) /\ ScanTyped(C)
  <2> HIDE DEF n, w, fnd, rvk
  <2> QED BY Zenon DEF ScanTyped, ScanFields
<1>2. ScanTyped(D)
  <2>1. /\ D = [f \in ScanFields |-> D[f]] /\ D.id = TidPlus(s.id, 1)
        /\ D.end = s.id \/ D.end = s.end
    <3> HIDE DEF bad
    <3> QED BY Zenon DEF ScanTyped, ScanFields
  <2>2. D.id \in Tid BY <2>1, TidType, ZenonT(30) DEF ScanTyped
  <2> HIDE DEF D
  <2> QED BY <2>1, <2>2, Zenon DEF ScanTyped
<1>3. ScanStep(s) \in {A, B, C, D, next}
  BY Zenon DEF ScanStep
<1> HIDE DEF A, B, C, D, next
<1> QED BY <1>1, <1>2, <1>3, Zenon

\* The log ends with a tid, whatever it holds.
LEMMA ScanEnds ==
  ASSUME sb.cur.seq \in Tid
  PROVE  Scan.end \in Tid
<1> DEFINE start == [pos |-> sb.cur.start, id |-> sb.cur.seq, sum |-> <<>>, found |-> <<>>,
                     revoked |-> {}, end |-> 0, stop |-> FALSE]
           f == CHOOSE g : g = [n \in 0 .. Maxlen |-> Passed(start, g, n)]
           Bad == {m \in 0 .. Maxlen : ~ScanTyped(f[m])}
<1>1. Maxlen \in Nat BY Jbd2Assumption
<1>2. Scan = [f[Maxlen] EXCEPT !.end = IF @ = 0 THEN f[Maxlen].id ELSE @]
  BY Zenon DEF Scan, Passed
<1>3. ScanTyped(start)
  <2>1. 0 \in Tid BY TidHalfAssumption DEF Tid, TidMod
  <2> QED BY <2>1, Zenon DEF ScanTyped, ScanFields
<1>4. \A n \in 0 .. Maxlen : f[n] = Passed(start, f, n)
  <2> HIDE DEF start
  <2>1. f = [n \in 0 .. Maxlen |-> Passed(start, f, n)] BY <1>1, PassedDefined
  <2> DEFINE K(n) == Passed(start, f, n)
  <2>2. f = [n \in 0 .. Maxlen |-> K(n)] BY <2>1
  <2> HIDE DEF K, f
  <2>3. \A n \in 0 .. Maxlen : f[n] = K(n) BY <2>2
  <2> QED BY <2>3 DEF K
<1> HIDE DEF f, start
<1>5. Bad = {}
  <2> SUFFICES ASSUME Bad # {} PROVE FALSE
    OBVIOUS
  <2>1. Bad \subseteq Nat BY <1>1
  <2>2. PICK m \in Bad : \A k \in Bad : m <= k
    <3> HIDE DEF Bad
    <3> QED BY <2>1, LeastNatural, Zenon
  <2>3. m \in 0 .. Maxlen /\ m # 0 BY <1>1, <1>3, <1>4, <2>2 DEF Passed
  <2>4. m - 1 \in 0 .. Maxlen /\ m - 1 \notin Bad BY <1>1, <2>2, <2>3
  <2>5. ScanTyped(f[m - 1]) BY <2>4
  <2>6. f[m] = f[m - 1] \/ f[m] = ScanStep(f[m - 1]) BY <1>4, <2>3 DEF Passed
  <2>7. ScanTyped(f[m]) BY <2>5, <2>6, ScanStepTyped, SMTT(20)
  <2> QED BY <2>2, <2>7
<1>6. ScanTyped(f[Maxlen]) BY <1>1, <1>5
<1>7. Scan.end = IF f[Maxlen].end = 0 THEN f[Maxlen].id ELSE f[Maxlen].end
  BY <1>2, <1>6, Zenon DEF ScanTyped, ScanFields
<1> QED BY <1>6, <1>7 DEF ScanTyped

=============================================================================
