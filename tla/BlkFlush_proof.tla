--------------------------- MODULE BlkFlush_proof ---------------------------
(***************************************************************************)
(* The flush machinery, for any number of requests and any mixture of      *)
(* kinds: what FLUSH and FUA promise, one flush at a time, one place for    *)
(* each request, and nothing left behind when the queue is at rest.        *)
(***************************************************************************)
EXTENDS BlkFlush, Functions, TLAPS

-----------------------------------------------------------------------------
(* The lists as sequences without repetition.                              *)

\* No element is on the list twice.
Distinct(s) == \A i, j \in DOMAIN s : s[i] = s[j] => i = j

\* INIT_LIST_HEAD()
LEMMA ListEmpty == Range(<<>>) = {} /\ Distinct(<<>>)
BY DEF Range, Distinct

\* Facts about the elements of a list.
LEMMA ListElements ==
  ASSUME NEW S, NEW s \in Seq(S)
  PROVE  /\ Range(s) \subseteq S
         /\ s # <<>> <=> Range(s) # {}
         /\ s # <<>> => Head(s) \in Range(s)
         /\ s = <<>> => Distinct(s)
<1>1. Len(s) \in Nat /\ DOMAIN s = 1 .. Len(s) /\ \A i \in 1 .. Len(s) : s[i] \in S
  OBVIOUS
<1>2. s # <<>> => 1 \in DOMAIN s /\ Head(s) = s[1]
  OBVIOUS
<1>3. s = <<>> => DOMAIN s = {}
  OBVIOUS
<1> QED BY <1>1, <1>2, <1>3 DEF Range, Distinct

\* list_add_tail()
LEMMA ListAppend ==
  ASSUME NEW S, NEW s \in Seq(S), NEW e \in S
  PROVE  /\ Append(s, e) \in Seq(S) /\ Append(s, e) # <<>>
         /\ Range(Append(s, e)) = Range(s) \cup {e}
         /\ Distinct(s) /\ e \notin Range(s) => Distinct(Append(s, e))
<1> DEFINE t == Append(s, e)
<1>1. /\ t \in Seq(S) /\ Len(t) = Len(s) + 1 /\ Len(s) \in Nat
      /\ DOMAIN s = 1 .. Len(s) /\ DOMAIN t = 1 .. Len(s) + 1
      /\ t[Len(s) + 1] = e
      /\ \A i \in 1 .. Len(s) : t[i] = s[i]
  OBVIOUS
<1> HIDE DEF t
<1>2. Range(t) = Range(s) \cup {e}
  <2>1. \A x \in Range(t) : x \in Range(s) \cup {e} BY <1>1 DEF Range
  <2>2. \A x \in Range(s) : x \in Range(t) BY <1>1 DEF Range
  <2>3. e \in Range(t)
    <3>1. Len(s) + 1 \in DOMAIN t BY <1>1
    <3> QED BY <1>1, <3>1 DEF Range
  <2> QED BY <2>1, <2>2, <2>3
<1>3. ASSUME Distinct(s), e \notin Range(s) PROVE Distinct(t)
  BY <1>1, <1>3 DEF Distinct, Range
<1>4. t # <<>> BY <1>1
<1> QED BY <1>1, <1>2, <1>3, <1>4 DEF t

\* list_splice(): one list before another.
LEMMA ListConcat ==
  ASSUME NEW S, NEW s \in Seq(S), NEW t \in Seq(S)
  PROVE  /\ s \o t \in Seq(S)
         /\ Range(s \o t) = Range(s) \cup Range(t)
         /\ Distinct(s) /\ Distinct(t) /\ Range(s) \cap Range(t) = {}
              => Distinct(s \o t)
<1> DEFINE u == s \o t
           m == Len(s)
           n == Len(t)
<1>1. /\ u \in Seq(S) /\ m \in Nat /\ n \in Nat
      /\ DOMAIN s = 1 .. m /\ DOMAIN t = 1 .. n /\ DOMAIN u = 1 .. m + n
  OBVIOUS
<1>2. \A i \in 1 .. m : u[i] = s[i]
  OBVIOUS
<1>3. \A i \in m + 1 .. m + n : i - m \in 1 .. n /\ u[i] = t[i - m]
  OBVIOUS
<1>4. \A i \in 1 .. n : m + i \in m + 1 .. m + n /\ u[m + i] = t[i]
  BY <1>1, <1>3
<1> HIDE DEF u, m, n
<1>5. \A i \in DOMAIN u : i \in 1 .. m \/ i \in m + 1 .. m + n BY <1>1
<1>6. \A i \in 1 .. m : i \in DOMAIN u /\ u[i] \in Range(s)
  <2> TAKE i \in 1 .. m
  <2>1. i \in DOMAIN u BY <1>1
  <2>2. s[i] \in Range(s) BY <1>1, Zenon DEF Range
  <2> QED BY <1>2, <2>1, <2>2
<1>7. \A i \in m + 1 .. m + n : i \in DOMAIN u /\ u[i] \in Range(t)
  <2> TAKE i \in m + 1 .. m + n
  <2>1. i \in DOMAIN u BY <1>1
  <2>2. t[i - m] \in Range(t) BY <1>1, <1>3, Zenon DEF Range
  <2> QED BY <1>3, <2>1, <2>2
<1>8. Range(u) = Range(s) \cup Range(t)
  <2>1. ASSUME NEW x \in Range(u) PROVE x \in Range(s) \cup Range(t)
    <3>1. PICK i \in DOMAIN u : x = u[i] BY DEF Range
    <3> QED BY <3>1, <1>5, <1>6, <1>7
  <2>2. ASSUME NEW x \in Range(s) PROVE x \in Range(u)
    <3>1. PICK i \in 1 .. m : x = s[i] BY <1>1 DEF Range
    <3> QED BY <3>1, <1>2, <1>6 DEF Range
  <2>3. ASSUME NEW x \in Range(t) PROVE x \in Range(u)
    <3>1. PICK i \in 1 .. n : x = t[i] BY <1>1 DEF Range
    <3>2. x = u[m + i] /\ m + i \in DOMAIN u BY <3>1, <1>4, <1>7
    <3> QED BY <3>2 DEF Range
  <2> QED BY <2>1, <2>2, <2>3
<1>9. ASSUME Distinct(s), Distinct(t), Range(s) \cap Range(t) = {} PROVE Distinct(u)
  <2> SUFFICES ASSUME NEW i \in DOMAIN u, NEW j \in DOMAIN u, u[i] = u[j] PROVE i = j
    BY DEF Distinct
  <2>1. CASE i \in 1 .. m /\ j \in 1 .. m
    BY <1>1, <1>2, <1>9, <2>1 DEF Distinct
  <2>2. CASE i \in m + 1 .. m + n /\ j \in m + 1 .. m + n
    <3>1. t[i - m] = t[j - m] /\ i - m \in DOMAIN t /\ j - m \in DOMAIN t
      BY <1>1, <1>3, <2>2
    <3>2. i - m = j - m BY <3>1, <1>9 DEF Distinct
    <3> QED BY <3>2, <1>1, <2>2
  <2> QED BY <1>5, <1>6, <1>7, <1>9, <2>1, <2>2
<1> QED BY <1>1, <1>8, <1>9 DEF u

\* A list of one element.
LEMMA ListOne ==
  ASSUME NEW S, NEW e \in S
  PROVE  <<e>> \in Seq(S) /\ Range(<<e>>) = {e} /\ Distinct(<<e>>) /\ Head(<<e>>) = e
BY DEF Range, Distinct

\* list_del() of the head.
LEMMA ListTail ==
  ASSUME NEW S, NEW s \in Seq(S), s # <<>>
  PROVE  /\ Head(s) \in S /\ Tail(s) \in Seq(S)
         /\ Range(s) = Range(Tail(s)) \cup {Head(s)}
         /\ Distinct(s) => Distinct(Tail(s)) /\ Head(s) \notin Range(Tail(s))
<1> DEFINE t == Tail(s)
           n == Len(s)
<1>1. /\ t \in Seq(S) /\ n \in Nat /\ n >= 1 /\ DOMAIN s = 1 .. n /\ DOMAIN t = 1 .. n - 1
      /\ Head(s) = s[1] /\ Head(s) \in S
  OBVIOUS
<1>2. \A i \in 1 .. n - 1 : t[i] = s[i + 1]
  OBVIOUS
<1> HIDE DEF t, n
<1>3. \A i \in 1 .. n - 1 : i + 1 \in DOMAIN s /\ i + 1 # 1 BY <1>1
<1>4. \A i \in DOMAIN s : i = 1 \/ (i - 1 \in DOMAIN t /\ s[i] = t[i - 1])
  <2> SUFFICES ASSUME NEW i \in DOMAIN s, i # 1 PROVE i - 1 \in DOMAIN t /\ s[i] = t[i - 1]
    OBVIOUS
  <2>1. i - 1 \in 1 .. n - 1 /\ (i - 1) + 1 = i BY <1>1
  <2> QED BY <1>1, <1>2, <2>1
<1>5. Range(s) = Range(t) \cup {Head(s)}
  <2>1. ASSUME NEW x \in Range(s) PROVE x \in Range(t) \cup {s[1]}
    <3>1. PICK i \in DOMAIN s : x = s[i] BY DEF Range
    <3> QED BY <3>1, <1>4 DEF Range
  <2>2. ASSUME NEW x \in Range(t) PROVE x \in Range(s)
    <3>1. PICK i \in 1 .. n - 1 : x = t[i] BY <1>1 DEF Range
    <3> QED BY <3>1, <1>2, <1>3 DEF Range
  <2>3. s[1] \in Range(s) BY <1>1 DEF Range
  <2> QED BY <1>1, <2>1, <2>2, <2>3
<1>6. ASSUME Distinct(s) PROVE Distinct(t) /\ Head(s) \notin Range(t)
  <2>1. ASSUME NEW i \in DOMAIN t, NEW j \in DOMAIN t, t[i] = t[j] PROVE i = j
    <3>1. s[i + 1] = s[j + 1] /\ i + 1 \in DOMAIN s /\ j + 1 \in DOMAIN s
      BY <1>1, <1>2, <1>3, <2>1
    <3>2. i + 1 = j + 1 BY <3>1, <1>6 DEF Distinct
    <3> QED BY <3>2, <1>1
  <2>2. ASSUME NEW i \in DOMAIN t PROVE t[i] # s[1]
    <3>1. t[i] = s[i + 1] /\ i + 1 \in DOMAIN s /\ i + 1 # 1 BY <1>1, <1>2, <1>3
    <3>2. 1 \in DOMAIN s BY <1>1
    <3> QED BY <3>1, <3>2, <1>6 DEF Distinct
  <2> QED BY <1>1, <2>1, <2>2 DEF Distinct, Range
<1> QED BY <1>1, <1>5, <1>6 DEF t

\* The two cardinalities that counting on such a list gives, from the definition.
LEMMA CardEmpty == Cardinality({}) = 0
<1> DEFINE Counts(f) == f = [T \in SUBSET {} |-> IF T = {} THEN 0
                                                 ELSE 1 + f[T \ {CHOOSE x : x \in T}]]
           g == [T \in SUBSET {} |-> 0]
           c == CHOOSE f : Counts(f)
<1>1. Counts(g) OBVIOUS
<1>2. Counts(c) BY <1>1, Zenon
<1>3. c[{}] = 0 BY <1>2, Zenon
<1>4. Cardinality({}) = c[{}] BY Zenon DEF Cardinality
<1> QED BY <1>3, <1>4

LEMMA CardSingleton ==
  ASSUME NEW a
  PROVE  Cardinality({a}) = 1
<1> DEFINE Counts(f) == f = [T \in SUBSET {a} |-> IF T = {} THEN 0
                                                  ELSE 1 + f[T \ {CHOOSE x : x \in T}]]
           g == [T \in SUBSET {a} |-> IF T = {} THEN 0 ELSE 1]
           c == CHOOSE f : Counts(f)
<1>1. (CHOOSE x : x \in {a}) = a OBVIOUS
<1>2. Counts(g) BY <1>1
<1>3. Counts(c) BY <1>2, Zenon
<1> HIDE DEF c
<1>4. c[{}] = 0 BY <1>3
<1>5. c[{a}] = 1 + c[{a} \ {CHOOSE x : x \in {a}}] BY <1>3
<1>6. {a} \ {CHOOSE x : x \in {a}} = {} BY <1>1
<1>7. c[{a}] = 1 BY <1>4, <1>5, <1>6
<1>8. Cardinality({a}) = c[{a}] BY Zenon DEF Cardinality, c
<1> QED BY <1>7, <1>8

\* How often an element is on a list without repetition.
LEMMA ListCount ==
  ASSUME NEW S, NEW s \in Seq(S), Distinct(s), NEW x
  PROVE  Cardinality({i \in DOMAIN s : s[i] = x}) = IF x \in Range(s) THEN 1 ELSE 0
<1> DEFINE T == {i \in DOMAIN s : s[i] = x}
<1>1. CASE x \in Range(s)
  <2>1. PICK i \in DOMAIN s : s[i] = x BY <1>1 DEF Range
  <2>2. T = {i} BY <2>1 DEF Distinct
  <2> QED BY <1>1, <2>2, CardSingleton, Zenon
<1>2. CASE x \notin Range(s)
  <2>1. T = {} BY <1>2 DEF Range
  <2> QED BY <1>2, <2>1, CardEmpty, Zenon
<1> QED BY <1>1, <1>2

-----------------------------------------------------------------------------
(* The inductive invariant.                                                *)

InHead(x) == x \in Range(queueHead)
Queued(i, r) == r \in Range(flushQueue[i])
Waiting(r) == Queued(0, r) \/ Queued(1, r)
Ended(r) == result[r] # "none"

\* No list holds an entry twice.
ListInv ==
  /\ Distinct(queueHead)
  /\ \A i \in {0, 1} : Distinct(flushQueue[i])

\* A request is in one place, from its submission on.
Place(r) ==
  /\ Submitted(r) <=> (r \in sorted \/ InHead(r) \/ r \in device \/ Waiting(r) \/ Ended(r))
  /\ r \in sorted => ~InHead(r) /\ r \notin device /\ ~Waiting(r) /\ ~Ended(r)
  /\ InHead(r) => r \notin device /\ ~Waiting(r) /\ ~Ended(r)
  /\ r \in device => ~Waiting(r) /\ ~Ended(r)
  /\ Waiting(r) => ~Ended(r)
  /\ ~(Queued(0, r) /\ Queued(1, r))
  /\ r \in dataInFlight => InHead(r) \/ r \in device

PlaceInv == \A r \in Requests : Place(r)

\* The flush request is out exactly while the indices differ.
FlushInv ==
  /\ (InHead(FlushRq) \/ FlushRq \in device) <=> pendingIdx # runningIdx
  /\ ~(InHead(FlushRq) /\ FlushRq \in device)

\* flush_end_io() walks the list that is not the running one any more; that list
\* is empty when no flush is in progress, and the running one is not when one is.
WalkInv ==
  /\ locked => walk = flushQueue[1 - runningIdx] /\ FlushRq \notin device
  /\ ~locked => walk = <<>> /\ ~walkQueued
  /\ ~locked /\ pendingIdx = runningIdx => flushQueue[1 - runningIdx] = <<>>
  /\ pendingIdx # runningIdx => flushQueue[runningIdx] # <<>>

\* How far a request is in its sequence.
WaitsPre(r) == "PREFLUSH" \in Policy(kind[r]) /\ seq[r] = Steps \ Policy(kind[r])
WaitsPost(r) == "POSTFLUSH" \in Policy(kind[r]) /\ seq[r] = {"PREFLUSH", "DATA"}
SendsData(r) ==
  /\ "DATA" \in Policy(kind[r]) /\ Policy(kind[r]) # {"DATA"}
  /\ seq[r] = (Steps \ Policy(kind[r])) \cup {"PREFLUSH"}

DataOnly(r) == Policy(kind[r]) = {"DATA"}

Progress(r) ==
  /\ ~Submitted(r) => seq[r] = {}
  /\ Waiting(r) => WaitsPre(r) \/ WaitsPost(r)
  /\ r \in dataInFlight => SendsData(r)
  /\ r \in sorted \/ InHead(r) \/ r \in device => r \in dataInFlight \/ DataOnly(r)

SeqInv == \A r \in Requests : Progress(r)

\* What is on the media once a request has ended, and how far the flush it asked
\* for has come.
Written(r) ==
  /\ result[r] = "ok" /\ kind[r].data => r \in cache \cup media
  /\ result[r] = "ok" /\ kind[r].data /\ flags = {} => r \in media
  /\ result[r] = "ok" /\ kind[r].fua => r \in media
  /\ before[r] \subseteq cache \cup media
  /\ flags = {} => before[r] \subseteq media
  /\ kind[r].flush /\ result[r] # "error" /\ ~(Waiting(r) /\ WaitsPre(r))
       => before[r] \subseteq media

\* What the flush in progress, and the one that has just ended, are good for.
Flushed(r) ==
  /\ Waiting(r) /\ WaitsPost(r) => r \in cache
  /\ FlushRq \in device /\ Queued(runningIdx, r) =>
       /\ WaitsPost(r) => r \in covered
       /\ WaitsPre(r) => before[r] \subseteq covered \cup media
  /\ locked /\ ~walkError /\ r \in Range(walk) =>
       /\ WaitsPost(r) => r \in media
       /\ WaitsPre(r) => before[r] \subseteq media

MediaInv == \A r \in Requests : Written(r) /\ Flushed(r)

\* Somebody will come back: for what is in the dispatch queue or the scheduler
\* the queue is run or held behind a flush, and what waits for the next flush
\* waits for data that is under way.
RunInv ==
  /\ ~run /\ ~walkQueued => queueHead = <<>>
  /\ ~run /\ ~delayed => sorted = {}
  /\ delayed => locked \/ pendingIdx # runningIdx
  /\ pendingIdx = runningIdx /\ flushQueue[pendingIdx] # <<>> /\ walk = <<>>
       => dataInFlight # {}

IInv == TypeOK /\ ListInv /\ PlaceInv /\ FlushInv /\ WalkInv /\ SeqInv /\ MediaInv /\ RunInv

-----------------------------------------------------------------------------
(* What the operators return.                                              *)

\* list_move_tail() takes away exactly the entry it moves.
LEMMA ListDelFacts ==
  ASSUME NEW S, NEW s \in Seq(S), Distinct(s), NEW r
  PROVE  /\ ListDel(s, r) \in Seq(S) /\ Distinct(ListDel(s, r))
         /\ Range(ListDel(s, r)) = Range(s) \ {r}
         /\ r \notin Range(s) => ListDel(s, r) = s
         /\ s # <<>> /\ r = Head(s) => ListDel(s, r) = Tail(s)
<1>1. CASE r \notin Range(s)
  <2>1. ListDel(s, r) = s BY <1>1 DEF ListDel, Range
  <2> QED BY <1>1, <2>1, ListElements
<1>2. CASE r \in Range(s)
  <2> DEFINE k == CHOOSE i \in DOMAIN s : s[i] = r
             a == SubSeq(s, 1, k - 1)
             b == SubSeq(s, k + 1, Len(s))
  <2>1. k \in DOMAIN s /\ s[k] = r /\ \E i \in DOMAIN s : s[i] = r BY <1>2 DEF Range
  <2>2. ListDel(s, r) = a \o b BY <2>1, Zenon DEF ListDel
  <2> HIDE DEF k
  <2>3. DOMAIN s = 1 .. Len(s) /\ Len(s) \in Nat /\ k \in 1 .. Len(s) BY <2>1
  <2>4. /\ a \in Seq(S) /\ DOMAIN a = 1 .. k - 1 /\ \A i \in 1 .. k - 1 : a[i] = s[i]
    <3>1. \A i \in 1 .. k - 1 : s[i] \in S BY <2>3
    <3>2. a \in Seq(S) /\ Len(a) = k - 1 /\ \A i \in 1 .. k - 1 : a[i] = s[i]
      BY <2>3, <3>1
    <3> QED BY <3>2
  <2>5. /\ b \in Seq(S) /\ DOMAIN b = 1 .. Len(s) - k
        /\ \A i \in 1 .. Len(s) - k : b[i] = s[k + i]
    <3>1. \A i \in k + 1 .. Len(s) : s[i] \in S BY <2>3
    <3>2. k + 1 \in Int /\ Len(s) \in Int BY <2>3
    <3>3. /\ b \in Seq(S) /\ Len(b) = IF k + 1 <= Len(s) THEN Len(s) - (k + 1) + 1 ELSE 0
          /\ \A i \in 1 .. Len(s) - (k + 1) + 1 : b[i] = s[(k + 1) + i - 1]
      BY <2>3, <3>1, <3>2
    <3>4. \A i \in 1 .. Len(s) - k : i \in 1 .. Len(s) - (k + 1) + 1 /\ (k + 1) + i - 1 = k + i
      BY <2>3
    <3> HIDE DEF b
    <3>5. Len(b) = Len(s) - k
      <4>1. CASE k + 1 <= Len(s)
        <5>1. Len(b) = Len(s) - (k + 1) + 1 BY <3>3, <4>1
        <5> QED BY <2>3, <5>1
      <4>2. CASE ~(k + 1 <= Len(s))
        <5>1. Len(b) = 0 BY <3>3, <4>2
        <5>2. ASSUME NEW n \in Nat, NEW m \in 1 .. n, ~(m + 1 <= n) PROVE m = n
          BY <5>2
        <5>3. k = Len(s) BY <2>3, <4>2, <5>2, Zenon
        <5> QED BY <2>3, <5>1, <5>3
      <4> QED BY <4>1, <4>2
    <3> QED BY <3>3, <3>4, <3>5
  <2> HIDE DEF a, b
  <2>6. Distinct(a)
    <3>1. \A i \in 1 .. k - 1 : i \in DOMAIN s BY <2>3
    <3> QED BY <2>4, <3>1 DEF Distinct
  <2>7. Distinct(b)
    <3> SUFFICES ASSUME NEW i \in DOMAIN b, NEW j \in DOMAIN b, b[i] = b[j] PROVE i = j
      BY DEF Distinct
    <3>1. s[k + i] = s[k + j] /\ k + i \in DOMAIN s /\ k + j \in DOMAIN s BY <2>3, <2>5
    <3>2. k + i = k + j BY <3>1 DEF Distinct
    <3> QED BY <2>3, <2>5, <3>2
  <2>8. \A x \in Range(a) : x \in Range(s) \ {r} /\ x \notin Range(b)
    <3> TAKE x \in Range(a)
    <3>1. PICK i \in 1 .. k - 1 : x = s[i] BY <2>4 DEF Range
    <3>2. i \in DOMAIN s /\ i # k BY <2>3
    <3>3. \A j \in 1 .. Len(s) - k : k + j \in DOMAIN s /\ k + j # i BY <2>3
    <3>4. x \in Range(s) /\ x # r BY <2>1, <3>1, <3>2 DEF Distinct, Range
    <3>5. \A j \in 1 .. Len(s) - k : b[j] # x BY <2>5, <3>1, <3>2, <3>3 DEF Distinct
    <3>6. x \notin Range(b) BY <2>5, <3>5 DEF Range
    <3> QED BY <3>4, <3>6
  <2>9. \A x \in Range(b) : x \in Range(s) \ {r}
    <3> TAKE x \in Range(b)
    <3>1. PICK j \in 1 .. Len(s) - k : x = s[k + j] BY <2>5 DEF Range
    <3>2. k + j \in DOMAIN s /\ k + j # k BY <2>3
    <3> QED BY <2>1, <3>1, <3>2 DEF Distinct, Range
  <2>10. \A x \in Range(s) \ {r} : x \in Range(a) \cup Range(b)
    <3> TAKE x \in Range(s) \ {r}
    <3>1. PICK i \in DOMAIN s : x = s[i] /\ i # k BY <2>1 DEF Range
    <3>2. CASE i \in 1 .. k - 1 BY <2>4, <3>1, <3>2 DEF Range
    <3>3. CASE i \in k + 1 .. Len(s)
      <4>1. i - k \in 1 .. Len(s) - k /\ k + (i - k) = i BY <2>3, <3>3
      <4>2. b[i - k] = x BY <2>5, <3>1, <4>1
      <4> QED BY <2>5, <4>1, <4>2 DEF Range
    <3> QED BY <2>3, <3>1, <3>2, <3>3
  <2>11. /\ a \o b \in Seq(S) /\ Range(a \o b) = Range(a) \cup Range(b)
         /\ Distinct(a \o b)
    BY <2>4, <2>5, <2>6, <2>7, <2>8, ListConcat
  <2>12. ASSUME s # <<>>, r = Head(s) PROVE ListDel(s, r) = Tail(s)
    <3>1. 1 \in DOMAIN s /\ s[1] = r BY <2>3, <2>12
    <3>2. k = 1 BY <2>1, <3>1 DEF Distinct
    <3>3. a = <<>> BY <3>2, <2>4
    <3>4. a \o b = b BY <3>3, <2>5
    <3>5. b = Tail(s) BY <3>2, <2>12 DEF b
    <3> QED BY <2>2, <3>4, <3>5
  <2> QED BY <1>2, <2>2, <2>8, <2>9, <2>10, <2>11, <2>12
<1> QED BY <1>1, <1>2

\* blk_flush_policy(): only a request without data does not send any, and it
\* needs nothing but the first flush.
LEMMA PolicyFacts ==
  ASSUME flags \in Features, NEW k \in Kinds
  PROVE  /\ Policy(k) \subseteq Steps
         /\ "DATA" \in Policy(k) <=> k.data
         /\ "PREFLUSH" \in Policy(k) <=> k.flush /\ flags # {}
         /\ "POSTFLUSH" \in Policy(k) <=> k.fua /\ flags # {} /\ "FUA" \notin flags
         /\ "POSTFLUSH" \in Policy(k) => "DATA" \in Policy(k)
         /\ k \in [flush : BOOLEAN, fua : BOOLEAN, data : BOOLEAN]
         /\ k.data \/ (k.flush /\ ~k.fua)
<1>1. flags # {} <=> "FLUSH" \in flags BY FeatureType
<1>2. k \in [flush : BOOLEAN, fua : BOOLEAN, data : BOOLEAN] /\ (k.data \/ (k.flush /\ ~k.fua))
  BY KindType
<1> QED BY <1>1, <1>2 DEF Policy, Steps

\* blk_flush_cur_seq()
LEMMA CurSeqFacts ==
  ASSUME NEW done \in SUBSET Steps
  PROVE  /\ "PREFLUSH" \notin done => CurSeq(done) = "PREFLUSH"
         /\ "PREFLUSH" \in done /\ "DATA" \notin done => CurSeq(done) = "DATA"
         /\ done = {"PREFLUSH", "DATA"} => CurSeq(done) = "POSTFLUSH"
         /\ done = Steps => CurSeq(done) = "DONE"
         /\ CurSeq(done) \in Steps \cup {"DONE"}
BY DEF CurSeq, Steps

\* What blk_flush_complete_seq() with blk_kick_flush() does, once it is known
\* which step of r comes next.
MovesTo(r, next, error) ==
  /\ dataInFlight' = IF next = "DATA" THEN dataInFlight \cup {r} ELSE dataInFlight \ {r}
  /\ result' = IF next = "DONE" THEN [result EXCEPT ![r] = IF error THEN "error" ELSE "ok"]
               ELSE result
  /\ flushQueue' = [i \in {0, 1} |->
       IF i = pendingIdx /\ next \in {"PREFLUSH", "POSTFLUSH"}
       THEN Append(ListDel(flushQueue[i], r), r) ELSE ListDel(flushQueue[i], r)]
  /\ old' \in BOOLEAN

\* The lists are swapped and the flush request is queued, or not.
Kicks(r, next) ==
  LET head == IF next = "DATA" THEN <<r>> \o queueHead ELSE queueHead
  IN  \/ /\ pendingIdx' = pendingIdx /\ queueHead' = head
         /\ pendingIdx # runningIdx \/ flushQueue'[pendingIdx] = <<>> \/ dataInFlight' # {}
      \/ /\ pendingIdx = runningIdx /\ flushQueue'[pendingIdx] # <<>>
         /\ pendingIdx' = 1 - pendingIdx /\ queueHead' = Append(head, FlushRq)

LEMMA CompleteSeqFacts ==
  ASSUME TypeOK, NEW r \in Requests, NEW steps \in SUBSET Steps, NEW error \in BOOLEAN,
         SetLists(CompleteSeq(r, steps, error, runningIdx)),
         NEW next, next = IF error THEN "DONE" ELSE CurSeq(seq[r] \cup steps)
  PROVE  /\ MovesTo(r, next, error)
         /\ Kicks(r, next)
         /\ seq' = [seq EXCEPT ![r] = @ \cup steps]
         /\ next \in Steps \cup {"DONE"}
         /\ CompleteSeq(r, steps, error, runningIdx).queued
              = (next = "DATA" \/ pendingIdx' # pendingIdx)
<1> DEFINE done == seq[r] \cup steps
           sq == [seq EXCEPT ![r] = done]
           off == [queue |-> [i \in {0, 1} |-> ListDel(flushQueue[i], r)],
                   idx |-> pendingIdx, data |-> dataInFlight \ {r}, head |-> queueHead,
                   old |-> old, seq |-> sq, result |-> result, queued |-> FALSE]
           mid == CASE next \in {"PREFLUSH", "POSTFLUSH"} ->
                         [off EXCEPT !.queue[pendingIdx] = Append(@, r),
                                     !.old = IF flushQueue[pendingIdx] = <<>> THEN FALSE ELSE @]
                    [] next = "DATA" ->
                         [off EXCEPT !.data = @ \cup {r}, !.head = <<r>> \o @, !.queued = TRUE]
                    [] next = "DONE" ->
                         [off EXCEPT !.result[r] = IF error THEN "error" ELSE "ok"]
           s == CompleteSeq(r, steps, error, runningIdx)
           moves == next \in {"PREFLUSH", "POSTFLUSH"}
           queue == [i \in {0, 1} |-> IF i = pendingIdx /\ moves
                       THEN Append(ListDel(flushQueue[i], r), r) ELSE ListDel(flushQueue[i], r)]
           data == IF next = "DATA" THEN dataInFlight \cup {r} ELSE dataInFlight \ {r}
           head == IF next = "DATA" THEN <<r>> \o queueHead ELSE queueHead
           res == IF next = "DONE" THEN [result EXCEPT ![r] = IF error THEN "error" ELSE "ok"]
                  ELSE result
           sent == next = "DATA"
<1>1. s = KickFlush(mid, runningIdx)
  BY DEF CompleteSeq
<1>2. next \in Steps \cup {"DONE"}
  <2>1. done \in SUBSET Steps BY DEF TypeOK
  <2> QED BY <2>1, CurSeqFacts
<1>3. pendingIdx \in {0, 1} /\ old \in BOOLEAN BY DEF TypeOK
<1>4. \E o \in BOOLEAN :
        mid = [queue |-> queue, idx |-> pendingIdx, data |-> data, head |-> head,
               old |-> o, seq |-> sq, result |-> res, queued |-> sent]
  <2>1. CASE moves
    <3> DEFINE o == IF flushQueue[pendingIdx] = <<>> THEN FALSE ELSE old
    <3>1. mid = [off EXCEPT !.queue[pendingIdx] = Append(@, r), !.old = o]
      BY <2>1, Zenon
    <3>2. queue = [off.queue EXCEPT ![pendingIdx] = Append(@, r)] BY <1>3, <2>1, Zenon
    <3>3. /\ data = off.data /\ head = off.head /\ sq = off.seq /\ res = off.result
          /\ sent = off.queued /\ pendingIdx = off.idx
      BY <2>1, Zenon
    <3>4. o \in BOOLEAN BY <1>3, Zenon
    <3>5. off = [queue |-> off.queue, idx |-> off.idx, data |-> off.data, head |-> off.head,
                 old |-> off.old, seq |-> off.seq, result |-> off.result, queued |-> off.queued]
      BY Zenon
    <3> HIDE DEF off, mid, queue, data, head, sq, res, sent, o
    <3>6. mid = [queue |-> queue, idx |-> pendingIdx, data |-> data, head |-> head,
                 old |-> o, seq |-> sq, result |-> res, queued |-> sent]
      BY <3>1, <3>2, <3>3, <3>5, Zenon
    <3> QED BY <3>4, <3>6, Zenon
  <2>2. CASE next = "DATA" BY <1>3, <2>2, Zenon
  <2>3. CASE next = "DONE" BY <1>3, <2>3, Zenon
  <2> QED BY <1>2, <2>1, <2>2, <2>3, Zenon DEF Steps
<1>5. PICK o \in BOOLEAN :
        mid = [queue |-> queue, idx |-> pendingIdx, data |-> data, head |-> head,
               old |-> o, seq |-> sq, result |-> res, queued |-> sent]
  BY <1>4, Zenon
<1> HIDE DEF mid, queue, data, head, res, sent, s
<1>6. SetLists(s) BY DEF s
<1>7. \/ /\ pendingIdx # runningIdx \/ queue[pendingIdx] = <<>> \/ data # {}
         /\ s = mid
      \/ /\ pendingIdx = runningIdx /\ queue[pendingIdx] # <<>>
         /\ s = [mid EXCEPT !.idx = 1 - @, !.head = Append(@, FlushRq), !.queued = TRUE]
  BY <1>1, <1>5 DEF KickFlush
<1>8. CASE /\ pendingIdx # runningIdx \/ queue[pendingIdx] = <<>> \/ data # {}
           /\ s = mid
  <2>1. /\ flushQueue' = queue /\ pendingIdx' = pendingIdx /\ dataInFlight' = data
        /\ queueHead' = head /\ old' = o /\ seq' = sq /\ result' = res /\ s.queued = sent
    BY <1>5, <1>6, <1>8 DEF SetLists
  <2>2. MovesTo(r, next, error) BY <2>1 DEF MovesTo, queue, data, res
  <2>3. Kicks(r, next) BY <1>8, <2>1 DEF Kicks, head
  <2> QED BY <1>2, <2>1, <2>2, <2>3 DEF sent, s
<1>9. CASE /\ pendingIdx = runningIdx /\ queue[pendingIdx] # <<>>
           /\ s = [mid EXCEPT !.idx = 1 - @, !.head = Append(@, FlushRq), !.queued = TRUE]
  <2>1. /\ flushQueue' = queue /\ pendingIdx' = 1 - pendingIdx /\ dataInFlight' = data
        /\ queueHead' = Append(head, FlushRq) /\ old' = o /\ seq' = sq /\ result' = res
        /\ s.queued = TRUE
    BY <1>5, <1>6, <1>9 DEF SetLists
  <2>2. MovesTo(r, next, error) BY <2>1 DEF MovesTo, queue, data, res
  <2>3. Kicks(r, next) BY <1>9, <2>1 DEF Kicks, head
  <2>4. 1 - pendingIdx # pendingIdx BY <1>3
  <2> QED BY <1>2, <2>1, <2>2, <2>3, <2>4, Zenon DEF s
<1> QED BY <1>7, <1>8, <1>9

\* The same at the level of what is where: r leaves the list it was on and joins
\* the pending one, goes to the front of the dispatch queue, or ends; the flush
\* request joins the dispatch queue if the lists were swapped.
Moved(r, next, error) ==
  /\ \A x \in Rqs : InHead(x)' <=> (InHead(x) \/ (x = r /\ next = "DATA")
                                     \/ (x = FlushRq /\ pendingIdx' # pendingIdx))
  /\ \A i \in {0, 1}, x \in Requests :
        Queued(i, x)' <=> IF x = r THEN i = pendingIdx /\ next \in {"PREFLUSH", "POSTFLUSH"}
                          ELSE Queued(i, x)
  /\ \A x \in Requests :
        x \in dataInFlight' <=> IF x = r THEN next = "DATA" ELSE x \in dataInFlight
  /\ \A x \in Requests : result'[x] = IF x = r /\ next = "DONE"
                                      THEN IF error THEN "error" ELSE "ok" ELSE result[x]
  /\ pendingIdx' # pendingIdx => /\ pendingIdx = runningIdx /\ pendingIdx' = 1 - pendingIdx
                                 /\ flushQueue'[pendingIdx] # <<>>
  /\ pendingIdx' = pendingIdx /\ pendingIdx = runningIdx =>
        flushQueue'[pendingIdx] = <<>> \/ dataInFlight' # {}
  /\ next # "DATA" /\ pendingIdx' = pendingIdx => queueHead' = queueHead

LEMMA MovedFacts ==
  ASSUME TypeOK, ListInv, FlushInv, NEW r \in Requests, ~InHead(r), NEW next, NEW error \in BOOLEAN,
         MovesTo(r, next, error), Kicks(r, next), next \in Steps \cup {"DONE"}
  PROVE  /\ Moved(r, next, error)
         /\ ListInv'
         /\ queueHead' \in Seq(Rqs) /\ flushQueue' \in [{0, 1} -> Seq(Requests)]
         /\ pendingIdx' \in {0, 1} /\ dataInFlight' \subseteq Requests /\ old' \in BOOLEAN
         /\ result' \in [Requests -> {"none", "ok", "error"}]
         /\ \A i \in {0, 1} : /\ next \notin {"PREFLUSH", "POSTFLUSH"}
                              /\ flushQueue[i] # <<>> /\ r = Head(flushQueue[i])
                              => flushQueue'[i] = Tail(flushQueue[i])
<1> DEFINE moves == next \in {"PREFLUSH", "POSTFLUSH"}
           head == IF next = "DATA" THEN <<r>> \o queueHead ELSE queueHead
<1>1. /\ pendingIdx \in {0, 1} /\ queueHead \in Seq(Rqs) /\ r \in Rqs /\ FlushRq \in Rqs
      /\ r # FlushRq /\ Distinct(queueHead)
  BY FlushRqIsNew DEF TypeOK, Rqs, ListInv
<1>2. ASSUME NEW i \in {0, 1}
      PROVE  /\ flushQueue'[i] \in Seq(Requests) /\ Distinct(flushQueue'[i])
             /\ Range(flushQueue'[i]) = IF i = pendingIdx /\ moves
                  THEN Range(flushQueue[i]) \cup {r} ELSE Range(flushQueue[i]) \ {r}
             /\ ~moves /\ flushQueue[i] # <<>> /\ r = Head(flushQueue[i])
                  => flushQueue'[i] = Tail(flushQueue[i])
  <2> DEFINE l == ListDel(flushQueue[i], r)
  <2>1. flushQueue[i] \in Seq(Requests) /\ Distinct(flushQueue[i]) BY DEF TypeOK, ListInv
  <2>2. /\ l \in Seq(Requests) /\ Distinct(l) /\ Range(l) = Range(flushQueue[i]) \ {r}
        /\ flushQueue[i] # <<>> /\ r = Head(flushQueue[i]) => l = Tail(flushQueue[i])
    BY <2>1, ListDelFacts, Zenon
  <2>3. flushQueue'[i] = IF i = pendingIdx /\ moves THEN Append(l, r) ELSE l
    BY DEF MovesTo
  <2> HIDE DEF l
  <2>4. /\ Append(l, r) \in Seq(Requests) /\ Range(Append(l, r)) = Range(l) \cup {r}
        /\ Distinct(Append(l, r))
    BY <2>2, ListAppend
  <2>5. CASE i = pendingIdx /\ moves BY <2>2, <2>3, <2>4, <2>5
  <2>6. CASE ~(i = pendingIdx /\ moves) BY <2>2, <2>3, <2>6, Zenon
  <2> QED BY <2>5, <2>6
<1>3. /\ head \in Seq(Rqs) /\ Distinct(head)
      /\ Range(head) = IF next = "DATA" THEN Range(queueHead) \cup {r} ELSE Range(queueHead)
  <2>1. <<r>> \in Seq(Rqs) /\ Range(<<r>>) = {r} /\ Distinct(<<r>>) BY <1>1, ListOne
  <2>2. Range(<<r>>) \cap Range(queueHead) = {} BY <2>1 DEF InHead
  <2> DEFINE one == <<r>>
  <2>3. one \in Seq(Rqs) /\ Range(one) = {r} /\ Distinct(one) BY <2>1
  <2>4. Range(one) \cap Range(queueHead) = {} BY <2>2
  <2>5. next = "DATA" => head = one \o queueHead OBVIOUS
  <2> HIDE DEF one
  <2>6. /\ one \o queueHead \in Seq(Rqs) /\ Distinct(one \o queueHead)
        /\ Range(one \o queueHead) = Range(one) \cup Range(queueHead)
    BY <1>1, <2>3, <2>4, ListConcat
  <2>7. CASE next = "DATA" BY <2>3, <2>5, <2>6, <2>7
  <2>8. CASE next # "DATA" BY <1>1, <2>8
  <2> QED BY <2>7, <2>8
<1>4. /\ queueHead' \in Seq(Rqs) /\ Distinct(queueHead') /\ pendingIdx' \in {0, 1}
      /\ Range(queueHead') = IF pendingIdx' # pendingIdx THEN Range(head) \cup {FlushRq}
                                ELSE Range(head)
      /\ pendingIdx' # pendingIdx => /\ pendingIdx = runningIdx /\ pendingIdx' = 1 - pendingIdx
                                     /\ flushQueue'[pendingIdx] # <<>>
      /\ pendingIdx' = pendingIdx =>
           /\ queueHead' = head
           /\ pendingIdx # runningIdx \/ flushQueue'[pendingIdx] = <<>> \/ dataInFlight' # {}
  <2>1. CASE /\ pendingIdx' = pendingIdx /\ queueHead' = head
             /\ pendingIdx # runningIdx \/ flushQueue'[pendingIdx] = <<>> \/ dataInFlight' # {}
    BY <1>1, <1>3, <2>1
  <2>2. CASE /\ pendingIdx = runningIdx /\ flushQueue'[pendingIdx] # <<>>
             /\ pendingIdx' = 1 - pendingIdx /\ queueHead' = Append(head, FlushRq)
    <3>1. FlushRq \notin Range(head) BY <1>1, <1>3, <2>2 DEF FlushInv, InHead
    <3> HIDE DEF head
    <3>2. /\ queueHead' \in Seq(Rqs) /\ Distinct(queueHead')
          /\ Range(queueHead') = Range(head) \cup {FlushRq}
      BY <1>1, <1>3, <2>2, <3>1, ListAppend
    <3>3. pendingIdx' \in {0, 1} /\ pendingIdx' # pendingIdx BY <1>1, <2>2
    <3> QED BY <2>2, <3>2, <3>3
  <2> QED BY <2>1, <2>2 DEF Kicks
<1>5. ListInv' BY <1>2, <1>4 DEF ListInv
<1>6. /\ flushQueue' \in [{0, 1} -> Seq(Requests)]
  BY <1>2 DEF MovesTo
<1>7. /\ dataInFlight' \subseteq Requests /\ old' \in BOOLEAN
      /\ result' \in [Requests -> {"none", "ok", "error"}]
  BY Zenon DEF MovesTo, TypeOK
<1>8. Moved(r, next, error)
  <2>1. \A x \in Rqs : InHead(x)' <=> (InHead(x) \/ (x = r /\ next = "DATA")
                                     \/ (x = FlushRq /\ pendingIdx' # pendingIdx))
    <3> HIDE DEF head
    <3> TAKE x \in Rqs
    <3>1. x \in Range(queueHead') <=> x \in Range(head) \/ (x = FlushRq /\ pendingIdx' # pendingIdx)
      BY <1>4
    <3>2. x \in Range(head) <=> x \in Range(queueHead) \/ (x = r /\ next = "DATA")
      BY <1>3
    <3> QED BY <3>1, <3>2 DEF InHead
  <2>2. \A i \in {0, 1}, x \in Requests :
          Queued(i, x)' <=> IF x = r THEN i = pendingIdx /\ next \in {"PREFLUSH", "POSTFLUSH"}
                            ELSE Queued(i, x)
    BY <1>2 DEF Queued
  <2>3. \A x \in Requests :
          x \in dataInFlight' <=> IF x = r THEN next = "DATA" ELSE x \in dataInFlight
    BY DEF MovesTo
  <2>4. \A x \in Requests : result'[x] = IF x = r /\ next = "DONE"
                                         THEN IF error THEN "error" ELSE "ok" ELSE result[x]
    BY DEF MovesTo, TypeOK
  <2>5. next # "DATA" /\ pendingIdx' = pendingIdx => queueHead' = queueHead BY <1>4
  <2> QED BY <1>4, <2>1, <2>2, <2>3, <2>4, <2>5 DEF Moved
<1> QED BY <1>2, <1>4, <1>5, <1>6, <1>7, <1>8

-----------------------------------------------------------------------------
(* The invariant holds initially, and every action keeps it.               *)

\* How far a request is depends on its kind and on its steps only.
LEMMA Stable ==
  ASSUME NEW r \in Requests, flags' = flags, kind'[r] = kind[r], seq'[r] = seq[r]
  PROVE  /\ WaitsPre(r)' <=> WaitsPre(r)
         /\ WaitsPost(r)' <=> WaitsPost(r)
         /\ SendsData(r)' <=> SendsData(r)
         /\ DataOnly(r)' <=> DataOnly(r)
         /\ Submitted(r)' <=> Submitted(r)
<1>1. Policy(kind[r])' = Policy(kind[r]) BY DEF Policy
<1> QED BY <1>1 DEF WaitsPre, WaitsPost, SendsData, DataOnly, Submitted

\* Where a request is depends on the lists only.
LEMMA SamePlace ==
  ASSUME NEW r \in Requests, UNCHANGED <<flushQueue, result, dataInFlight>>
  PROVE  /\ Waiting(r)' <=> Waiting(r)
         /\ \A i \in {0, 1} : Queued(i, r)' <=> Queued(i, r)
         /\ Ended(r)' <=> Ended(r)
         /\ r \in dataInFlight' <=> r \in dataInFlight
BY DEF Waiting, Queued, Ended

\* What the steps of a request say about its kind.
LEMMA KindFacts ==
  ASSUME TypeOK, NEW r \in Requests, Submitted(r)
  PROVE  /\ kind[r] \in Kinds
         /\ DataOnly(r) => /\ kind[r].data
                           /\ kind[r].flush => flags = {}
                           /\ kind[r].fua => flags = {} \/ "FUA" \in flags
         /\ ~(WaitsPre(r) /\ WaitsPost(r))
<1>1. kind[r] \in Kinds BY DEF TypeOK, Submitted
<1>2. flags \in Features BY DEF TypeOK
<1> DEFINE P == Policy(kind[r])
<1>3. /\ P \subseteq Steps
      /\ "DATA" \in P <=> kind[r].data
      /\ "PREFLUSH" \in P <=> kind[r].flush /\ flags # {}
      /\ "POSTFLUSH" \in P <=> kind[r].fua /\ flags # {} /\ "FUA" \notin flags
  BY <1>1, <1>2, PolicyFacts
<1>4. DataOnly(r) => P = {"DATA"} BY DEF DataOnly
<1>5. ~(WaitsPre(r) /\ WaitsPost(r)) BY DEF WaitsPre, WaitsPost
<1> QED BY <1>1, <1>3, <1>4, <1>5

LEMMA InitInv == Init => IInv
<1> SUFFICES ASSUME Init PROVE IInv OBVIOUS
<1>1. TypeOK
  <2>1. queueHead \in Seq(Rqs) /\ walk \in Seq(Requests) BY DEF Init
  <2>2. flushQueue \in [{0, 1} -> Seq(Requests)] BY DEF Init
  <2>3. kind \in [Requests -> Kinds \cup {NoKind}] BY DEF Init
  <2>4. {old, delayed, run, walkError, walkQueued, locked} \subseteq BOOLEAN BY Zenon DEF Init
  <2> QED BY <2>1, <2>2, <2>3, <2>4 DEF Init, TypeOK
<1>2. Range(queueHead) = {} /\ Distinct(queueHead) BY ListEmpty DEF Init
<1>3. \A i \in {0, 1} : Range(flushQueue[i]) = {} /\ Distinct(flushQueue[i])
  BY DEF Init, Range, Distinct
<1>4. ListInv BY <1>2, <1>3 DEF ListInv
<1>5. \A r \in Requests : /\ ~Submitted(r) /\ ~InHead(r) /\ ~Waiting(r) /\ ~Ended(r)
                          /\ ~Queued(0, r) /\ ~Queued(1, r)
  BY <1>2, <1>3 DEF Init, Submitted, InHead, Waiting, Queued, Ended
<1>6. PlaceInv BY <1>5 DEF PlaceInv, Place, Init
<1>7. FlushInv BY <1>2 DEF FlushInv, InHead, Init
<1>8. WalkInv BY DEF WalkInv, Init
<1>9. SeqInv BY <1>5 DEF SeqInv, Progress, Init
<1>10. MediaInv
  <2> SUFFICES ASSUME NEW r \in Requests PROVE Written(r) /\ Flushed(r) BY DEF MediaInv
  <2>1. Written(r) BY DEF Written, Init
  <2>2. Flushed(r) BY <1>5 DEF Flushed, Init
  <2> QED BY <2>1, <2>2
<1>11. RunInv BY DEF RunInv, Init
<1> QED BY <1>1, <1>4, <1>6, <1>7, <1>8, <1>9, <1>10, <1>11 DEF IInv

\* A step that leaves every list, the device and the storage alone.
LEMMA QuietStep ==
  ASSUME IInv, UNCHANGED <<submission, queueHead, flushQueue, pendingIdx, dataInFlight, seq,
                           result, sorted, runningIdx, device, walk, storage>>,
         locked' => locked /\ walkError' = walkError
  PROVE  ListInv' /\ PlaceInv' /\ FlushInv' /\ SeqInv' /\ MediaInv'
<1> USE DEF submission, storage
<1>1. ListInv' /\ FlushInv' BY DEF IInv, ListInv, FlushInv, InHead
<1>2. ASSUME NEW r \in Requests
      PROVE  Place(r)' /\ Progress(r)' /\ Written(r)' /\ Flushed(r)'
  <2>1. /\ WaitsPre(r)' <=> WaitsPre(r)
        /\ WaitsPost(r)' <=> WaitsPost(r)
        /\ SendsData(r)' <=> SendsData(r)
        /\ DataOnly(r)' <=> DataOnly(r)
        /\ Submitted(r)' <=> Submitted(r)
    BY Stable
  <2>2. /\ Waiting(r)' <=> Waiting(r)
        /\ \A i \in {0, 1} : Queued(i, r)' <=> Queued(i, r)
        /\ Ended(r)' <=> Ended(r)
    BY SamePlace
  <2>3. InHead(r)' <=> InHead(r) BY DEF InHead
  <2>4. Place(r) /\ Progress(r) /\ Written(r) /\ Flushed(r)
    BY DEF IInv, PlaceInv, SeqInv, MediaInv
  <2>5. Place(r)' BY <2>1, <2>2, <2>3, <2>4, Zenon DEF Place
  <2>6. Progress(r)' BY <2>1, <2>2, <2>3, <2>4, Zenon DEF Progress
  <2>7. Written(r)' BY <2>1, <2>2, <2>4, Zenon DEF Written
  <2>8. Queued(runningIdx, r)' <=> Queued(runningIdx, r) BY Zenon DEF Queued
  <2>9. Flushed(r)' BY <2>1, <2>2, <2>4, <2>8, Zenon DEF Flushed
  <2> QED BY <2>5, <2>6, <2>7, <2>9, Zenon
<1> QED BY <1>1, <1>2 DEF PlaceInv, SeqInv, MediaInv

LEMMA AgeInv ==
  ASSUME IInv, Age PROVE IInv'
<1> USE DEF Age, submission, walking, storage
<1>1. TypeOK' BY Zenon DEF IInv, TypeOK, Rqs
<1>2. ListInv' /\ PlaceInv' /\ FlushInv' /\ SeqInv' /\ MediaInv' BY QuietStep
<1>3. WalkInv' /\ RunInv' BY DEF IInv, WalkInv, RunInv
<1> QED BY <1>1, <1>2, <1>3, Zenon DEF IInv

LEMMA HoldInv ==
  ASSUME IInv, Hold PROVE IInv'
<1> USE DEF Hold, submission, lists, walking, storage
<1>1. TypeOK' BY Zenon DEF IInv, TypeOK, Rqs
<1>2. ListInv' /\ PlaceInv' /\ FlushInv' /\ SeqInv' /\ MediaInv' BY QuietStep
<1>3. WalkInv' /\ RunInv' BY DEF IInv, WalkInv, RunInv
<1> QED BY <1>1, <1>2, <1>3 DEF IInv

LEMMA FlushEndDoneInv ==
  ASSUME IInv, FlushEndDone PROVE IInv'
<1> USE DEF FlushEndDone, submission, lists, storage
<1>1. TypeOK' BY Zenon DEF IInv, TypeOK, Rqs
<1>2. ListInv' /\ PlaceInv' /\ FlushInv' /\ SeqInv' /\ MediaInv' BY QuietStep
<1>3. WalkInv' /\ RunInv' BY Zenon DEF IInv, WalkInv, RunInv
<1> QED BY <1>1, <1>2, <1>3 DEF IInv

\* What a step that does not touch the sequences and results of r has to show for
\* its place and its progress.
LEMMA KeepsProgress ==
  ASSUME NEW r \in Requests, Place(r), Progress(r),
         UNCHANGED <<submission, flushQueue, dataInFlight, seq, result>>,
         r \in sorted' => r \in sorted,
         ~(r \in sorted' /\ InHead(r)'), ~(InHead(r)' /\ r \in device'),
         ~(r \in sorted' /\ r \in device'),
         (r \in sorted' \/ InHead(r)' \/ r \in device')
           <=> (r \in sorted \/ InHead(r) \/ r \in device),
         (InHead(r) \/ r \in device) => (InHead(r)' \/ r \in device')
  PROVE  Place(r)' /\ Progress(r)'
<1>1. /\ WaitsPre(r)' <=> WaitsPre(r)
      /\ WaitsPost(r)' <=> WaitsPost(r)
      /\ SendsData(r)' <=> SendsData(r)
      /\ DataOnly(r)' <=> DataOnly(r)
      /\ Submitted(r)' <=> Submitted(r)
  BY Stable, Zenon DEF submission
<1>2. /\ Waiting(r)' <=> Waiting(r)
      /\ \A i \in {0, 1} : Queued(i, r)' <=> Queued(i, r)
      /\ Ended(r)' <=> Ended(r)
      /\ r \in dataInFlight' <=> r \in dataInFlight
  BY SamePlace
<1>3. Place(r)' BY <1>1, <1>2, Zenon DEF Place
<1>4. Progress(r)' BY <1>1, <1>2, Zenon DEF Progress
<1> QED BY <1>3, <1>4, Zenon

LEMMA FetchInv ==
  ASSUME IInv, Fetch PROVE IInv'
<1> USE DEF submission, walking
<1>0. PICK x : x = Head(queueHead) OBVIOUS
<1>1. /\ queueHead' \in Seq(Rqs) /\ x \in Rqs /\ Distinct(queueHead')
      /\ Range(queueHead) = Range(queueHead') \cup {x} /\ x \notin Range(queueHead')
  <2>1. queueHead \in Seq(Rqs) /\ queueHead # <<>> /\ Distinct(queueHead) /\ queueHead' = Tail(queueHead)
    BY DEF IInv, TypeOK, ListInv, Fetch
  <2> QED BY <1>0, <2>1, ListTail
<1>2. /\ ~locked /\ run /\ device' = device \cup {x}
      /\ covered' = IF x = FlushRq THEN cache ELSE covered
      /\ UNCHANGED <<submission, flushQueue, pendingIdx, dataInFlight, old, seq, result, sorted,
                     runningIdx, delayed, run, walking, cache, media>>
  BY <1>0, Zenon DEF Fetch
<1>3. TypeOK' BY <1>1, <1>2, Zenon DEF IInv, TypeOK
<1>4. ListInv' BY <1>1, <1>2 DEF IInv, ListInv
<1>5. \A y \in Rqs : InHead(y) <=> (InHead(y)' \/ y = x) BY <1>1 DEF InHead
<1>6. ~InHead(x)' /\ InHead(x) BY <1>1 DEF InHead
<1>7. FlushRq \in Rqs /\ FlushRq \notin Requests /\ \A r \in Requests : r \in Rqs
  BY FlushRqIsNew DEF Rqs
<1>8. FlushInv' BY <1>2, <1>5, <1>6, <1>7, SMTT(20) DEF IInv, FlushInv
<1>9. WalkInv' /\ RunInv' BY <1>2 DEF IInv, WalkInv, RunInv
<1>10. ASSUME NEW r \in Requests
       PROVE  Place(r)' /\ Progress(r)' /\ Written(r)' /\ Flushed(r)'
  <2>1. Place(r) /\ Progress(r) /\ Written(r) /\ Flushed(r)
    BY DEF IInv, PlaceInv, SeqInv, MediaInv
  <2>2. InHead(r) <=> (InHead(r)' \/ r = x) BY <1>5, <1>7
  <2>3. r \in device' <=> (r \in device \/ r = x) BY <1>2
  <2>4. Place(r)' /\ Progress(r)'
    <3>1. ~(r \in sorted' /\ InHead(r)') /\ ~(r \in sorted' /\ r \in device')
          /\ ~(InHead(r)' /\ r \in device')
      BY <1>2, <1>6, <2>1, <2>2, <2>3, Zenon DEF Place
    <3> QED BY <1>2, <2>1, <2>2, <2>3, <3>1, KeepsProgress, Zenon
  <2>5. WaitsPre(r)' <=> WaitsPre(r) BY <1>2, Stable, Zenon
  <2>6. WaitsPost(r)' <=> WaitsPost(r) BY <1>2, Stable, Zenon
  <2>7. Waiting(r)' <=> Waiting(r) BY <1>2, Zenon DEF Waiting, Queued
  <2>8. Written(r)' BY <1>2, <2>1, <2>5, <2>7, Zenon DEF Written
  <2>9. Queued(runningIdx, r)' <=> Queued(runningIdx, r) BY <1>2 DEF Queued
  <2>10. Flushed(r)'
    <3>1. CASE x = FlushRq
      <4>1. covered' = cache BY <1>2, <3>1, Zenon
      <4>2. before[r] \subseteq cache \cup media BY <2>1, Zenon DEF Written
      <4>3. Queued(runningIdx, r) => Waiting(r) BY DEF IInv, TypeOK, Waiting
      <4> QED BY <1>2, <2>1, <2>5, <2>6, <2>7, <2>9, <4>1, <4>2, <4>3, Zenon DEF Flushed
    <3>2. CASE x # FlushRq
      <4>1. covered' = covered BY <1>2, <3>2
      <4>2. FlushRq \in device' => FlushRq \in device BY <1>2, <3>2
      <4> QED BY <1>2, <2>1, <2>5, <2>6, <2>7, <2>9, <4>1, <4>2, Zenon DEF Flushed
    <3> QED BY <3>1, <3>2, Zenon
  <2> QED BY <2>4, <2>8, <2>10
<1> QED BY <1>3, <1>4, <1>8, <1>9, <1>10 DEF IInv, PlaceInv, SeqInv, MediaInv

LEMMA ElevatorDispatchInv ==
  ASSUME IInv, ElevatorDispatch PROVE IInv'
<1> USE DEF submission, walking, storage
<1>1. /\ ~locked /\ run /\ queueHead = <<>>
      /\ UNCHANGED <<submission, flushQueue, pendingIdx, dataInFlight, old, seq, result,
                     runningIdx, delayed, device, walking, storage>>
  BY DEF ElevatorDispatch
<1>2. CASE sorted = {} /\ run' = FALSE /\ UNCHANGED <<queueHead, sorted>>
  <2>1. TypeOK' BY <1>1, <1>2, Zenon DEF IInv, TypeOK
  <2>2. ListInv' /\ PlaceInv' /\ FlushInv' /\ SeqInv' /\ MediaInv' BY <1>1, <1>2, QuietStep, Zenon
  <2>3. WalkInv' /\ RunInv' BY <1>1, <1>2, Zenon DEF IInv, WalkInv, RunInv
  <2> QED BY <2>1, <2>2, <2>3 DEF IInv
<1>3. ASSUME NEW x \in sorted, queueHead' = <<x>>, sorted' = sorted \ {x}, UNCHANGED run
      PROVE  IInv'
  <2>1. x \in Requests /\ x \in Rqs BY DEF IInv, TypeOK, Rqs
  <2>2. queueHead' \in Seq(Rqs) /\ Range(queueHead') = {x} /\ Distinct(queueHead')
    BY <1>3, <2>1, ListOne, Zenon
  <2>3. TypeOK' BY <1>1, <1>3, <2>2, Zenon DEF IInv, TypeOK
  <2>4. ListInv' BY <1>1, <2>2, Zenon DEF IInv, ListInv
  <2>5. \A y : ~InHead(y) /\ (InHead(y)' <=> y = x)
    <3>1. Range(queueHead) = {} BY <1>1, ListEmpty
    <3> QED BY <2>2, <3>1 DEF InHead
  <2>6. x # FlushRq BY <2>1, FlushRqIsNew
  <2>7. FlushInv' BY <1>1, <2>5, <2>6, Zenon DEF IInv, FlushInv
  <2>8. WalkInv' /\ RunInv' BY <1>1, <1>3, Zenon DEF IInv, WalkInv, RunInv
  <2>9. ASSUME NEW r \in Requests
         PROVE  Place(r)' /\ Progress(r)' /\ Written(r)' /\ Flushed(r)'
    <3>1. Place(r) /\ Progress(r) /\ Written(r) /\ Flushed(r)
      BY DEF IInv, PlaceInv, SeqInv, MediaInv
    <3>2. ~InHead(r) /\ (InHead(r)' <=> r = x) BY <2>5
    <3>3. ~(r \in sorted' /\ InHead(r)') /\ ~(r \in sorted' /\ r \in device')
          /\ ~(InHead(r)' /\ r \in device')
      BY <1>1, <1>3, <3>1, <3>2, Zenon DEF Place
    <3>4. Place(r)' /\ Progress(r)' BY <1>1, <1>3, <3>1, <3>2, <3>3, KeepsProgress, Zenon
    <3>5. WaitsPre(r)' <=> WaitsPre(r) BY <1>1, Stable, Zenon
    <3>6. WaitsPost(r)' <=> WaitsPost(r) BY <1>1, Stable, Zenon
    <3>7. Waiting(r)' <=> Waiting(r) BY <1>1, Zenon DEF Waiting, Queued
    <3>8. Written(r)' BY <1>1, <3>1, <3>5, <3>7, Zenon DEF Written
    <3>9. Queued(runningIdx, r)' <=> Queued(runningIdx, r) BY <1>1 DEF Queued
    <3>10. Flushed(r)' BY <1>1, <3>1, <3>5, <3>6, <3>7, <3>9, Zenon DEF Flushed
    <3> QED BY <3>4, <3>8, <3>10
  <2> QED BY <2>3, <2>4, <2>7, <2>8, <2>9, Zenon DEF IInv, PlaceInv, SeqInv, MediaInv
<1> QED BY <1>2, <1>3, Zenon DEF ElevatorDispatch

\* What a step that leaves r where it is has to show for the media.
LEMMA KeepsMedia ==
  ASSUME NEW r \in Requests, Written(r), Flushed(r),
         flags' = flags, kind'[r] = kind[r], before'[r] = before[r], seq'[r] = seq[r],
         result'[r] = result[r], Waiting(r)' <=> Waiting(r),
         Queued(runningIdx, r)' => Queued(runningIdx, r),
         cache \subseteq cache', media \subseteq media', covered' = covered,
         FlushRq \in device' => FlushRq \in device,
         locked' /\ r \in Range(walk') => locked /\ r \in Range(walk),
         walkError' = walkError
  PROVE  Written(r)' /\ Flushed(r)'
<1>1. WaitsPre(r)' <=> WaitsPre(r) BY Stable, Zenon
<1>2. WaitsPost(r)' <=> WaitsPost(r) BY Stable, Zenon
<1>3. Written(r)' BY <1>1, Zenon DEF Written
<1>4. Flushed(r)' BY <1>1, <1>2, Zenon DEF Flushed
<1> QED BY <1>3, <1>4, Zenon

LEMMA RequeueInv ==
  ASSUME IInv, NEW x \in Rqs, Requeue(x) PROVE IInv'
<1> USE DEF submission, walking, storage
<1>1. /\ ~locked /\ x \in device /\ device' = device \ {x} /\ queueHead' = <<x>> \o queueHead
      /\ run' = TRUE
      /\ UNCHANGED <<submission, flushQueue, pendingIdx, dataInFlight, old, seq, result, sorted,
                     runningIdx, delayed, walking, storage>>
  BY DEF Requeue
<1>2. FlushRq \in Rqs /\ FlushRq \notin Requests /\ \A r \in Requests : r \in Rqs
  BY FlushRqIsNew DEF Rqs
<1>3. ~InHead(x)
  <2>1. CASE x = FlushRq BY <1>1, <2>1 DEF IInv, FlushInv
  <2>2. CASE x \in Requests BY <1>1, <2>2 DEF IInv, PlaceInv, Place
  <2> QED BY <2>1, <2>2 DEF Rqs
<1>4. /\ queueHead' \in Seq(Rqs) /\ Distinct(queueHead')
      /\ Range(queueHead') = Range(queueHead) \cup {x}
  <2> DEFINE one == <<x>>
  <2>1. one \in Seq(Rqs) /\ Range(one) = {x} /\ Distinct(one) BY ListOne
  <2>2. queueHead' = one \o queueHead BY <1>1, Zenon
  <2>3. queueHead \in Seq(Rqs) /\ Distinct(queueHead) BY DEF IInv, TypeOK, ListInv
  <2> HIDE DEF one
  <2>4. Range(one) \cap Range(queueHead) = {} BY <1>3, <2>1 DEF InHead
  <2>5. /\ one \o queueHead \in Seq(Rqs) /\ Distinct(one \o queueHead)
        /\ Range(one \o queueHead) = Range(one) \cup Range(queueHead)
    BY <2>1, <2>3, <2>4, ListConcat
  <2> QED BY <2>1, <2>2, <2>5
<1>5. TypeOK' BY <1>1, <1>4, Zenon DEF IInv, TypeOK
<1>6. ListInv' BY <1>1, <1>4 DEF IInv, ListInv
<1>7. \A y \in Rqs : InHead(y)' <=> (InHead(y) \/ y = x) BY <1>4 DEF InHead
<1>8. FlushInv' BY <1>1, <1>2, <1>3, <1>7, Zenon DEF IInv, FlushInv
<1>9. WalkInv' /\ RunInv' BY <1>1 DEF IInv, WalkInv, RunInv
<1>10. ASSUME NEW r \in Requests
       PROVE  Place(r)' /\ Progress(r)' /\ Written(r)' /\ Flushed(r)'
  <2>1. Place(r) /\ Progress(r) /\ Written(r) /\ Flushed(r)
    BY DEF IInv, PlaceInv, SeqInv, MediaInv
  <2>2. InHead(r)' <=> (InHead(r) \/ r = x) BY <1>2, <1>7
  <2>3. r \in device' <=> (r \in device /\ r # x) BY <1>1
  <2>4. ~(r \in sorted' /\ InHead(r)') /\ ~(r \in sorted' /\ r \in device')
        /\ ~(InHead(r)' /\ r \in device')
    BY <1>1, <2>1, <2>2, <2>3, Zenon DEF Place
  <2>5. Place(r)' /\ Progress(r)' BY <1>1, <2>1, <2>2, <2>3, <2>4, KeepsProgress
  <2>6. Waiting(r)' <=> Waiting(r) BY <1>1 DEF Waiting, Queued
  <2>7. Queued(runningIdx, r)' <=> Queued(runningIdx, r) BY <1>1 DEF Queued
  <2>8. FlushRq \in device' => FlushRq \in device BY <1>1, Zenon
  <2>9. Written(r)' /\ Flushed(r)' BY <1>1, <2>1, <2>6, <2>7, <2>8, KeepsMedia, Zenon
  <2> QED BY <2>5, <2>9
<1> QED BY <1>5, <1>6, <1>8, <1>9, <1>10 DEF IInv, PlaceInv, SeqInv, MediaInv

LEMMA EndPlainInv ==
  ASSUME IInv, NEW x \in Requests, NEW error \in BOOLEAN, EndPlain(x, error) PROVE IInv'
<1> USE DEF submission, walking
<1>1. /\ ~locked /\ x \in device /\ x \notin dataInFlight /\ device' = device \ {x}
      /\ result' = [result EXCEPT ![x] = IF error THEN "error" ELSE "ok"]
      /\ UNCHANGED <<submission, queueHead, flushQueue, pendingIdx, dataInFlight, old, seq,
                     sorted, runningIdx, delayed, run, walking>>
  BY Zenon DEF EndPlain
<1>2. /\ cache \subseteq cache' /\ media \subseteq media' /\ covered' = covered
      /\ cache' \subseteq Requests /\ media' \subseteq Requests
      /\ ~error => /\ x \in cache' \cup media'
                   /\ flags = {} \/ ("FUA" \in flags /\ kind[x].fua) => x \in media'
  BY Zenon DEF EndPlain, Stored, storage, IInv, TypeOK
<1>3. TypeOK' BY <1>1, <1>2, Zenon DEF IInv, TypeOK
<1>4. ListInv' BY <1>1 DEF IInv, ListInv
<1>5. FlushInv' BY <1>1, FlushRqIsNew, Zenon DEF IInv, FlushInv, InHead
<1>6. WalkInv' /\ RunInv' BY <1>1 DEF IInv, WalkInv, RunInv
<1>7. ASSUME NEW r \in Requests
       PROVE  Place(r)' /\ Progress(r)' /\ Written(r)' /\ Flushed(r)'
  <2>1. Place(r) /\ Progress(r) /\ Written(r) /\ Flushed(r) /\ TypeOK
    BY DEF IInv, PlaceInv, SeqInv, MediaInv
  <2>2. /\ WaitsPre(r)' <=> WaitsPre(r)
        /\ WaitsPost(r)' <=> WaitsPost(r)
        /\ SendsData(r)' <=> SendsData(r)
        /\ DataOnly(r)' <=> DataOnly(r)
        /\ Submitted(r)' <=> Submitted(r)
    BY <1>1, Stable, Zenon
  <2>3. InHead(r)' <=> InHead(r) BY <1>1 DEF InHead
  <2>4. /\ Waiting(r)' <=> Waiting(r)
        /\ \A i \in {0, 1} : Queued(i, r)' <=> Queued(i, r)
    BY <1>1, Zenon DEF Waiting, Queued
  <2>5. result'[r] = IF r = x THEN IF error THEN "error" ELSE "ok" ELSE result[r]
    BY <1>1, <2>1, Zenon DEF TypeOK
  <2>6. Ended(r)' <=> (Ended(r) \/ r = x) BY <2>5, Zenon DEF Ended
  <2>7. Place(r)' BY <1>1, <2>1, <2>2, <2>3, <2>4, <2>6 DEF Place
  <2>8. Progress(r)' BY <1>1, <2>1, <2>2, <2>3, <2>4, <2>6, Zenon DEF Progress
  <2>9. Queued(runningIdx, r)' <=> Queued(runningIdx, r) BY <1>1 DEF Queued
  <2>10. Written(r)' /\ Flushed(r)'
    <3>1. CASE r # x BY <1>1, <1>2, <2>1, <2>4, <2>5, <2>9, <3>1, KeepsMedia, Zenon
    <3>2. CASE r = x
      <4>1. ~Waiting(r) /\ result[r] = "none" /\ Submitted(r) /\ DataOnly(r)
        BY <1>1, <2>1, <3>2, Zenon DEF Place, Progress, Ended
      <4>2. kind[r].fua => flags = {} \/ "FUA" \in flags BY <2>1, <4>1, KindFacts, Zenon
      <4>3. ~Queued(runningIdx, r) BY <2>1, <4>1, Zenon DEF Waiting, TypeOK
      <4>4. Flushed(r)' BY <1>1, <2>1, <2>4, <2>9, <4>1, <4>3, Zenon DEF Flushed
      <4>5. result'[r] = "ok" => ~error BY <2>5, <3>2
      <4>6. UNCHANGED <<flags, kind, before>> BY <1>1
      <4>7. before[r] \subseteq cache' \cup media' BY <1>2, <2>1, Zenon DEF Written
      <4>8. (flags = {} => before[r] \subseteq media') /\ (kind[r].flush => before[r] \subseteq media')
        BY <1>2, <2>1, <4>1, Zenon DEF Written
      <4>9. ~error => r \in cache' \cup media' /\ (flags = {} \/ kind[r].fua => r \in media')
        BY <1>2, <3>2, <4>2, Zenon
      <4>10. Written(r)' BY <4>5, <4>6, <4>7, <4>8, <4>9 DEF Written
      <4> QED BY <4>4, <4>10
    <3> QED BY <3>1, <3>2
  <2> QED BY <2>7, <2>8, <2>10
<1> QED BY <1>3, <1>4, <1>5, <1>6, <1>7 DEF IInv, PlaceInv, SeqInv, MediaInv

LEMMA FlushEndInv ==
  ASSUME IInv, NEW error \in BOOLEAN, FlushEnd(error) PROVE IInv'
<1> USE DEF submission, lists
<1>1. /\ ~locked /\ FlushRq \in device /\ device' = device \ {FlushRq}
      /\ media' = IF error THEN media ELSE media \cup covered
      /\ runningIdx' = 1 - runningIdx /\ walk' = flushQueue[runningIdx]
      /\ walkError' = error /\ walkQueued' = FALSE /\ locked' = TRUE
      /\ UNCHANGED <<submission, lists, sorted, delayed, run, cache, covered>>
  BY Zenon DEF FlushEnd
<1>2. /\ runningIdx \in {0, 1} /\ pendingIdx \in {0, 1} /\ pendingIdx # runningIdx
      /\ ~InHead(FlushRq) /\ flushQueue[runningIdx] # <<>>
  BY <1>1, Zenon DEF IInv, TypeOK, FlushInv, WalkInv
<1>3. runningIdx' \in {0, 1} /\ 1 - runningIdx' = runningIdx /\ pendingIdx = runningIdx'
  BY <1>1, <1>2
<1>4. TypeOK' BY <1>1, <1>2, <1>3, Zenon DEF IInv, TypeOK
<1>5. ListInv' BY <1>1, Zenon DEF IInv, ListInv
<1>6. FlushInv' BY <1>1, <1>2, <1>3, Zenon DEF FlushInv, InHead
<1>7. WalkInv' BY <1>1, <1>2, <1>3, Zenon DEF WalkInv
<1>8. RunInv'
  <2>1. ~walkQueued BY <1>1 DEF IInv, WalkInv
  <2> QED BY <1>1, <1>2, <2>1, Zenon DEF IInv, RunInv
<1>9. ASSUME NEW r \in Requests
      PROVE  Place(r)' /\ Progress(r)' /\ Written(r)' /\ Flushed(r)'
  <2>1. Place(r) /\ Progress(r) /\ Written(r) /\ Flushed(r)
    BY DEF IInv, PlaceInv, SeqInv, MediaInv
  <2>2. InHead(r)' <=> InHead(r) BY <1>1 DEF InHead
  <2>3. r \in device' <=> r \in device BY <1>1, FlushRqIsNew, Zenon
  <2>4. ~(r \in sorted' /\ InHead(r)') /\ ~(r \in sorted' /\ r \in device')
        /\ ~(InHead(r)' /\ r \in device')
    BY <1>1, <2>1, <2>2, <2>3, Zenon DEF Place
  <2>5. Place(r)' /\ Progress(r)' BY <1>1, <2>1, <2>2, <2>3, <2>4, KeepsProgress
  <2>6. Waiting(r)' <=> Waiting(r) BY <1>1 DEF Waiting, Queued
  <2>7. WaitsPre(r)' <=> WaitsPre(r) BY <1>1, Stable, Zenon
  <2>8. WaitsPost(r)' <=> WaitsPost(r) BY <1>1, Stable
  <2>9. media \subseteq media' /\ (~error => covered \subseteq media') BY <1>1
  <2>10. Written(r)' BY <1>1, <2>1, <2>6, <2>7, <2>9, Zenon DEF Written
  <2>11. r \in Range(walk') <=> Queued(runningIdx, r) BY <1>1 DEF Queued
  <2>12. FlushRq \notin device' BY <1>1
  <2>13. Flushed(r)' BY <1>1, <2>1, <2>6, <2>7, <2>8, <2>9, <2>11, <2>12, Zenon DEF Flushed
  <2> QED BY <2>5, <2>10, <2>13
<1> QED BY <1>4, <1>5, <1>6, <1>7, <1>8, <1>9, Zenon DEF IInv, PlaceInv, SeqInv, MediaInv

\* blk_kick_flush(): the flush request goes out exactly when the lists are swapped,
\* for a list that is not empty, and if it does not go out data is under way.
LEMMA MovedLists ==
  ASSUME IInv, NEW r \in Requests, NEW next, NEW error \in BOOLEAN, Moved(r, next, error),
         flushQueue' \in [{0, 1} -> Seq(Requests)], pendingIdx' \in {0, 1},
         runningIdx' = runningIdx, FlushRq \in device' <=> FlushRq \in device,
         ~Queued(runningIdx, r)
  PROVE  /\ FlushInv'
         /\ pendingIdx' # runningIdx => flushQueue'[runningIdx] # <<>>
         /\ ~locked /\ pendingIdx' = runningIdx => flushQueue'[1 - runningIdx] = <<>>
         /\ pendingIdx' = runningIdx /\ flushQueue'[pendingIdx'] # <<>> => dataInFlight' # {}
         /\ pendingIdx # runningIdx => pendingIdx' # runningIdx
<1>1. /\ pendingIdx \in {0, 1} /\ runningIdx \in {0, 1} /\ 1 - runningIdx \in {0, 1}
      /\ pendingIdx # 1 - pendingIdx
  <2>1. pendingIdx \in {0, 1} /\ runningIdx \in {0, 1} BY Zenon DEF IInv, TypeOK
  <2>2. \A i \in {0, 1} : 1 - i \in {0, 1} /\ i # 1 - i BY SMTT(20)
  <2> QED BY <2>1, <2>2, Zenon
<1>2. \A i \in {0, 1} : flushQueue[i] \in Seq(Requests) /\ flushQueue'[i] \in Seq(Requests)
  BY DEF IInv, TypeOK
<1>3. \A i \in {0, 1} : (flushQueue[i] # <<>> <=> \E x \in Requests : Queued(i, x))
  <2> TAKE i \in {0, 1}
  <2>1. Range(flushQueue[i]) \subseteq Requests /\ (flushQueue[i] # <<>> <=> Range(flushQueue[i]) # {})
    BY <1>2, ListElements, Zenon
  <2> QED BY <2>1 DEF Queued
<1>4. \A i \in {0, 1} : (flushQueue'[i] # <<>> <=> \E x \in Requests : Queued(i, x)')
  <2> TAKE i \in {0, 1}
  <2>1. Range(flushQueue'[i]) \subseteq Requests /\ (flushQueue'[i] # <<>> <=> Range(flushQueue'[i]) # {})
    BY <1>2, ListElements, Zenon
  <2> QED BY <2>1 DEF Queued
<1>5. /\ pendingIdx' # pendingIdx => /\ pendingIdx = runningIdx /\ pendingIdx' = 1 - pendingIdx
                                     /\ flushQueue'[pendingIdx] # <<>>
      /\ pendingIdx' = pendingIdx /\ pendingIdx = runningIdx =>
           flushQueue'[pendingIdx] = <<>> \/ dataInFlight' # {}
  BY DEF Moved
<1>6. FlushInv'
  <2>1. InHead(FlushRq)' <=> (InHead(FlushRq) \/ pendingIdx' # pendingIdx)
    BY FlushRqIsNew DEF Moved, Rqs
  <2>2. /\ (InHead(FlushRq) \/ FlushRq \in device) <=> pendingIdx # runningIdx
        /\ ~(InHead(FlushRq) /\ FlushRq \in device)
    BY DEF IInv, FlushInv
  <2>3. CASE pendingIdx' = pendingIdx BY <2>1, <2>2, <2>3 DEF FlushInv
  <2>4. CASE pendingIdx' # pendingIdx BY <1>1, <1>5, <2>1, <2>2, <2>4 DEF FlushInv
  <2> QED BY <2>3, <2>4, Zenon
<1>7. ASSUME pendingIdx' # runningIdx PROVE flushQueue'[runningIdx] # <<>>
  <2>1. CASE pendingIdx' # pendingIdx BY <1>5, <2>1
  <2>2. CASE pendingIdx' = pendingIdx
    <3>1. flushQueue[runningIdx] # <<>> BY <1>7, <2>2 DEF IInv, WalkInv
    <3>2. PICK x \in Requests : Queued(runningIdx, x) BY <1>1, <1>3, <3>1
    <3>3. x # r BY <3>2, Zenon
    <3>4. \A i \in {0, 1}, y \in Requests : y # r => (Queued(i, y)' <=> Queued(i, y)) BY DEF Moved
    <3>5. \A i \in {0, 1} : i = runningIdx => (Queued(i, x)' <=> Queued(i, x)) BY <3>3, <3>4
    <3>6. \A i \in {0, 1} : i = runningIdx => flushQueue'[i] # <<>> BY <1>4, <3>2, <3>5
    <3> QED BY <1>1, <3>6
  <2> QED BY <2>1, <2>2
<1>8. ASSUME ~locked, pendingIdx' = runningIdx PROVE flushQueue'[1 - runningIdx] = <<>>
  <2>1. pendingIdx' = pendingIdx /\ pendingIdx = runningIdx BY <1>1, <1>5, <1>8, Zenon
  <2>2. flushQueue[1 - runningIdx] = <<>> BY <1>8, <2>1 DEF IInv, WalkInv
  <2>3. ASSUME NEW i \in {0, 1}, i = 1 - runningIdx PROVE flushQueue'[i] = <<>>
    <3>1. \A x \in Requests : ~Queued(i, x) BY <1>3, <2>2, <2>3
    <3>2. i # pendingIdx BY <1>1, <2>1, <2>3, Zenon
    <3>3. \A x \in Requests : ~Queued(i, x)' BY <3>1, <3>2 DEF Moved
    <3> QED BY <1>4, <3>3
  <2> QED BY <1>1, <2>3
<1>9. pendingIdx' = runningIdx /\ flushQueue'[pendingIdx'] # <<>> => dataInFlight' # {}
  BY <1>1, <1>5
<1>10. pendingIdx # runningIdx => pendingIdx' # runningIdx BY <1>5, Zenon
<1> QED BY <1>6, <1>7, <1>8, <1>9, <1>10

\* The requests that are not moved stay where they are.
LEMMA MovedOthers ==
  ASSUME IInv, NEW r \in Requests, NEW next, NEW error \in BOOLEAN, Moved(r, next, error),
         NEW x \in Requests, x # r, flags' = flags, kind'[x] = kind[x], seq'[x] = seq[x],
         sorted' = sorted, x \in device' <=> x \in device
  PROVE  /\ Place(x)' /\ Progress(x)'
         /\ result'[x] = result[x] /\ (Waiting(x)' <=> Waiting(x))
         /\ \A i \in {0, 1} : Queued(i, x)' <=> Queued(i, x)
<1>1. Place(x) /\ Progress(x) BY Zenon DEF IInv, PlaceInv, SeqInv
<1>2. /\ WaitsPre(x)' <=> WaitsPre(x)
      /\ WaitsPost(x)' <=> WaitsPost(x)
      /\ SendsData(x)' <=> SendsData(x)
      /\ DataOnly(x)' <=> DataOnly(x)
      /\ Submitted(x)' <=> Submitted(x)
  BY Stable, Zenon
<1>3. \A i \in {0, 1} : Queued(i, x)' <=> Queued(i, x) BY Zenon DEF Moved
<1>4. x \in Rqs /\ x # FlushRq BY FlushRqIsNew, Zenon DEF Rqs
<1>5. InHead(x)' <=> InHead(x) BY <1>4, Zenon DEF Moved
<1>6. x \in dataInFlight' <=> x \in dataInFlight BY Zenon DEF Moved
<1>7. result'[x] = result[x] BY Zenon DEF Moved
<1>8. Waiting(x)' <=> Waiting(x) BY <1>3 DEF Waiting
<1>9. Ended(x)' <=> Ended(x) BY <1>7 DEF Ended
<1>10. Place(x)' BY <1>1, <1>2, <1>3, <1>5, <1>6, <1>8, <1>9, Zenon DEF Place
<1>11. Progress(x)' BY <1>1, <1>2, <1>5, <1>6, <1>8, Zenon DEF Progress
<1> QED BY <1>3, <1>7, <1>8, <1>10, <1>11, Zenon

\* blk_flush_policy() and blk_flush_cur_seq(): the step a request is at, and the
\* one that follows.
LEMMA NextStep ==
  ASSUME TypeOK, NEW r \in Requests, Submitted(r)
  PROVE  /\ WaitsPre(r) =>
              /\ CurSeq(seq[r]) = "PREFLUSH"
              /\ CurSeq(seq[r] \cup {"PREFLUSH"}) = IF kind[r].data THEN "DATA" ELSE "DONE"
         /\ WaitsPost(r) =>
              /\ CurSeq(seq[r]) = "POSTFLUSH" /\ CurSeq(seq[r] \cup {"POSTFLUSH"}) = "DONE"
              /\ kind[r].data
         /\ SendsData(r) =>
              /\ CurSeq(seq[r]) = "DATA" /\ kind[r].data
              /\ CurSeq(seq[r] \cup {"DATA"}) = IF kind[r].fua /\ flags # {} /\ "FUA" \notin flags
                                                THEN "POSTFLUSH" ELSE "DONE"
<1> DEFINE P == Policy(kind[r])
<1>1. kind[r] \in Kinds /\ flags \in Features /\ seq[r] \in SUBSET Steps BY KindFacts, Zenon DEF TypeOK
<1>2. /\ P \subseteq Steps
      /\ "DATA" \in P <=> kind[r].data
      /\ "PREFLUSH" \in P <=> kind[r].flush /\ flags # {}
      /\ "POSTFLUSH" \in P <=> kind[r].fua /\ flags # {} /\ "FUA" \notin flags
      /\ "POSTFLUSH" \in P => "DATA" \in P
  BY <1>1, PolicyFacts, Zenon
<1>3. ASSUME WaitsPre(r)
      PROVE  /\ CurSeq(seq[r]) = "PREFLUSH"
             /\ CurSeq(seq[r] \cup {"PREFLUSH"}) = IF kind[r].data THEN "DATA" ELSE "DONE"
  <2>1. "PREFLUSH" \in P /\ seq[r] = Steps \ P BY <1>3 DEF WaitsPre
  <2> HIDE DEF P
  <2>2. "PREFLUSH" \notin seq[r] BY <2>1
  <2>3. seq[r] \cup {"PREFLUSH"} \in SUBSET Steps BY <1>1 DEF Steps
  <2>4. CASE kind[r].data
    <3>1. "DATA" \notin seq[r] \cup {"PREFLUSH"} BY <1>2, <2>1, <2>4, Zenon
    <3> QED BY <1>1, <2>2, <2>3, <2>4, <3>1, CurSeqFacts, Zenon
  <2>5. CASE ~kind[r].data
    <3>1. seq[r] \cup {"PREFLUSH"} = Steps BY <1>2, <2>1, <2>5, Zenon DEF Steps
    <3> QED BY <1>1, <2>2, <2>3, <2>5, <3>1, CurSeqFacts, Zenon
  <2> QED BY <2>4, <2>5
<1>4. ASSUME WaitsPost(r)
      PROVE  /\ CurSeq(seq[r]) = "POSTFLUSH" /\ CurSeq(seq[r] \cup {"POSTFLUSH"}) = "DONE"
             /\ kind[r].data
  <2>1. "POSTFLUSH" \in P /\ seq[r] = {"PREFLUSH", "DATA"} BY <1>4 DEF WaitsPost
  <2>2. seq[r] \cup {"POSTFLUSH"} = Steps BY <2>1, Zenon DEF Steps
  <2> QED BY <1>1, <1>2, <2>1, <2>2, CurSeqFacts
<1>5. ASSUME SendsData(r)
      PROVE  /\ CurSeq(seq[r]) = "DATA" /\ kind[r].data
             /\ CurSeq(seq[r] \cup {"DATA"}) = IF kind[r].fua /\ flags # {} /\ "FUA" \notin flags
                                               THEN "POSTFLUSH" ELSE "DONE"
  <2>1. "DATA" \in P /\ seq[r] = (Steps \ P) \cup {"PREFLUSH"} BY <1>5 DEF SendsData
  <2> HIDE DEF P
  <2>2. "PREFLUSH" \in seq[r] /\ "DATA" \notin seq[r] BY <2>1
  <2>3. seq[r] \cup {"DATA"} = IF "POSTFLUSH" \in P THEN {"PREFLUSH", "DATA"} ELSE Steps
    BY <1>2, <2>1 DEF Steps
  <2>4. seq[r] \cup {"DATA"} \in SUBSET Steps BY <1>1, Zenon DEF Steps
  <2>5. CASE "POSTFLUSH" \in P
    <3>1. seq[r] \cup {"DATA"} = {"PREFLUSH", "DATA"} BY <2>3, <2>5
    <3>2. CurSeq(seq[r] \cup {"DATA"}) = "POSTFLUSH" BY <2>4, <3>1, CurSeqFacts
    <3>3. CurSeq(seq[r]) = "DATA" BY <1>1, <2>2, CurSeqFacts, Zenon
    <3> QED BY <1>2, <2>1, <2>5, <3>2, <3>3
  <2>6. CASE "POSTFLUSH" \notin P
    <3>1. seq[r] \cup {"DATA"} = Steps BY <2>3, <2>6
    <3>2. CurSeq(seq[r] \cup {"DATA"}) = "DONE" BY <2>4, <3>1, CurSeqFacts, Zenon
    <3>3. CurSeq(seq[r]) = "DATA" BY <1>1, <2>2, CurSeqFacts, Zenon
    <3> QED BY <1>2, <2>1, <2>6, <3>2, <3>3
  <2> QED BY <2>5, <2>6
<1> QED BY <1>3, <1>4, <1>5

\* The moved request is in one place again.
LEMMA MovedPlace ==
  ASSUME IInv, NEW r \in Requests, NEW next, NEW error \in BOOLEAN, Moved(r, next, error),
         next \in Steps \cup {"DONE"}, ~InHead(r), ~Ended(r),
         r \notin sorted', r \notin device', Submitted(r)'
  PROVE  /\ Place(r)'
         /\ Waiting(r)' <=> next \in {"PREFLUSH", "POSTFLUSH"}
         /\ InHead(r)' <=> next = "DATA"
         /\ r \in dataInFlight' <=> next = "DATA"
         /\ result'[r] = IF next = "DONE" THEN IF error THEN "error" ELSE "ok" ELSE "none"
<1>1. r \in Rqs /\ r # FlushRq BY FlushRqIsNew, Zenon DEF Rqs
<1>2. InHead(r)' <=> next = "DATA" BY <1>1, Zenon DEF Moved
<1>3. r \in dataInFlight' <=> next = "DATA" BY Zenon DEF Moved
<1>4. result'[r] = IF next = "DONE" THEN IF error THEN "error" ELSE "ok" ELSE "none"
  BY Zenon DEF Moved, Ended
<1>5. Ended(r)' <=> next = "DONE" BY <1>4 DEF Ended
<1>6. /\ Queued(0, r)' <=> 0 = pendingIdx /\ next \in {"PREFLUSH", "POSTFLUSH"}
      /\ Queued(1, r)' <=> 1 = pendingIdx /\ next \in {"PREFLUSH", "POSTFLUSH"}
  BY Zenon DEF Moved
<1>7. pendingIdx \in {0, 1} BY Zenon DEF IInv, TypeOK
<1>8. /\ Waiting(r)' <=> next \in {"PREFLUSH", "POSTFLUSH"}
      /\ ~(Queued(0, r)' /\ Queued(1, r)')
  BY <1>6, <1>7 DEF Waiting
<1>9. Place(r)' BY <1>2, <1>3, <1>5, <1>8 DEF Place, Steps
<1> QED BY <1>2, <1>3, <1>4, <1>8, <1>9

LEMMA FlushEndNextInv ==
  ASSUME IInv, FlushEndNext PROVE IInv'
<1> USE DEF submission, storage
<1>1. PICK r : r = Head(walk) OBVIOUS
<1> DEFINE s == CompleteSeq(r, {CurSeq(seq[r])}, walkError, runningIdx)
<1>2. /\ locked /\ walk # <<>> /\ SetLists(s) /\ walkQueued' = (walkQueued \/ s.queued)
      /\ walk' = Tail(walk)
      /\ UNCHANGED <<submission, sorted, runningIdx, delayed, run, device, walkError, locked,
                     storage>>
  BY <1>1 DEF FlushEndNext
<1>3. TypeOK /\ ListInv /\ FlushInv /\ PlaceInv /\ SeqInv /\ MediaInv BY DEF IInv
<1>4. PICK w \in {0, 1} : /\ w = 1 - runningIdx /\ walk = flushQueue[w] /\ w # runningIdx
                          /\ runningIdx \in {0, 1}
  <2>1. runningIdx \in {0, 1} BY <1>3, Zenon DEF TypeOK
  <2>2. walk = flushQueue[1 - runningIdx] BY <1>2 DEF IInv, WalkInv
  <2>3. 1 - runningIdx \in {0, 1} /\ 1 - runningIdx # runningIdx BY <2>1
  <2> QED BY <2>1, <2>2, <2>3, Zenon
<1>5. r \in Requests /\ Queued(w, r) /\ walk \in Seq(Requests) /\ walkError \in BOOLEAN
  <2>1. walk \in Seq(Requests) /\ walkError \in BOOLEAN BY <1>3, Zenon DEF TypeOK
  <2>2. Head(walk) \in Range(walk) /\ Range(walk) \subseteq Requests
    BY <1>2, <2>1, ListElements
  <2> QED BY <1>1, <1>4, <2>1, <2>2, Zenon DEF Queued
<1>6. Waiting(r) /\ ~Queued(runningIdx, r)
  <2>1. ~(Queued(0, r) /\ Queued(1, r)) BY <1>3, <1>5 DEF PlaceInv, Place
  <2> QED BY <1>4, <1>5, <2>1, Zenon DEF Waiting
<1>7. /\ Submitted(r) /\ ~InHead(r) /\ ~Ended(r) /\ r \notin sorted /\ r \notin device
      /\ WaitsPre(r) \/ WaitsPost(r)
      /\ ~(WaitsPre(r) /\ WaitsPost(r))
  BY <1>3, <1>5, <1>6, KindFacts, Zenon DEF PlaceInv, Place, SeqInv, Progress
<1>8. PICK step : step = CurSeq(seq[r]) OBVIOUS
<1>9. PICK next : next = IF walkError THEN "DONE" ELSE CurSeq(seq[r] \cup {step}) OBVIOUS
<1>10. /\ WaitsPre(r) => step = "PREFLUSH"
       /\ WaitsPost(r) => step = "POSTFLUSH"
       /\ next = IF walkError \/ WaitsPost(r) \/ ~kind[r].data THEN "DONE" ELSE "DATA"
  BY <1>3, <1>5, <1>7, <1>8, <1>9, NextStep, Zenon
<1>11. {step} \in SUBSET Steps BY <1>7, <1>10 DEF Steps
<1>12. /\ MovesTo(r, next, walkError) /\ Kicks(r, next) /\ next \in Steps \cup {"DONE"}
       /\ seq' = [seq EXCEPT ![r] = @ \cup {step}]
       /\ s.queued = (next = "DATA" \/ pendingIdx' # pendingIdx)
  <2>1. SetLists(CompleteSeq(r, {step}, walkError, runningIdx)) BY <1>2, <1>8
  <2> HIDE DEF s
  <2>2. s = CompleteSeq(r, {step}, walkError, runningIdx) BY <1>8 DEF s
  <2> QED BY <1>3, <1>5, <1>9, <1>11, <2>1, <2>2, CompleteSeqFacts, Zenon
<1> HIDE DEF s
<1>13. /\ Moved(r, next, walkError) /\ ListInv'
       /\ queueHead' \in Seq(Rqs) /\ flushQueue' \in [{0, 1} -> Seq(Requests)]
       /\ pendingIdx' \in {0, 1} /\ dataInFlight' \subseteq Requests /\ old' \in BOOLEAN
       /\ result' \in [Requests -> {"none", "ok", "error"}]
       /\ \A i \in {0, 1} : /\ next \notin {"PREFLUSH", "POSTFLUSH"}
                            /\ flushQueue[i] # <<>> /\ r = Head(flushQueue[i])
                            => flushQueue'[i] = Tail(flushQueue[i])
  BY <1>3, <1>5, <1>7, <1>12, MovedFacts, Zenon
<1>14. walk' = flushQueue'[w]
  BY <1>1, <1>2, <1>4, <1>10, <1>13, Zenon
<1>15. walk' \in Seq(Requests) /\ Range(walk) = Range(walk') \cup {r}
  BY <1>1, <1>2, <1>5, ListTail, Zenon
<1>16. TypeOK'
  <2>1. seq' \in [Requests -> SUBSET Steps] BY <1>3, <1>11, <1>12, Zenon DEF TypeOK
  <2>2. walkQueued' \in BOOLEAN BY <1>2, <1>3, <1>12, Zenon DEF TypeOK
  <2> QED BY <1>2, <1>3, <1>13, <1>15, <2>1, <2>2, Zenon DEF TypeOK
<1>17. /\ FlushInv'
       /\ pendingIdx' # runningIdx => flushQueue'[runningIdx] # <<>>
       /\ pendingIdx' = runningIdx /\ flushQueue'[pendingIdx'] # <<>> => dataInFlight' # {}
       /\ pendingIdx # runningIdx => pendingIdx' # runningIdx
  BY <1>2, <1>5, <1>6, <1>13, MovedLists, Zenon
<1>18. WalkInv'
  <2>1. FlushRq \notin device BY <1>2, Zenon DEF IInv, WalkInv
  <2> QED BY <1>2, <1>4, <1>14, <1>17, <2>1, Zenon DEF WalkInv
<1>19. RunInv'
  <2>1. ~run' /\ ~walkQueued' => queueHead' = <<>>
    <3>1. next # "DATA" /\ pendingIdx' = pendingIdx => queueHead' = queueHead
      BY <1>13, Zenon DEF Moved
    <3> QED BY <1>2, <1>12, <3>1, Zenon DEF IInv, RunInv
  <2>2. ~run' /\ ~delayed' => sorted' = {} BY <1>2, Zenon DEF IInv, RunInv
  <2> QED BY <1>2, <1>17, <2>1, <2>2, Zenon DEF RunInv
<1>20. ASSUME NEW x \in Requests, x # r
       PROVE  Place(x)' /\ Progress(x)' /\ Written(x)' /\ Flushed(x)'
  <2>1. seq'[x] = seq[x] BY <1>3, <1>12, <1>20 DEF TypeOK
  <2>2. /\ Place(x)' /\ Progress(x)'
        /\ result'[x] = result[x] /\ (Waiting(x)' <=> Waiting(x))
        /\ \A i \in {0, 1} : Queued(i, x)' <=> Queued(i, x)
    BY <1>2, <1>5, <1>13, <1>20, <2>1, MovedOthers, Zenon
  <2>3. Queued(runningIdx, x)' <=> Queued(runningIdx, x)
    <3>1. \A i \in {0, 1} : i = runningIdx => (Queued(runningIdx, x)' <=> Queued(runningIdx, x))
      BY <1>2, <2>2, Zenon DEF Queued
    <3> QED BY <1>4, <3>1
  <2>4. Written(x) /\ Flushed(x) BY <1>3 DEF MediaInv
  <2>5. Written(x)' /\ Flushed(x)'
    BY <1>2, <1>15, <2>1, <2>2, <2>3, <2>4, KeepsMedia, Zenon
  <2> QED BY <2>2, <2>5, Zenon
<1>21. Place(r)' /\ Progress(r)' /\ Written(r)' /\ Flushed(r)'
  <2>1. Submitted(r)' BY <1>2, <1>7 DEF Submitted
  <2>2. /\ Place(r)'
        /\ Waiting(r)' <=> next \in {"PREFLUSH", "POSTFLUSH"}
        /\ InHead(r)' <=> next = "DATA"
        /\ r \in dataInFlight' <=> next = "DATA"
        /\ result'[r] = IF next = "DONE" THEN IF walkError THEN "error" ELSE "ok" ELSE "none"
    BY <1>2, <1>5, <1>7, <1>12, <1>13, <2>1, MovedPlace, Zenon
  <2>3. ~Waiting(r)' BY <1>10, <2>2, Zenon
  <2>4. next = "DATA" => SendsData(r)'
    <3>1. ASSUME next = "DATA" PROVE SendsData(r)'
      <4>1. WaitsPre(r) /\ step = "PREFLUSH" /\ kind[r].data BY <1>7, <1>10, <3>1
      <4>2. seq'[r] = seq[r] \cup {"PREFLUSH"} BY <1>3, <1>5, <1>12, <4>1, Zenon DEF TypeOK
      <4>3. Policy(kind[r])' = Policy(kind[r]) BY <1>2 DEF Policy
      <4>4. "DATA" \in Policy(kind[r]) BY <1>3, <1>5, <1>7, <4>1, KindFacts, PolicyFacts, Zenon DEF TypeOK
      <4> QED BY <4>1, <4>2, <4>3, <4>4, Zenon DEF SendsData, WaitsPre
    <3> QED BY <3>1
  <2>5. Progress(r)' BY <1>2, <1>7, <2>1, <2>2, <2>3, <2>4, Zenon DEF Progress
  <2>6. Written(r) /\ Flushed(r) /\ result[r] = "none" BY <1>3, <1>5, <1>7 DEF MediaInv, Ended
  <2>7. ~walkError => /\ WaitsPost(r) => r \in media
                      /\ WaitsPre(r) => before[r] \subseteq media
    BY <1>2, <1>15, <2>6, Zenon DEF Flushed
  <2>8. Written(r)'
    <3>1. kind[r].data \/ ~kind[r].fua BY <1>3, <1>5, <1>7, KindFacts, KindType, Zenon DEF TypeOK
    <3>2. result'[r] = "ok" => ~walkError /\ (WaitsPost(r) \/ ~kind[r].data)
      BY <1>10, <2>2, Zenon
    <3>3. result'[r] = "ok" /\ (kind[r].data \/ kind[r].fua) => r \in media
      BY <2>7, <3>1, <3>2, Zenon
    <3>4. result'[r] # "error" => ~walkError BY <1>10, <2>2
    <3>5. kind[r].flush /\ result'[r] # "error" => before[r] \subseteq media
      BY <1>7, <2>6, <2>7, <3>4, Zenon DEF Written
    <3> QED BY <1>2, <2>6, <3>3, <3>5, Zenon DEF Written
  <2>9. Flushed(r)'
    <3>1. ~Queued(runningIdx, r)'
      BY <1>2, <1>4, <2>3, Zenon DEF Waiting, Queued
    <3>2. r \notin Range(walk')
      BY <1>4, <1>14, <2>3 DEF Waiting, Queued
    <3> QED BY <2>3, <3>1, <3>2, Zenon DEF Flushed
  <2> QED BY <2>2, <2>5, <2>8, <2>9, Zenon
<1>22. PlaceInv' /\ SeqInv' /\ MediaInv' BY <1>20, <1>21, Zenon DEF PlaceInv, SeqInv, MediaInv
<1> QED BY <1>13, <1>16, <1>17, <1>18, <1>19, <1>22, Zenon DEF IInv

LEMMA EndDataInv ==
  ASSUME IInv, NEW r \in Requests, NEW error \in BOOLEAN, EndData(r, error) PROVE IInv'
<1> USE DEF submission, walking
<1> DEFINE s == CompleteSeq(r, {"DATA"}, error, runningIdx)
<1>1. /\ ~locked /\ r \in device /\ r \in dataInFlight /\ device' = device \ {r}
      /\ SetLists(s) /\ run' = (run \/ s.queued)
      /\ UNCHANGED <<submission, sorted, runningIdx, delayed, walking>>
  BY DEF EndData
<1>2. /\ cache \subseteq cache' /\ media \subseteq media' /\ covered' = covered
      /\ cache' \subseteq Requests /\ media' \subseteq Requests
      /\ ~error => /\ r \in cache' \cup media'
                   /\ flags = {} \/ ("FUA" \in flags /\ kind[r].fua) => r \in media'
                   /\ flags # {} /\ "FUA" \notin flags => r \in cache'
  BY Zenon DEF EndData, Stored, storage, IInv, TypeOK
<1>3. TypeOK /\ ListInv /\ FlushInv /\ PlaceInv /\ SeqInv /\ MediaInv BY DEF IInv
<1>4. /\ Submitted(r) /\ ~InHead(r) /\ ~Ended(r) /\ r \notin sorted /\ ~Waiting(r) /\ SendsData(r)
  BY <1>1, <1>3, Zenon DEF PlaceInv, Place, SeqInv, Progress
<1>5. ~Queued(runningIdx, r) /\ runningIdx \in {0, 1} BY <1>3, <1>4, Zenon DEF Waiting, TypeOK
<1>6. PICK next : next = IF error THEN "DONE" ELSE CurSeq(seq[r] \cup {"DATA"}) BY Zenon
<1>7. /\ next = IF ~error /\ kind[r].fua /\ flags # {} /\ "FUA" \notin flags
                THEN "POSTFLUSH" ELSE "DONE"
      /\ kind[r].data
  BY <1>3, <1>4, <1>6, NextStep, Zenon
<1>8. {"DATA"} \in SUBSET Steps BY DEF Steps
<1>9. /\ MovesTo(r, next, error) /\ Kicks(r, next) /\ next \in Steps \cup {"DONE"}
      /\ seq' = [seq EXCEPT ![r] = @ \cup {"DATA"}]
      /\ s.queued = (next = "DATA" \/ pendingIdx' # pendingIdx)
  BY <1>1, <1>3, <1>6, <1>8, CompleteSeqFacts, Zenon
<1> HIDE DEF s
<1>10. /\ Moved(r, next, error) /\ ListInv'
       /\ queueHead' \in Seq(Rqs) /\ flushQueue' \in [{0, 1} -> Seq(Requests)]
       /\ pendingIdx' \in {0, 1} /\ dataInFlight' \subseteq Requests /\ old' \in BOOLEAN
       /\ result' \in [Requests -> {"none", "ok", "error"}]
  BY <1>3, <1>4, <1>9, MovedFacts, Zenon
<1>11. FlushRq \in device' <=> FlushRq \in device BY <1>1, FlushRqIsNew
<1>12. TypeOK'
  <2>1. seq' \in [Requests -> SUBSET Steps] BY <1>3, <1>8, <1>9, Zenon DEF TypeOK
  <2>2. run' \in BOOLEAN BY <1>1, <1>3, <1>9, Zenon DEF TypeOK
  <2> QED BY <1>1, <1>2, <1>3, <1>10, <2>1, <2>2, Zenon DEF TypeOK
<1>13. /\ FlushInv'
       /\ pendingIdx' # runningIdx => flushQueue'[runningIdx] # <<>>
       /\ ~locked /\ pendingIdx' = runningIdx => flushQueue'[1 - runningIdx] = <<>>
       /\ pendingIdx' = runningIdx /\ flushQueue'[pendingIdx'] # <<>> => dataInFlight' # {}
       /\ pendingIdx # runningIdx => pendingIdx' # runningIdx
  BY <1>1, <1>5, <1>10, <1>11, MovedLists, Zenon
<1>14. WalkInv' BY <1>1, <1>13, Zenon DEF IInv, WalkInv
<1>15. RunInv'
  <2>1. ~run' /\ ~walkQueued' => queueHead' = <<>>
    <3>1. next # "DATA" /\ pendingIdx' = pendingIdx => queueHead' = queueHead
      BY <1>10 DEF Moved
    <3> QED BY <1>1, <1>9, <3>1, Zenon DEF IInv, RunInv
  <2>2. ~run' /\ ~delayed' => sorted' = {} BY <1>1, Zenon DEF IInv, RunInv
  <2>3. delayed' => locked' \/ pendingIdx' # runningIdx' BY <1>1, <1>13, Zenon DEF IInv, RunInv
  <2> QED BY <1>1, <1>13, <2>1, <2>2, <2>3, Zenon DEF RunInv
<1>16. ASSUME NEW x \in Requests, x # r
       PROVE  Place(x)' /\ Progress(x)' /\ Written(x)' /\ Flushed(x)'
  <2>1. seq'[x] = seq[x] BY <1>3, <1>9, <1>16, Zenon DEF TypeOK
  <2>2. /\ Place(x)' /\ Progress(x)'
        /\ result'[x] = result[x] /\ (Waiting(x)' <=> Waiting(x))
        /\ \A i \in {0, 1} : Queued(i, x)' <=> Queued(i, x)
    BY <1>1, <1>10, <1>16, <2>1, MovedOthers, Zenon
  <2>3. Queued(runningIdx, x)' <=> Queued(runningIdx, x)
    <3>1. \A i \in {0, 1} : i = runningIdx => (Queued(runningIdx, x)' <=> Queued(runningIdx, x))
      BY <1>1, <2>2, Zenon DEF Queued
    <3> QED BY <1>5, <3>1
  <2>4. Written(x) /\ Flushed(x) BY <1>3 DEF MediaInv
  <2>5. Written(x)' /\ Flushed(x)'
    BY <1>1, <1>2, <1>11, <2>1, <2>2, <2>3, <2>4, KeepsMedia, Zenon
  <2> QED BY <2>2, <2>5, Zenon
<1>17. Place(r)' /\ Progress(r)' /\ Written(r)' /\ Flushed(r)'
  <2>1. Submitted(r)' BY <1>1, <1>4, Zenon DEF Submitted
  <2>2. /\ Place(r)'
        /\ Waiting(r)' <=> next \in {"PREFLUSH", "POSTFLUSH"}
        /\ InHead(r)' <=> next = "DATA"
        /\ r \in dataInFlight' <=> next = "DATA"
        /\ result'[r] = IF next = "DONE" THEN IF error THEN "error" ELSE "ok" ELSE "none"
    BY <1>1, <1>4, <1>9, <1>10, <2>1, MovedPlace
  <2>3. next = "POSTFLUSH" => WaitsPost(r)' /\ ~WaitsPre(r)'
    <3>1. ASSUME next = "POSTFLUSH" PROVE WaitsPost(r)'
      <4>1. Policy(kind[r])' = Policy(kind[r]) BY <1>1 DEF Policy
      <4>2. /\ Policy(kind[r]) \subseteq Steps /\ "POSTFLUSH" \in Policy(kind[r])
            /\ "DATA" \in Policy(kind[r])
        BY <1>3, <1>4, <1>7, <3>1, KindFacts, PolicyFacts, Zenon DEF TypeOK
      <4>3. seq[r] = {"PREFLUSH"}
        BY <1>4, <4>2, Zenon DEF SendsData, Steps
      <4>4. seq'[r] = {"PREFLUSH", "DATA"} BY <1>3, <1>9, <4>3, Zenon DEF TypeOK
      <4> QED BY <4>1, <4>2, <4>4, Zenon DEF WaitsPost
    <3>2. WaitsPost(r)' => ~WaitsPre(r)' BY Zenon DEF WaitsPost, WaitsPre
    <3> QED BY <3>1, <3>2, Zenon
  <2>4. Progress(r)' BY <1>1, <1>4, <1>7, <2>1, <2>2, <2>3, Zenon DEF Progress
  <2>5. Written(r) /\ Flushed(r) /\ result[r] = "none" BY <1>3, <1>4, Zenon DEF MediaInv, Ended
  <2>6. Written(r)'
    <3>1. UNCHANGED <<flags, kind, before>> BY <1>1, Zenon
    <3>2. result'[r] = "ok" => ~error /\ (kind[r].fua => flags = {} \/ "FUA" \in flags)
      BY <1>7, <2>2, Zenon
    <3>3. result'[r] = "ok" => r \in cache' \cup media' BY <1>2, <3>2, Zenon
    <3>4. result'[r] = "ok" /\ (flags = {} \/ kind[r].fua) => r \in media' BY <1>2, <3>2
    <3>5. kind[r].flush => before[r] \subseteq media' BY <1>2, <1>4, <2>5, Zenon DEF Written
    <3>6. before[r] \subseteq cache' \cup media' /\ (flags = {} => before[r] \subseteq media')
      BY <1>2, <2>5, Zenon DEF Written
    <3> QED BY <3>1, <3>3, <3>4, <3>5, <3>6, Zenon DEF Written
  <2>7. Flushed(r)'
    <3>1. Waiting(r)' => r \in cache' /\ ~WaitsPre(r)'
      BY <1>2, <1>7, <2>2, <2>3
    <3>2. FlushRq \in device' => ~Queued(runningIdx, r)'
      <4>1. ASSUME FlushRq \in device' PROVE pendingIdx # runningIdx
        BY <1>11, <4>1 DEF IInv, FlushInv
      <4>2. \A i \in {0, 1} : i = runningIdx /\ i # pendingIdx => ~Queued(runningIdx, r)'
        BY <1>1, <1>10, Zenon DEF Moved, Queued
      <4> QED BY <1>5, <4>1, <4>2
    <3>3. ~locked' BY <1>1
    <3> QED BY <3>1, <3>2, <3>3, Zenon DEF Flushed
  <2> QED BY <2>2, <2>4, <2>6, <2>7, Zenon
<1>18. PlaceInv' /\ SeqInv' /\ MediaInv' BY <1>16, <1>17 DEF PlaceInv, SeqInv, MediaInv
<1> QED BY <1>10, <1>12, <1>13, <1>14, <1>15, <1>18, Zenon DEF IInv

\* What is the same for every way a submission can go: the request is new, and the
\* writes completed before it are in the cache or on the media.
LEMMA SubmitFacts ==
  ASSUME IInv, NEW r \in Requests, NEW k \in Kinds, Submit(r, k)
  PROVE  /\ r \notin sorted /\ ~InHead(r) /\ r \notin device /\ ~Waiting(r) /\ ~Ended(r)
         /\ r \notin dataInFlight /\ seq[r] = {} /\ ~locked
         /\ kind' \in [Requests -> Kinds \cup {NoKind}] /\ before' \in [Requests -> SUBSET Requests]
         /\ kind'[r] = k /\ k # NoKind
         /\ \A x \in Requests : x # r => kind'[x] = kind[x] /\ before'[x] = before[x]
         /\ before'[r] \subseteq cache \cup media /\ (flags = {} => before'[r] \subseteq media)
         /\ UNCHANGED <<flags, queueable, runningIdx, delayed, device, walking, storage>>
<1> USE DEF walking, storage
<1>1. /\ ~locked /\ ~Submitted(r) /\ kind' = [kind EXCEPT ![r] = k]
      /\ before' = [before EXCEPT ![r] = {w \in Requests : result[w] = "ok" /\ kind[w].data}]
      /\ UNCHANGED <<flags, queueable, runningIdx, delayed, device, walking, storage>>
  BY DEF Submit
<1>2. Place(r) /\ Progress(r) /\ TypeOK BY DEF IInv, PlaceInv, SeqInv
<1>3. /\ r \notin sorted /\ ~InHead(r) /\ r \notin device /\ ~Waiting(r) /\ ~Ended(r)
      /\ r \notin dataInFlight /\ seq[r] = {}
  BY <1>1, <1>2, Zenon DEF Place, Progress
<1>4. /\ kind' \in [Requests -> Kinds \cup {NoKind}] /\ before' \in [Requests -> SUBSET Requests]
      /\ kind'[r] = k /\ before'[r] = {w \in Requests : result[w] = "ok" /\ kind[w].data}
      /\ \A x \in Requests : x # r => kind'[x] = kind[x] /\ before'[x] = before[x]
  BY <1>1, <1>2, Zenon DEF TypeOK
<1>5. k # NoKind BY KindType DEF NoKind
<1>6. \A w \in Requests : Written(w) BY DEF IInv, MediaInv
<1>7. before'[r] \subseteq cache \cup media /\ (flags = {} => before'[r] \subseteq media)
  BY <1>4, <1>6, Zenon DEF Written
<1> QED BY <1>1, <1>3, <1>4, <1>5, <1>7, Zenon

\* The media, for every way a submission can go.
LEMMA SubmitMedia ==
  ASSUME IInv, NEW r \in Requests, NEW k \in Kinds, Submit(r, k),
         \A x \in Requests : x # r => /\ seq'[x] = seq[x] /\ result'[x] = result[x]
                                      /\ Waiting(x)' <=> Waiting(x)
                                      /\ Queued(runningIdx, x)' => Queued(runningIdx, x),
         result'[r] = "ok" => ~k.data /\ ~k.fua,
         k.flush => flags = {} \/ (Waiting(r)' /\ WaitsPre(r)'),
         Waiting(r)' => ~WaitsPost(r)', FlushRq \in device => ~Queued(runningIdx, r)'
  PROVE  MediaInv'
<1> USE DEF walking, storage
<1> SUFFICES ASSUME NEW x \in Requests PROVE Written(x)' /\ Flushed(x)' BY Zenon DEF MediaInv
<1>1. Written(x) /\ Flushed(x) BY Zenon DEF IInv, MediaInv
<1>2. /\ ~locked /\ kind'[r] = k
      /\ \A y \in Requests : y # r => kind'[y] = kind[y] /\ before'[y] = before[y]
      /\ before'[r] \subseteq cache \cup media /\ (flags = {} => before'[r] \subseteq media)
      /\ UNCHANGED <<flags, queueable, runningIdx, delayed, device, walking, storage>>
  BY SubmitFacts, Zenon
<1>3. CASE x # r BY <1>1, <1>2, <1>3, KeepsMedia, Zenon
<1>4. CASE x = r
  <2>1. Written(r)' BY <1>2, Zenon DEF Written
  <2>2. Flushed(r)' BY <1>2, Zenon DEF Flushed
  <2> QED BY <1>4, <2>1, <2>2, Zenon
<1> QED BY <1>3, <1>4, Zenon

LEMMA SubmitPlainInv ==
  ASSUME IInv, NEW r \in Requests, NEW k \in Kinds, Submit(r, k),
         UNCHANGED <<flushQueue, pendingIdx, dataInFlight, old, seq>>,
         \/ /\ Policy(k) = {} /\ result' = [result EXCEPT ![r] = "ok"]
            /\ UNCHANGED <<queueHead, sorted, run>>
         \/ /\ Policy(k) # {} /\ (flags = {} \/ (~k.flush /\ ~k.fua))
            /\ sorted' = sorted \cup {r} /\ run' = TRUE /\ UNCHANGED <<queueHead, result>>
         \/ /\ Policy(k) = {"DATA"} /\ ~(flags = {} \/ (~k.flush /\ ~k.fua))
            /\ queueHead' = Append(queueHead, r) /\ run' = TRUE /\ UNCHANGED <<sorted, result>>
  PROVE  IInv'
<1> USE DEF walking, storage
<1>1. /\ r \notin sorted /\ ~InHead(r) /\ r \notin device /\ ~Waiting(r) /\ ~Ended(r)
      /\ r \notin dataInFlight /\ seq[r] = {} /\ ~locked
      /\ kind' \in [Requests -> Kinds \cup {NoKind}] /\ before' \in [Requests -> SUBSET Requests]
      /\ kind'[r] = k /\ k # NoKind
      /\ \A x \in Requests : x # r => kind'[x] = kind[x] /\ before'[x] = before[x]
      /\ UNCHANGED <<flags, queueable, runningIdx, delayed, device, walking, storage>>
  BY SubmitFacts, Zenon
<1>2. TypeOK /\ ListInv /\ PlaceInv /\ FlushInv /\ WalkInv /\ SeqInv /\ RunInv BY DEF IInv
<1>3. /\ Policy(k) \subseteq Steps
      /\ "DATA" \in Policy(k) <=> k.data
      /\ "PREFLUSH" \in Policy(k) <=> k.flush /\ flags # {}
      /\ "POSTFLUSH" \in Policy(k) <=> k.fua /\ flags # {} /\ "FUA" \notin flags
      /\ k.data \/ (k.flush /\ ~k.fua)
  BY <1>2, PolicyFacts, Zenon DEF TypeOK
<1> DEFINE ends == Policy(k) = {}
<1>4. \/ ends /\ k.flush /\ flags = {} /\ ~k.data /\ ~k.fua
      \/ ~ends /\ Policy(k) = {"DATA"} /\ (k.flush => flags = {})
  <2>1. CASE Policy(k) = {} BY <1>3, <2>1, Zenon
  <2>2. CASE Policy(k) # {} /\ (flags = {} \/ (~k.flush /\ ~k.fua))
    <3>1. k.data /\ "PREFLUSH" \notin Policy(k) /\ "POSTFLUSH" \notin Policy(k)
      BY <1>3, <2>2, Zenon DEF Steps
    <3>2. Policy(k) = {"DATA"} BY <1>3, <3>1, Zenon DEF Steps
    <3> QED BY <1>3, <2>2, <3>1, <3>2, Zenon
  <2>3. CASE Policy(k) = {"DATA"} /\ ~(flags = {} \/ (~k.flush /\ ~k.fua)) BY <1>3, <2>3
  <2> QED BY <2>1, <2>2, <2>3, Zenon
<1>5. /\ sorted' \subseteq Requests
      /\ queueHead' \in Seq(Rqs) /\ Distinct(queueHead')
      /\ \A x : x # r => (x \in Range(queueHead') <=> x \in Range(queueHead))
      /\ \A x \in Requests : x # r => (x \in sorted' <=> x \in sorted) /\ result'[x] = result[x]
      /\ result'[r] = IF ends THEN "ok" ELSE "none"
      /\ ~(r \in sorted' /\ r \in Range(queueHead'))
      /\ ~ends <=> (r \in sorted' \/ r \in Range(queueHead'))
      /\ run' \in BOOLEAN /\ result' \in [Requests -> {"none", "ok", "error"}]
      /\ ends => UNCHANGED <<queueHead, sorted, run>>
      /\ ~ends => run' = TRUE
  <2>1. queueHead \in Seq(Rqs) /\ Distinct(queueHead) /\ r \in Rqs /\ r \notin Range(queueHead)
    BY <1>1, <1>2, Zenon DEF TypeOK, ListInv, InHead, Rqs
  <2>2. /\ Append(queueHead, r) \in Seq(Rqs) /\ Distinct(Append(queueHead, r))
        /\ Range(Append(queueHead, r)) = Range(queueHead) \cup {r}
    BY <2>1, ListAppend
  <2>3. result[r] = "none" /\ result \in [Requests -> {"none", "ok", "error"}] /\ run \in BOOLEAN
        /\ sorted \subseteq Requests
    BY <1>1, <1>2, Zenon DEF Ended, TypeOK
  <2>4. CASE Policy(k) = {} /\ result' = [result EXCEPT ![r] = "ok"]
             /\ UNCHANGED <<queueHead, sorted, run>>
    BY <1>1, <2>1, <2>3, <2>4, Zenon
  <2>5. CASE ~ends /\ sorted' = sorted \cup {r} /\ run' = TRUE /\ UNCHANGED <<queueHead, result>>
    BY <1>1, <2>1, <2>3, <2>5, Zenon
  <2>6. CASE ~ends /\ queueHead' = Append(queueHead, r) /\ run' = TRUE
             /\ UNCHANGED <<sorted, result>>
    BY <1>1, <2>1, <2>2, <2>3, <2>6, Zenon
  <2> QED BY <2>4, <2>5, <2>6, Zenon
<1>6. TypeOK' BY <1>1, <1>2, <1>5, Zenon DEF TypeOK
<1>7. ListInv' BY <1>2, <1>5, Zenon DEF ListInv
<1>8. FlushInv'
  <2>1. FlushRq # r BY FlushRqIsNew
  <2> QED BY <1>1, <1>2, <1>5, <2>1, Zenon DEF FlushInv, InHead
<1>9. WalkInv' BY <1>1, <1>2, Zenon DEF WalkInv
<1>10. RunInv'
  <2>1. RunInv /\ UNCHANGED <<walkQueued, delayed, locked, pendingIdx, runningIdx, flushQueue, walk,
                              dataInFlight>>
    BY <1>1, <1>2, Zenon
  <2>2. ends => UNCHANGED <<queueHead, sorted, run>> BY <1>5, Zenon
  <2>3. ~ends => run' = TRUE BY <1>5
  <2> HIDE DEF ends
  <2> QED BY <2>1, <2>2, <2>3, Zenon DEF RunInv
<1>11. \A x \in Requests : /\ Waiting(x)' <=> Waiting(x)
                           /\ \A i \in {0, 1} : Queued(i, x)' <=> Queued(i, x)
                           /\ Queued(runningIdx, x)' <=> Queued(runningIdx, x)
  BY <1>1, Zenon DEF Waiting, Queued
<1>12. ASSUME NEW x \in Requests PROVE Place(x)' /\ Progress(x)'
  <2>1. Place(x) /\ Progress(x) BY <1>2, Zenon DEF PlaceInv, SeqInv
  <2>2. CASE x # r
    <3>1. /\ WaitsPre(x)' <=> WaitsPre(x)
          /\ WaitsPost(x)' <=> WaitsPost(x)
          /\ SendsData(x)' <=> SendsData(x)
          /\ DataOnly(x)' <=> DataOnly(x)
          /\ Submitted(x)' <=> Submitted(x)
      BY <1>1, <2>2, Stable, Zenon
    <3>2. /\ InHead(x)' <=> InHead(x)
          /\ Ended(x)' <=> Ended(x)
          /\ x \in sorted' <=> x \in sorted
      BY <1>5, <2>2 DEF InHead, Ended
    <3>3. Place(x)' BY <1>1, <1>11, <2>1, <3>1, <3>2, Zenon DEF Place
    <3>4. Progress(x)' BY <1>1, <1>11, <2>1, <3>1, <3>2, Zenon DEF Progress
    <3> QED BY <3>3, <3>4
  <2>3. CASE x = r
    <3>1. /\ Submitted(r)' /\ ~Waiting(r)' /\ r \notin device' /\ r \notin dataInFlight'
          /\ ~(Queued(0, r)' /\ Queued(1, r)')
      BY <1>1, <1>11, Zenon DEF Submitted, Waiting
    <3>2. /\ Ended(r)' <=> ends
          /\ ~(r \in sorted' /\ InHead(r)')
          /\ ~ends <=> (r \in sorted' \/ InHead(r)')
      BY <1>5, Zenon DEF Ended, InHead
    <3>3. ~ends => DataOnly(r)'
      <4>1. Policy(kind[r])' = Policy(k) BY <1>1, Zenon DEF Policy
      <4> QED BY <1>4, <4>1 DEF DataOnly
    <3>4. Place(r)' BY <3>1, <3>2 DEF Place
    <3>5. Progress(r)' BY <3>1, <3>2, <3>3, Zenon DEF Progress
    <3> QED BY <2>3, <3>4, <3>5
  <2> QED BY <2>2, <2>3, Zenon
<1>13. MediaInv'
  <2>1. \A x \in Requests : x # r => /\ seq'[x] = seq[x] /\ result'[x] = result[x]
                                     /\ Waiting(x)' <=> Waiting(x)
                                     /\ Queued(runningIdx, x)' => Queued(runningIdx, x)
    BY <1>5, <1>11, Zenon
  <2>2. result'[r] = "ok" => ~k.data /\ ~k.fua BY <1>4, <1>5, Zenon
  <2>3. k.flush => flags = {} BY <1>4
  <2>4. ~Waiting(r)' /\ ~Queued(runningIdx, r)' BY <1>1, <1>2, <1>11, Zenon DEF Waiting, TypeOK
  <2> QED BY <2>1, <2>2, <2>3, <2>4, SubmitMedia, Zenon
<1> QED BY <1>6, <1>7, <1>8, <1>9, <1>10, <1>12, <1>13 DEF IInv, PlaceInv, SeqInv

LEMMA SubmitFlushInv ==
  ASSUME IInv, NEW r \in Requests, NEW k \in Kinds, Submit(r, k),
         Policy(k) \cap {"PREFLUSH", "POSTFLUSH"} # {},
         SetLists(CompleteSeq(r, Steps \ Policy(k), FALSE, runningIdx)),
         run' = TRUE, UNCHANGED sorted
  PROVE  IInv'
<1> USE DEF walking, storage
<1>1. /\ r \notin sorted /\ ~InHead(r) /\ r \notin device /\ ~Waiting(r) /\ ~Ended(r)
      /\ r \notin dataInFlight /\ seq[r] = {} /\ ~locked
      /\ kind' \in [Requests -> Kinds \cup {NoKind}] /\ before' \in [Requests -> SUBSET Requests]
      /\ kind'[r] = k /\ k # NoKind
      /\ \A x \in Requests : x # r => kind'[x] = kind[x] /\ before'[x] = before[x]
      /\ UNCHANGED <<flags, queueable, runningIdx, delayed, device, walking, storage>>
  BY SubmitFacts, Zenon
<1>2. TypeOK /\ ListInv /\ PlaceInv /\ FlushInv /\ WalkInv /\ SeqInv /\ RunInv BY DEF IInv
<1>3. /\ Policy(k) \subseteq Steps
      /\ "PREFLUSH" \in Policy(k) <=> k.flush /\ flags # {}
      /\ "POSTFLUSH" \in Policy(k) => "DATA" \in Policy(k)
  BY <1>2, PolicyFacts, Zenon DEF TypeOK
<1>4. PICK P : P = Policy(k) BY Zenon
<1>5. PICK next : next = IF FALSE THEN "DONE" ELSE CurSeq(seq[r] \cup (Steps \ P)) OBVIOUS
<1>6. Steps \ P \in SUBSET Steps /\ seq[r] \cup (Steps \ P) = Steps \ P BY <1>1, Zenon
<1>7. /\ "PREFLUSH" \in P => next = "PREFLUSH"
      /\ "PREFLUSH" \notin P => next = "DATA" /\ "DATA" \in P
  <2>1. CASE "PREFLUSH" \in P
    <3>1. "PREFLUSH" \notin Steps \ P BY <2>1, Zenon
    <3> QED BY <1>5, <1>6, <2>1, <3>1, CurSeqFacts, Zenon
  <2>2. CASE "PREFLUSH" \notin P
    <3>1. "DATA" \in P BY <1>3, <1>4, <2>2
    <3>2. "PREFLUSH" \in Steps \ P /\ "DATA" \notin Steps \ P BY <2>2, <3>1 DEF Steps
    <3> QED BY <1>5, <1>6, <2>2, <3>1, <3>2, CurSeqFacts, Zenon
  <2> QED BY <2>1, <2>2, Zenon
<1>8. /\ MovesTo(r, next, FALSE) /\ Kicks(r, next) /\ next \in Steps \cup {"DONE"}
      /\ seq' = [seq EXCEPT ![r] = @ \cup (Steps \ P)]
  <2>1. SetLists(CompleteSeq(r, Steps \ P, FALSE, runningIdx)) BY <1>4, Zenon
  <2> QED BY <1>2, <1>5, <1>6, <2>1, CompleteSeqFacts, Zenon
<1>9. /\ Moved(r, next, FALSE) /\ ListInv'
      /\ queueHead' \in Seq(Rqs) /\ flushQueue' \in [{0, 1} -> Seq(Requests)]
      /\ pendingIdx' \in {0, 1} /\ dataInFlight' \subseteq Requests /\ old' \in BOOLEAN
      /\ result' \in [Requests -> {"none", "ok", "error"}]
  BY <1>1, <1>2, <1>8, MovedFacts, Zenon
<1>10. ~Queued(runningIdx, r) /\ runningIdx \in {0, 1} BY <1>1, <1>2, Zenon DEF Waiting, TypeOK
<1>11. /\ FlushInv'
       /\ pendingIdx' # runningIdx => flushQueue'[runningIdx] # <<>>
       /\ ~locked /\ pendingIdx' = runningIdx => flushQueue'[1 - runningIdx] = <<>>
       /\ pendingIdx' = runningIdx /\ flushQueue'[pendingIdx'] # <<>> => dataInFlight' # {}
       /\ pendingIdx # runningIdx => pendingIdx' # runningIdx
  BY <1>1, <1>9, <1>10, MovedLists, Zenon
<1>12. seq' \in [Requests -> SUBSET Steps] /\ seq'[r] = Steps \ P
       /\ \A x \in Requests : x # r => seq'[x] = seq[x]
  BY <1>2, <1>6, <1>8, Zenon DEF TypeOK
<1>13. TypeOK' BY <1>1, <1>2, <1>9, <1>12, Zenon DEF TypeOK
<1>14. WalkInv' BY <1>1, <1>2, <1>11, Zenon DEF WalkInv
<1>15. RunInv'
  <2>1. delayed' => locked' \/ pendingIdx' # runningIdx' BY <1>1, <1>2, <1>11, Zenon DEF RunInv
  <2> QED BY <1>1, <1>11, <2>1, Zenon DEF RunInv
<1>16. ASSUME NEW x \in Requests, x # r
       PROVE  /\ Place(x)' /\ Progress(x)'
              /\ result'[x] = result[x] /\ (Waiting(x)' <=> Waiting(x))
              /\ Queued(runningIdx, x)' => Queued(runningIdx, x)
  <2>1. /\ Place(x)' /\ Progress(x)'
        /\ result'[x] = result[x] /\ (Waiting(x)' <=> Waiting(x))
        /\ \A i \in {0, 1} : Queued(i, x)' <=> Queued(i, x)
    BY <1>1, <1>9, <1>12, <1>16, MovedOthers, Zenon
  <2>2. \A i \in {0, 1} : i = runningIdx => (Queued(runningIdx, x)' <=> Queued(runningIdx, x))
    BY <1>1, <2>1, Zenon DEF Queued
  <2> QED BY <1>10, <2>1, <2>2, Zenon
<1>17. Policy(kind[r])' = P BY <1>1, <1>4, Zenon DEF Policy
<1>18. /\ "PREFLUSH" \in P => WaitsPre(r)' /\ ~WaitsPost(r)'
       /\ "PREFLUSH" \notin P => SendsData(r)'
  <2>1. ASSUME "PREFLUSH" \in P PROVE WaitsPre(r)' /\ ~WaitsPost(r)'
    BY <1>12, <1>17, <2>1, Zenon DEF WaitsPre, WaitsPost
  <2>2. ASSUME "PREFLUSH" \notin P PROVE SendsData(r)'
    <3>1. Steps \ P = (Steps \ P) \cup {"PREFLUSH"} BY <2>2 DEF Steps
    <3>2. P # {"DATA"} BY <1>4
    <3> QED BY <1>7, <1>12, <1>17, <2>2, <3>1, <3>2, Zenon DEF SendsData
  <2> QED BY <2>1, <2>2
<1>19. /\ Place(r)'
       /\ Waiting(r)' <=> next \in {"PREFLUSH", "POSTFLUSH"}
       /\ InHead(r)' <=> next = "DATA"
       /\ r \in dataInFlight' <=> next = "DATA"
       /\ result'[r] = IF next = "DONE" THEN IF FALSE THEN "error" ELSE "ok" ELSE "none"
  <2>1. Submitted(r)' /\ r \notin sorted' /\ r \notin device' BY <1>1, Zenon DEF Submitted
  <2> QED BY <1>1, <1>8, <1>9, <2>1, MovedPlace, Zenon
<1>20. Progress(r)'
  <2>1. Submitted(r)' /\ r \notin sorted' /\ r \notin device' BY <1>1, Zenon DEF Submitted
  <2> QED BY <1>7, <1>18, <1>19, <2>1, Zenon DEF Progress
<1>21. MediaInv'
  <2>1. result'[r] # "ok" BY <1>7, <1>19, Zenon
  <2>2. k.flush => flags = {} \/ (Waiting(r)' /\ WaitsPre(r)')
    BY <1>3, <1>4, <1>7, <1>18, <1>19, Zenon
  <2>3. Waiting(r)' => ~WaitsPost(r)' BY <1>7, <1>18, <1>19, Zenon
  <2>4. FlushRq \in device => ~Queued(runningIdx, r)'
    <3>1. ASSUME FlushRq \in device PROVE pendingIdx # runningIdx
      BY <1>2, <3>1 DEF FlushInv
    <3>2. \A i \in {0, 1} : i = runningIdx /\ i # pendingIdx => ~Queued(runningIdx, r)'
      BY <1>1, <1>9, Zenon DEF Moved, Queued
    <3> QED BY <1>10, <3>1, <3>2, Zenon
  <2> QED BY <1>12, <1>16, <2>1, <2>2, <2>3, <2>4, SubmitMedia, Zenon
<1>22. PlaceInv' /\ SeqInv' BY <1>16, <1>19, <1>20, Zenon DEF PlaceInv, SeqInv
<1> QED BY <1>9, <1>11, <1>13, <1>14, <1>15, <1>21, <1>22, Zenon DEF IInv

LEMMA SubmitInv ==
  ASSUME IInv, NEW r \in Requests, NEW k \in Kinds, Submit(r, k) PROVE IInv'
<1>1. CASE /\ Policy(k) \cap {"PREFLUSH", "POSTFLUSH"} # {}
           /\ SetLists(CompleteSeq(r, Steps \ Policy(k), FALSE, runningIdx))
           /\ run' = TRUE /\ UNCHANGED sorted
  BY <1>1, SubmitFlushInv, Zenon
<1>2. CASE /\ UNCHANGED <<flushQueue, pendingIdx, dataInFlight, old, seq>>
           /\ \/ /\ Policy(k) = {} /\ result' = [result EXCEPT ![r] = "ok"]
                 /\ UNCHANGED <<queueHead, sorted, run>>
              \/ /\ Policy(k) # {} /\ (flags = {} \/ (~k.flush /\ ~k.fua))
                 /\ sorted' = sorted \cup {r} /\ run' = TRUE /\ UNCHANGED <<queueHead, result>>
              \/ /\ Policy(k) = {"DATA"} /\ ~(flags = {} \/ (~k.flush /\ ~k.fua))
                 /\ queueHead' = Append(queueHead, r) /\ run' = TRUE /\ UNCHANGED <<sorted, result>>
  BY <1>2, SubmitPlainInv, Zenon
<1> QED BY <1>1, <1>2, Zenon DEF Submit, lists

LEMMA StutterInv ==
  ASSUME IInv, UNCHANGED vars PROVE IInv'
<1> USE DEF vars, submission, lists, walking, storage
<1>1. TypeOK' BY Zenon DEF IInv, TypeOK
<1>2. ListInv' /\ PlaceInv' /\ FlushInv' /\ SeqInv' /\ MediaInv' BY QuietStep
<1>3. WalkInv' /\ RunInv' BY Zenon DEF IInv, WalkInv, RunInv
<1> QED BY <1>1, <1>2, <1>3 DEF IInv

LEMMA NextInv ==
  ASSUME IInv, [Next]_vars PROVE IInv'
<1>1. CASE \E r \in Requests, k \in Kinds : Submit(r, k) BY <1>1, SubmitInv
<1>2. CASE Age BY <1>2, AgeInv
<1>3. CASE Fetch BY <1>3, FetchInv
<1>4. CASE Hold BY <1>4, HoldInv
<1>5. CASE ElevatorDispatch BY <1>5, ElevatorDispatchInv
<1>6. CASE \E x \in Rqs : Requeue(x) BY <1>6, RequeueInv
<1>7. CASE \E r \in Requests : Complete(r) BY <1>7, EndPlainInv, EndDataInv DEF Complete
<1>8. CASE CompleteFlush BY <1>8, FlushEndInv DEF CompleteFlush
<1>9. CASE FlushEndNext BY <1>9, FlushEndNextInv
<1>10. CASE FlushEndDone BY <1>10, FlushEndDoneInv
<1>11. CASE UNCHANGED vars BY <1>11, StutterInv
<1> QED BY <1>1, <1>2, <1>3, <1>4, <1>5, <1>6, <1>7, <1>8, <1>9, <1>10, <1>11, Zenon
         DEF Next, RunQueue, EndFlush

-----------------------------------------------------------------------------
(* The theorems.                                                           *)

\* The inductive invariant holds always: which lists blk_insert_flush(),
\* blk_flush_complete_seq() and flush_end_io() may have a request on, and what the
\* flush in progress is good for.
THEOREM FlushSafety == Spec => []IInv
<1>1. Init => IInv BY InitInv
<1>2. IInv /\ [Next]_vars => IInv' BY NextInv
<1> QED BY <1>1, <1>2, PTL DEF Spec

\* A FUA write that has completed is on the media, whatever the device supports,
\* whatever other requests do, and whether or not flushes fail.
THEOREM FuaIsDurable == Spec => []FuaDurable
<1>1. IInv => FuaDurable BY Zenon DEF IInv, MediaInv, Written, FuaDurable
<1> QED BY <1>1, FlushSafety, PTL

\* A request with FLUSH neither sends its data nor completes before the writes
\* that had completed when it was submitted are on the media.
THEOREM FlushComesFirst == Spec => []FlushedBefore
<1>1. ASSUME IInv PROVE FlushedBefore
  <2> SUFFICES ASSUME NEW r \in Requests, kind[r].flush, r \in device \/ result[r] = "ok"
               PROVE  before[r] \subseteq media
    BY DEF FlushedBefore
  <2>1. Place(r) /\ Written(r) BY <1>1, Zenon DEF IInv, PlaceInv, MediaInv
  <2>2. ~Waiting(r) /\ result[r] # "error" BY <2>1, Zenon DEF Place, Ended
  <2> QED BY <2>1, <2>2, Zenon DEF Written
<1> QED BY <1>1, FlushSafety, PTL

\* C1 of blk_kick_flush(): one flush at a time, out exactly while the indices differ.
THEOREM OneFlushAtATime == Spec => []OneFlush
<1>1. ASSUME IInv PROVE OneFlush
  <2>1. queueHead \in Seq(Rqs) /\ Distinct(queueHead) BY <1>1 DEF IInv, TypeOK, ListInv
  <2>2. Cardinality({i \in DOMAIN queueHead : queueHead[i] = FlushRq})
          = IF InHead(FlushRq) THEN 1 ELSE 0
    BY <2>1, ListCount DEF InHead
  <2>3. /\ (InHead(FlushRq) \/ FlushRq \in device) <=> pendingIdx # runningIdx
        /\ ~(InHead(FlushRq) /\ FlushRq \in device)
    BY <1>1 DEF IInv, FlushInv
  <2> QED BY <2>2, <2>3 DEF OneFlush
<1> QED BY <1>1, FlushSafety, PTL

\* A request is in one place from its submission on, and the step that comes next
\* fits the place: the BUG_ONs of flush_end_io() and blk_flush_complete_seq() cannot
\* fire.
THEOREM EveryRequestInOnePlace == Spec => []OnePlace
<1>1. ASSUME IInv PROVE OnePlace
  <2> DEFINE count(i, r) == Cardinality({j \in DOMAIN flushQueue[i] : flushQueue[i][j] = r})
             heads(r) == Cardinality({j \in DOMAIN queueHead : queueHead[j] = r})
             places(r) == heads(r) + count(0, r) + count(1, r)
                          + (IF r \in sorted THEN 1 ELSE 0) + (IF r \in device THEN 1 ELSE 0)
                          + (IF result[r] # "none" THEN 1 ELSE 0)
  <2>1. ASSUME NEW r \in Requests
        PROVE  /\ places(r) = (IF Submitted(r) THEN 1 ELSE 0)
               /\ count(0, r) + count(1, r) = 1 => CurSeq(seq[r]) \in {"PREFLUSH", "POSTFLUSH"}
               /\ r \in dataInFlight =>
                     (r \in device \/ \E j \in DOMAIN queueHead : queueHead[j] = r)
                     /\ CurSeq(seq[r]) = "DATA"
    <3>1. Place(r) /\ Progress(r) /\ TypeOK BY <1>1 DEF IInv, PlaceInv, SeqInv
    <3>2. heads(r) = IF InHead(r) THEN 1 ELSE 0
      <4>1. queueHead \in Seq(Rqs) /\ Distinct(queueHead) BY <1>1, Zenon DEF IInv, TypeOK, ListInv
      <4> QED BY <4>1, ListCount, Zenon DEF InHead
    <3>3. ASSUME NEW i \in {0, 1} PROVE count(i, r) = IF Queued(i, r) THEN 1 ELSE 0
      <4>1. flushQueue[i] \in Seq(Requests) /\ Distinct(flushQueue[i])
        BY <1>1, Zenon DEF IInv, TypeOK, ListInv
      <4> QED BY <4>1, ListCount, Zenon DEF Queued
    <3>4. /\ count(0, r) = IF Queued(0, r) THEN 1 ELSE 0
          /\ count(1, r) = IF Queued(1, r) THEN 1 ELSE 0
      BY <3>3, Zenon
    <3> HIDE DEF count, heads
    <3>5. count(0, r) + count(1, r) = IF Waiting(r) THEN 1 ELSE 0
      BY <3>1, <3>4 DEF Place, Waiting
    <3>6. places(r) = (IF Submitted(r) THEN 1 ELSE 0)
      BY <3>1, <3>2, <3>4 DEF Place, Waiting, Ended
    <3>7. Submitted(r) /\ Waiting(r) => CurSeq(seq[r]) \in {"PREFLUSH", "POSTFLUSH"}
      BY <3>1, NextStep, Zenon DEF Progress
    <3>8. Submitted(r) /\ r \in dataInFlight => CurSeq(seq[r]) = "DATA"
      BY <3>1, NextStep, Zenon DEF Progress
    <3>9. r \in dataInFlight => Submitted(r) /\ (InHead(r) \/ r \in device) BY <3>1 DEF Place
    <3>10. InHead(r) => \E j \in DOMAIN queueHead : queueHead[j] = r BY Zenon DEF InHead, Range
    <3>11. Waiting(r) => Submitted(r) BY <3>1, Zenon DEF Place
    <3> HIDE DEF places
    <3>12. count(0, r) + count(1, r) = 1 => CurSeq(seq[r]) \in {"PREFLUSH", "POSTFLUSH"}
      BY <3>5, <3>7, <3>11
    <3>13. r \in dataInFlight => /\ r \in device \/ \E j \in DOMAIN queueHead : queueHead[j] = r
                                 /\ CurSeq(seq[r]) = "DATA"
      BY <3>8, <3>9, <3>10
    <3> QED BY <3>6, <3>12, <3>13
  <2> QED BY <2>1, Zenon DEF OnePlace
<1> QED BY <1>1, FlushSafety, PTL

\* Nothing is left behind when the queue is at rest: what waits for a flush waits
\* for data in flight or for the flush request, and a queue held behind a flush is
\* restarted by flush_end_io().
THEOREM QuietQueueIsEmpty == Spec => []QuietMeansEnded
<1>1. ASSUME IInv PROVE QuietMeansEnded
  <2> SUFFICES ASSUME ~run, ~locked, device = {}, NEW r \in Requests, Submitted(r)
               PROVE  result[r] # "none"
    BY DEF QuietMeansEnded
  <2>1. TypeOK /\ WalkInv /\ RunInv /\ FlushInv /\ Place(r) BY <1>1, Zenon DEF IInv, PlaceInv
  <2>2. walk = <<>> /\ ~walkQueued /\ queueHead = <<>> BY <2>1 DEF WalkInv, RunInv
  <2>3. \A x : ~InHead(x) BY <2>2, ListEmpty DEF InHead
  <2>4. pendingIdx = runningIdx BY <2>1, <2>3, Zenon DEF FlushInv
  <2>5. ~delayed /\ sorted = {} BY <2>1, <2>4 DEF RunInv
  <2>6. dataInFlight = {}
    BY <1>1, <2>3, Zenon DEF IInv, TypeOK, PlaceInv, Place
  <2>7. flushQueue[pendingIdx] = <<>> /\ flushQueue[1 - runningIdx] = <<>>
    BY <2>1, <2>2, <2>4, <2>6, Zenon DEF RunInv, WalkInv
  <2>8. flushQueue[0] = <<>> /\ flushQueue[1] = <<>>
    <3>1. pendingIdx \in {0, 1} BY <2>1, Zenon DEF TypeOK
    <3>2. CASE pendingIdx = 0 BY <2>4, <2>7, <3>2
    <3>3. CASE pendingIdx = 1 BY <2>4, <2>7, <3>3
    <3> QED BY <3>1, <3>2, <3>3, Zenon
  <2>9. ~Waiting(r) BY <2>8, ListEmpty DEF Waiting, Queued
  <2> QED BY <2>1, <2>3, <2>5, <2>9 DEF Place, Ended
<1> QED BY <1>1, FlushSafety, PTL
=============================================================================
