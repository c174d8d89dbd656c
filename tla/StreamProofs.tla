---------------------------- MODULE StreamProofs ----------------------------
(***************************************************************************)
(* Proofs about what the stream crate does for readers: Window, for any    *)
(* readers, files, window and budget, and SingleFlight, for any readers of *)
(* an article and any generations.                                         *)
(*                                                                         *)
(* Window's invariant WInv says of every fetch which segment it is for,    *)
(* what of it has come in and that it asks for budget only once those      *)
(* before it have (Good); it is kept by the operators on windows (Align,   *)
(* Fill, Popped, Replace), whatever step uses them.  The budget is counted *)
(* apart: every piece that is held after a step was held before it, or is  *)
(* one that a fetch handed on and has no more (Handed), save for those it  *)
(* takes of what is free (Taken).                                          *)
(***************************************************************************)
EXTENDS Window, SingleFlight, FiniteSetTheorems, TLAPS

----------------------------------------------------------------------------
(* What a window is.                                                       *)

FetchStages == {"chained", "queued", "running", "done", "failed"}

Fetches ==
    [seg : Nat, stage : FetchStages, permit : BOOLEAN, urgent : BOOLEAN,
     sent : Nat, data : Seq(Nat), read : Nat]

Windows == [head : Nat \ {0}, next : Nat, pending : Seq(Fetches)]

\* The beginning of a segment of r's file.
InPart(r, data) == Len(data) <= Units[r] /\ \A u \in DOMAIN data : data[u] = u

\* A fetch for segment s, at the head of the window or behind it.
Sound(r, s, atHead, fetch) ==
    /\ fetch.seg = s /\ fetch.sent <= Units[r] /\ fetch.read <= Units[r]
    /\ InPart(r, fetch.data)
    /\ ~atHead =>
         /\ ~fetch.urgent
         /\ fetch.stage \in {"running", "done"} /\ <<r, s>> \notin Holes => fetch.permit

\* It has asked for no budget yet.
Unasked(fetch) == fetch.stage # "queued" /\ ~fetch.permit

\* What holds of every window of reader r, those that only exist within a step included.
Good(r, w) ==
    /\ w \in Windows /\ Len(w.pending) = w.next - w.head
    /\ w.pending # <<>> => w.next <= Len(Cost[r]) + 1
    /\ \A i \in DOMAIN w.pending : Sound(r, w.head + i - 1, i = 1, w.pending[i])
    /\ \A i, j \in DOMAIN w.pending : i < j /\ Waits(w.pending[i]) => Unasked(w.pending[j])

----------------------------------------------------------------------------
LEMMA Lengths ==
    ASSUME NEW r \in Readers
    PROVE  /\ Units[r] \in Nat \ {0} /\ Prefetch \in Nat \ {0}
           /\ Len(Cost[r]) \in Nat \ {0}
           /\ DOMAIN Cost[r] = 1 .. Len(Cost[r])
           /\ \A s \in 1 .. Len(Cost[r]) : Cost[r][s] \in 1 .. Capacity
BY WindowAssumption DEF Range

LEMMA IndexIs ==
    ASSUME NEW u \in Nat \ {0}, NEW p \in Nat, NEW n \in Nat, NEW l, l = n * u, p < l,
           NEW q, q = p \div u, NEW m, m = p % u
    PROVE  q + 1 \in 1 .. n /\ m \in 0 .. u - 1 /\ p + u - m \in 0 .. l
<1>1. q \in Nat /\ m \in 0 .. u - 1 /\ q < n
  OBVIOUS
<1>2. q * u + m = p
  BY SMTT(30)
<1>3. q * u + u <= l
  BY <1>1
<1> QED
  BY <1>1, <1>2, <1>3

LEMMA Joins ==
    ASSUME NEW S, NEW s \in Seq(S), NEW t \in Seq(S)
    PROVE  /\ s \o t \in Seq(S) /\ Len(s \o t) = Len(s) + Len(t)
           /\ \A i \in 1 .. Len(s) + Len(t) :
                (s \o t)[i] = IF i <= Len(s) THEN s[i] ELSE t[i - Len(s)]
OBVIOUS

LEMMA SpawnedIs ==
    ASSUME NEW r \in Readers, NEW s \in Nat
    PROVE  /\ Spawned(r, s) \in Fetches /\ Sound(r, s, FALSE, Spawned(r, s))
           /\ Sound(r, s, TRUE, Spawned(r, s))
           /\ Unasked(Spawned(r, s))
           /\ Waits(Spawned(r, s)) <=> <<r, s>> \notin Holes
BY Lengths DEF Spawned, Fetch, Fetches, FetchStages, Sound, Unasked, Waits, InPart

LEMMA AlignIs ==
    ASSUME NEW w \in Windows, Len(w.pending) = w.next - w.head, NEW index \in Nat \ {0}
    PROVE  LET v == Align(w, index) IN
           /\ v \in Windows /\ v.head = index /\ Len(v.pending) = v.next - index
           /\ v.pending # <<>> => v.next = w.next
           /\ \A i \in DOMAIN v.pending :
                /\ i + (index - w.head) \in DOMAIN w.pending /\ index >= w.head
                /\ v.pending[i] = w.pending[i + (index - w.head)]
<1>1. CASE Outside(w, index)
  BY <1>1 DEF Align, Outside, Windows
<1>2. CASE ~Outside(w, index)
  <2> DEFINE p == w.pending
             m == index - w.head + 1
             q == SubSeq(p, m, Len(p))
             v == [head |-> index, next |-> w.next, pending |-> q]
  <2>1. p \in Seq(Fetches) /\ Len(p) \in Nat /\ m \in 1 .. Len(p) + 1
    BY <1>2 DEF Outside, Windows
  <2>2. /\ q \in Seq(Fetches) /\ Len(q) = Len(p) - m + 1
        /\ \A i \in 1 .. Len(q) : q[i] = p[i + m - 1]
    BY <2>1
  <2>3. v \in Windows /\ v.head = index /\ v.pending = q /\ v.next = w.next
    BY <2>2 DEF Windows
  <2>4. Align(w, index) = v
    BY <1>2 DEF Align
  <2> HIDE DEF q, v
  <2>5a. DOMAIN q = 1 .. Len(q) /\ DOMAIN p = 1 .. Len(p)
    BY <2>1, <2>2
  <2>5b. w.head \in Nat /\ w.next \in Nat /\ index >= w.head
    BY <1>2 DEF Windows, Outside
  <2>5c. PICK a, b, l : a = w.head /\ b = w.next /\ l = Len(p)
    OBVIOUS
  <2>5d. l = b - a /\ Len(q) = l - m + 1 /\ m = index - a + 1 /\ a \in Nat /\ b \in Nat
    BY <2>2, <2>5b, <2>5c
  <2>5. /\ DOMAIN q = 1 .. Len(q) /\ DOMAIN p = 1 .. Len(p)
        /\ w.head \in Nat /\ w.next \in Nat /\ index >= w.head /\ Len(q) = w.next - index
    BY <2>5a, <2>5b, <2>5c, <2>5d
  <2>6. ASSUME NEW i \in DOMAIN q
        PROVE  i + (index - w.head) \in DOMAIN p /\ q[i] = p[i + (index - w.head)]
    <3>1. i \in 1 .. Len(q) /\ i + m - 1 = i + (index - w.head)
      BY <2>5
    <3>2. q[i] = p[i + m - 1]
      BY <2>2, <3>1
    <3>3. i + (index - w.head) \in 1 .. Len(p)
      <4>1. /\ Len(p) = w.next - w.head /\ w.next \in Nat /\ w.head \in Nat /\ index \in Nat
            /\ index >= w.head
            /\ i \in 1 .. w.next - index
        BY <2>5, <3>1
      <4>2. i + (index - w.head) \in 1 .. w.next - w.head
        BY <4>1
      <4> QED
        BY <4>1, <4>2
    <3> QED
      BY <2>5, <3>1, <3>2, <3>3
  <2> HIDE DEF p
  <2>7. p = w.pending
    BY DEF p
  <2> QED
    BY <2>2, <2>3, <2>4, <2>5, <2>6, <2>7
<1> QED
  BY <1>1, <1>2

LEMMA FillIs ==
    ASSUME NEW r \in Readers, NEW w \in Windows, Len(w.pending) = w.next - w.head
    PROVE  LET v == Fill(r, w) IN
           /\ v \in Windows /\ v.head = w.head /\ Len(v.pending) = v.next - v.head
           /\ v.next \in {w.next, Len(Cost[r]) + 1, w.head + Prefetch}
           /\ v.next <= Len(Cost[r]) + 1 \/ v = w
           /\ v.next <= w.head + Prefetch \/ v = w
           /\ w.head <= Len(Cost[r]) => v.pending # <<>>
           /\ \A i \in DOMAIN v.pending :
                \/ i \in DOMAIN w.pending /\ v.pending[i] = w.pending[i]
                \/ i \notin DOMAIN w.pending /\ v.pending[i] = Spawned(r, w.head + i - 1)
<1> DEFINE n == Len(Cost[r]) + 1
           m == w.head + Prefetch
           end == Max({w.next, Min({n, m})})
           new == [i \in 1 .. end - w.next |-> Spawned(r, w.next + i - 1)]
           v == [head |-> w.head, next |-> end, pending |-> w.pending \o new]
<1>1. n \in Nat /\ m \in Nat /\ w.next \in Nat /\ w.head \in Nat \ {0} /\ w.pending \in Seq(Fetches)
  BY Lengths DEF Windows
<1>2. Min({n, m}) = IF n <= m THEN n ELSE m
  BY <1>1 DEF Min
<1>3. end = IF w.next >= Min({n, m}) THEN w.next ELSE Min({n, m})
  BY <1>1, <1>2 DEF Max
<1>4. end \in Nat /\ end >= w.next /\ end \in {w.next, n, m} /\ (end # w.next => end <= n /\ end <= m)
  BY <1>1, <1>2, <1>3
<1>4a. (w.head < n => end > w.head)
  BY <1>1, <1>2, <1>3, Lengths
<1> HIDE DEF end, n, m
<1> DEFINE k == end - w.next
<1>5a. k \in Nat
  BY <1>1, <1>4
<1>5b. ASSUME NEW i \in 1 .. k
       PROVE  Spawned(r, w.next + i - 1) \in Fetches
  <2>1. w.next + i - 1 \in Nat
    BY <1>1, <1>5a
  <2> QED
    BY <2>1, SpawnedIs
<1> HIDE DEF k
<1>5c. [i \in 1 .. k |-> Spawned(r, w.next + i - 1)] \in Seq(Fetches)
  BY <1>5a, <1>5b
<1>5. /\ new \in Seq(Fetches) /\ Len(new) = end - w.next
      /\ \A i \in 1 .. end - w.next : new[i] = Spawned(r, w.next + i - 1)
  BY <1>5a, <1>5c DEF k
<1>6. Fill(r, w) = v
  BY DEF Fill, end, n, m
<1> HIDE DEF new
<1> DEFINE cat == w.pending \o new
<1>8. /\ cat \in Seq(Fetches) /\ Len(cat) = Len(w.pending) + Len(new)
      /\ \A i \in 1 .. Len(w.pending) + Len(new) :
           cat[i] = IF i <= Len(w.pending) THEN w.pending[i] ELSE new[i - Len(w.pending)]
  BY <1>1, <1>5, Joins
<1>9. end = w.next => cat = w.pending
  <2>1. end = w.next => new = <<>>
    <3>1. end = w.next => Len(new) = 0
      BY <1>1, <1>4, <1>5
    <3> QED
      BY <1>5, <3>1
  <2>2. w.pending \o <<>> = w.pending
    BY <1>1
  <2> QED
    BY <2>1, <2>2
<1> HIDE DEF cat
<1>7. /\ v.pending = cat /\ v.head = w.head /\ v.next = end
      /\ v \in Windows
  BY <1>1, <1>4, <1>8 DEF Windows, cat
<1>7a. end = w.next => v = w
  BY <1>9 DEF Windows, cat
<1>10. w.head <= Len(Cost[r]) => v.pending # <<>>
  <2>1. w.head < n => Len(cat) > 0
    BY <1>1, <1>4, <1>4a, <1>5, <1>8
  <2>2. w.head <= Len(Cost[r]) => w.head < n
    BY <1>1, Lengths DEF n
  <2>3. Len(cat) > 0 => v.pending # <<>>
    BY <1>7
  <2> QED
    BY <2>1, <2>2, <2>3
<1> HIDE DEF v
<1>11. DOMAIN v.pending = 1 .. Len(v.pending) /\ DOMAIN w.pending = 1 .. Len(w.pending)
  BY <1>1, <1>7 DEF Windows
<1>12. ASSUME NEW i \in DOMAIN v.pending
       PROVE  \/ i \in DOMAIN w.pending /\ v.pending[i] = w.pending[i]
              \/ i \notin DOMAIN w.pending /\ v.pending[i] = Spawned(r, w.head + i - 1)
  <2>1. i \in 1 .. Len(w.pending) + Len(new) /\ v.pending[i] = cat[i] /\ Len(w.pending) \in Nat
    BY <1>1, <1>7, <1>8, <1>11
  <2>2. CASE i <= Len(w.pending)
    BY <1>8, <1>11, <2>1, <2>2
  <2>3. CASE ~(i <= Len(w.pending))
    <3> DEFINE l == Len(w.pending)
    <3>0. l \in Nat /\ l = w.next - w.head /\ i \in 1 .. l + (end - w.next) /\ ~(i <= l)
      BY <1>5, <2>1, <2>3
    <3> HIDE DEF l
    <3>4. i - l \in 1 .. end - w.next /\ w.next + (i - l) - 1 = w.head + i - 1
      <4>1. end \in Nat /\ w.next \in Nat /\ w.head \in Nat /\ end >= w.next
        BY <1>1, <1>4
      <4>2. i \in Nat /\ i > l /\ i <= l + (end - w.next)
        BY <3>0, <4>1
      <4>3. i - l \in 1 .. end - w.next
        BY <3>0, <4>1, <4>2
      <4>4. PICK a, b : a = w.next /\ b = w.head
        OBVIOUS
      <4>5. a \in Nat /\ b \in Nat /\ l = a - b /\ a + (i - l) - 1 = b + i - 1
        BY <3>0, <4>1, <4>2, <4>4
      <4> QED
        BY <4>3, <4>4, <4>5
    <3>1. i - Len(w.pending) \in 1 .. end - w.next /\ w.next + (i - Len(w.pending)) - 1 = w.head + i - 1
      BY <3>4 DEF l
    <3>2. v.pending[i] = Spawned(r, w.next + (i - Len(w.pending)) - 1)
      BY <1>5, <1>8, <2>1, <2>3, <3>1
    <3> QED
      BY <1>11, <2>1, <2>3, <3>1, <3>2
  <2> QED
    BY <2>2, <2>3
<1> QED
  BY <1>1, <1>4, <1>5, <1>6, <1>7, <1>7a, <1>8, <1>10, <1>12 DEF n, m

\* A window keeps what is right about it when it starts later.
LEMMA SuffixGood ==
    ASSUME NEW r \in Readers, NEW w, Good(r, w), NEW v \in Windows, NEW k \in Nat,
           v.head = w.head + k,
           Len(v.pending) = v.next - v.head, v.pending # <<>> => v.next = w.next,
           \A i \in DOMAIN v.pending : i + k \in DOMAIN w.pending
                                       /\ v.pending[i] = w.pending[i + k]
    PROVE  Good(r, v)
<1>1. v.pending # <<>> => v.next <= Len(Cost[r]) + 1
  <2>1. v.pending # <<>> => w.pending # <<>>
    <3>1. v.pending # <<>> => 1 \in DOMAIN v.pending
      BY DEF Windows
    <3> QED
      BY <3>1
  <2> QED
    BY <2>1 DEF Good
<1>2. \A i \in DOMAIN v.pending : i \in Nat \ {0}
  BY DEF Windows
<1>3. ASSUME NEW i \in DOMAIN v.pending
      PROVE  Sound(r, v.head + i - 1, i = 1, v.pending[i])
  <2>1. /\ i + k \in DOMAIN w.pending /\ i \in Nat \ {0} /\ v.pending[i] = w.pending[i + k] /\ w.head \in Nat
    BY <1>2 DEF Good, Windows
  <2>2. Sound(r, w.head + (i + k) - 1, i + k = 1, w.pending[i + k])
    BY <2>1 DEF Good
  <2>3. w.head + (i + k) - 1 = v.head + i - 1
    BY <2>1
  <2>4. i # 1 => i + k # 1
    BY <2>1
  <2> QED
    BY <2>1, <2>2, <2>3, <2>4 DEF Sound
<1>4. ASSUME NEW i \in DOMAIN v.pending, NEW j \in DOMAIN v.pending, i < j, Waits(v.pending[i])
      PROVE  Unasked(v.pending[j])
  <2>1. /\ i + k \in DOMAIN w.pending /\ j + k \in DOMAIN w.pending /\ i + k < j + k
        /\ v.pending[i] = w.pending[i + k] /\ v.pending[j] = w.pending[j + k]
    BY <1>2, <1>4
  <2> QED
    BY <1>4, <2>1 DEF Good
<1> QED
  BY <1>1, <1>3, <1>4 DEF Good

LEMMA AlignGood ==
    ASSUME NEW r \in Readers, NEW w, Good(r, w), NEW index \in Nat \ {0}
    PROVE  Good(r, Align(w, index))
<1> DEFINE v == Align(w, index)
           k == index - w.head
<1>1. w \in Windows /\ Len(w.pending) = w.next - w.head /\ w.head \in Nat /\ index \in Nat
  BY DEF Good, Windows
<1>2. /\ v \in Windows /\ v.head = index /\ Len(v.pending) = v.next - index
      /\ v.pending # <<>> => v.next = w.next
      /\ \A i \in DOMAIN v.pending :
           /\ i + (index - w.head) \in DOMAIN w.pending /\ index >= w.head
           /\ v.pending[i] = w.pending[i + (index - w.head)]
  BY <1>1, AlignIs
<1> HIDE DEF v
<1>3. CASE v.pending = <<>>
  <2>1. DOMAIN v.pending = {} /\ Len(v.pending) = 0
    BY <1>3
  <2> QED
    BY <1>2, <1>3, <2>1 DEF Good, v
<1>4. CASE v.pending # <<>>
  <2>1. PICK i \in DOMAIN v.pending : TRUE
    <3>1. 1 \in DOMAIN v.pending
      BY <1>2, <1>4 DEF Windows
    <3> QED
      BY <3>1
  <2>2. k \in Nat /\ index = w.head + k
    BY <1>1, <1>2, <2>1
  <2> HIDE DEF k
  <2>3. \A j \in DOMAIN v.pending : j + k \in DOMAIN w.pending /\ v.pending[j] = w.pending[j + k]
    BY <1>2 DEF k
  <2>4. Good(r, v)
    BY <1>2, <2>2, <2>3, SuffixGood
  <2> QED
    BY <2>4 DEF v
<1> QED
  BY <1>3, <1>4

LEMMA PoppedGood ==
    ASSUME NEW r \in Readers, NEW w, Good(r, w), w.pending # <<>>
    PROVE  Good(r, Popped(w)) /\ Popped(w).head = w.head + 1
<1> DEFINE v == [head |-> w.head + 1, next |-> w.next, pending |-> Tail(w.pending)]
<1>1. /\ w.pending \in Seq(Fetches) /\ w.head \in Nat \ {0} /\ w.next \in Nat
      /\ Len(w.pending) = w.next - w.head
  BY DEF Good, Windows
<1>2. /\ Tail(w.pending) \in Seq(Fetches) /\ Len(Tail(w.pending)) = Len(w.pending) - 1
      /\ \A i \in 1 .. Len(Tail(w.pending)) : Tail(w.pending)[i] = w.pending[i + 1]
  BY <1>1
<1>3. DOMAIN w.pending = 1 .. Len(w.pending) /\ DOMAIN Tail(w.pending) = 1 .. Len(Tail(w.pending))
  BY <1>1, <1>2
<1>4. v \in Windows /\ v.head = w.head + 1 /\ v.next = w.next /\ v.pending = Tail(w.pending)
  BY <1>1, <1>2 DEF Windows
<1> HIDE DEF v
<1>5. Len(v.pending) = v.next - v.head
  BY <1>1, <1>2, <1>4
<1>6. \A i \in DOMAIN v.pending :
           i + 1 \in DOMAIN w.pending /\ v.pending[i] = w.pending[i + 1]
  BY <1>1, <1>2, <1>3, <1>4
<1>7. Good(r, v)
  <2>1. PICK k \in Nat : k = 1
    OBVIOUS
  <2>2. /\ v.head = w.head + k
        /\ \A i \in DOMAIN v.pending : i + k \in DOMAIN w.pending /\ v.pending[i] = w.pending[i + k]
    BY <1>4, <1>6, <2>1
  <2> QED
    BY <1>4, <1>5, <2>2, SuffixGood
<1>8. Popped(w) = v
  BY DEF Popped, v
<1> QED
  BY <1>4, <1>7, <1>8

LEMMA FillGood ==
    ASSUME NEW r \in Readers, NEW w, Good(r, w)
    PROVE  /\ Good(r, Fill(r, w)) /\ Fill(r, w).head = w.head
           /\ w.head <= Len(Cost[r]) => Fill(r, w).pending # <<>>
           /\ \A i \in DOMAIN Fill(r, w).pending :
                \/ i \in DOMAIN w.pending /\ Fill(r, w).pending[i] = w.pending[i]
                \/ i \notin DOMAIN w.pending /\ Fill(r, w).pending[i] = Spawned(r, w.head + i - 1)
<1> DEFINE v == Fill(r, w)
<1>1. w \in Windows /\ Len(w.pending) = w.next - w.head /\ w.head \in Nat \ {0}
  BY DEF Good, Windows
<1>2. /\ v \in Windows /\ v.head = w.head /\ Len(v.pending) = v.next - v.head
      /\ v.next <= Len(Cost[r]) + 1 \/ v = w
      /\ w.head <= Len(Cost[r]) => v.pending # <<>>
      /\ \A i \in DOMAIN v.pending :
           \/ i \in DOMAIN w.pending /\ v.pending[i] = w.pending[i]
           \/ i \notin DOMAIN w.pending /\ v.pending[i] = Spawned(r, w.head + i - 1)
  BY <1>1, FillIs
<1> HIDE DEF v
<1>3. /\ \A i \in DOMAIN v.pending : i \in Nat \ {0}
      /\ \A i, j \in DOMAIN v.pending : i < j /\ j \in DOMAIN w.pending => i \in DOMAIN w.pending
      /\ DOMAIN w.pending = 1 .. Len(w.pending) /\ Len(w.pending) \in Nat
  BY <1>1, <1>2 DEF Windows
<1>4. v.pending # <<>> => v.next <= Len(Cost[r]) + 1
  BY <1>2 DEF Good
<1>5. ASSUME NEW i \in DOMAIN v.pending
      PROVE  Sound(r, v.head + i - 1, i = 1, v.pending[i])
  <2>1. CASE i \in DOMAIN w.pending
    BY <1>2, <2>1 DEF Good
  <2>2. CASE i \notin DOMAIN w.pending
    <3>1. w.head + i - 1 \in Nat
      BY <1>1, <1>3
    <3> QED
      BY <1>2, <2>2, <3>1, SpawnedIs DEF Sound
  <2> QED
    BY <2>1, <2>2
<1>6. ASSUME NEW i \in DOMAIN v.pending, NEW j \in DOMAIN v.pending, i < j, Waits(v.pending[i])
      PROVE  Unasked(v.pending[j])
  <2>1. CASE j \in DOMAIN w.pending
    BY <1>2, <1>3, <1>6, <2>1 DEF Good
  <2>2. CASE j \notin DOMAIN w.pending
    <3>1. w.head + j - 1 \in Nat
      BY <1>1, <1>3
    <3> QED
      BY <1>2, <2>2, <3>1, SpawnedIs
  <2> QED
    BY <2>1, <2>2
<1>7. Good(r, v)
  BY <1>2, <1>4, <1>5, <1>6 DEF Good
<1> QED
  BY <1>2, <1>7 DEF v

\* One fetch of a window changes: it asks for budget only after those before it.
LEMMA ReplaceGood ==
    ASSUME NEW r \in Readers, NEW w, Good(r, w), NEW i \in DOMAIN w.pending,
           NEW fetch \in Fetches, Sound(r, w.head + i - 1, i = 1, fetch),
           Waits(fetch) => Waits(w.pending[i]),
           Unasked(fetch) \/ \A j \in DOMAIN w.pending : j < i => ~Waits(w.pending[j])
    PROVE  LET v == Replace(w, i, fetch) IN
           /\ Good(r, v) /\ v.head = w.head /\ v.next = w.next
           /\ DOMAIN v.pending = DOMAIN w.pending
           /\ \A j \in DOMAIN w.pending : v.pending[j] = IF j = i THEN fetch ELSE w.pending[j]
<1> DEFINE q == [w.pending EXCEPT ![i] = fetch]
           v == [head |-> w.head, next |-> w.next, pending |-> q]
<1>1. w \in Windows /\ w.pending \in Seq(Fetches) /\ Len(w.pending) = w.next - w.head
  BY DEF Good, Windows
<1>2. /\ q \in Seq(Fetches) /\ Len(q) = Len(w.pending) /\ DOMAIN q = DOMAIN w.pending
      /\ \A j \in DOMAIN w.pending : q[j] = IF j = i THEN fetch ELSE w.pending[j]
      /\ \A j \in DOMAIN w.pending : j \in Nat
  BY <1>1
<1> HIDE DEF q
<1>3. /\ v \in Windows /\ v.head = w.head /\ v.next = w.next /\ v.pending = q
      /\ v.pending # <<>> => w.pending # <<>>
  BY <1>1, <1>2 DEF Windows
<1> HIDE DEF v
<1>4. \A j \in DOMAIN v.pending : Sound(r, v.head + j - 1, j = 1, v.pending[j])
  BY <1>2, <1>3 DEF Good
<1>5. \A j, k \in DOMAIN v.pending : j < k /\ Waits(v.pending[j]) => Unasked(v.pending[k])
  BY <1>2, <1>3 DEF Good
<1>6. Good(r, v)
  BY <1>1, <1>2, <1>3, <1>4, <1>5 DEF Good
<1>7. Replace(w, i, fetch) = v
  BY DEF Replace, q, v
<1> QED
  BY <1>2, <1>3, <1>6, <1>7

----------------------------------------------------------------------------
Hedges == [seg : Nat, stage : {"none", "running", "done", "failed"}]

Places ==
    /\ pos \in [Readers -> Nat] /\ reading \subseteq Readers
    /\ \A r \in Readers : pos[r] <= Length(r) /\ (r \in reading => pos[r] < Length(r))

Windowed ==
    /\ window \in [Readers -> Windows]
    /\ \A r \in Readers : Good(r, window[r])

Hedged ==
    /\ hedge \in [Readers -> Hedges]
    /\ \A r \in Readers : hedge[r] # NoHedge =>
         window[r].pending # <<>> /\ hedge[r].seg = window[r].head

InHands ==
    /\ current \in [Readers -> [seg : Nat, permit : BOOLEAN]] /\ previous \in [Readers -> Nat]
    /\ \A r \in Readers : current[r].seg <= Len(Cost[r]) /\ previous[r] <= Len(Cost[r])

WInv == Places /\ Windowed /\ Hedged /\ InHands /\ surprises \in 0 .. Surprises

LEMMA GoodIs ==
    ASSUME NEW r \in Readers, NEW w, Good(r, w)
    PROVE  /\ w \in Windows /\ w.head \in Nat \ {0} /\ w.pending \in Seq(Fetches)
           /\ DOMAIN w.pending = 1 .. Len(w.pending) /\ Len(w.pending) \in Nat
           /\ \A i \in DOMAIN w.pending :
                /\ w.pending[i] \in Fetches /\ Sound(r, w.head + i - 1, i = 1, w.pending[i])
                /\ w.pending[i].seg \in 1 .. Len(Cost[r])
<1>1. /\ w \in Windows /\ w.head \in Nat \ {0} /\ w.pending \in Seq(Fetches) /\ w.next \in Nat
      /\ Len(w.pending) = w.next - w.head
  BY DEF Good, Windows
<1>2. DOMAIN w.pending = 1 .. Len(w.pending) /\ Len(w.pending) \in Nat
  BY <1>1
<1>3. ASSUME NEW i \in DOMAIN w.pending
      PROVE  w.pending[i].seg \in 1 .. Len(Cost[r])
  <2>1. w.pending # <<>> /\ w.pending[i].seg = w.head + i - 1 /\ w.next <= Len(Cost[r]) + 1
    <3>1. Sound(r, w.head + i - 1, i = 1, w.pending[i])
      BY DEF Good
    <3>2. w.pending # <<>>
      BY <1>2
    <3> QED
      BY <3>1, <3>2 DEF Good, Sound
  <2>2. i \in 1 .. w.next - w.head /\ Len(Cost[r]) \in Nat
    BY <1>1, <1>2, Lengths
  <2> QED
    BY <1>1, <2>1, <2>2
<1> QED
  BY <1>1, <1>2, <1>3 DEF Good

\* Of a fetch's task, one step.
LEMMA SetGood ==
    ASSUME Windowed, Hedged, NEW r \in Readers, NEW i \in DOMAIN window[r].pending,
           NEW fetch \in Fetches, Sound(r, window[r].head + i - 1, i = 1, fetch),
           Waits(fetch) => Waits(window[r].pending[i]),
           Unasked(fetch) \/ \A j \in DOMAIN window[r].pending : j < i => ~Waits(window[r].pending[j]),
           Set(r, i, fetch), UNCHANGED hedge
    PROVE  Windowed' /\ Hedged'
<1> DEFINE w == window[r]
           v == Replace(w, i, fetch)
<1>1. /\ Good(r, v) /\ v.head = w.head /\ v.next = w.next
      /\ DOMAIN v.pending = DOMAIN w.pending
  BY ReplaceGood DEF Windowed
<1> HIDE DEF v
<1>2. window' = [window EXCEPT ![r] = v]
  BY DEF Set, v
<1>3. Windowed'
  BY <1>1, <1>2 DEF Windowed, Good
<1>4. v.pending # <<>> 
  BY <1>1, <1>2 DEF Windowed, Good
<1>5. Hedged'
  BY <1>1, <1>2, <1>4 DEF Windowed, Hedged
<1> QED
  BY <1>3, <1>5

LEMMA FetchIs ==
    ASSUME NEW r \in Readers, NEW s \in Nat, NEW stage \in FetchStages, NEW permit \in BOOLEAN
    PROVE  /\ Fetch(s, stage, permit) \in Fetches
           /\ Sound(r, s, TRUE, Fetch(s, stage, permit))
           /\ permit \/ stage \in {"failed"} => Sound(r, s, FALSE, Fetch(s, stage, permit))
           /\ Unasked(Fetch(s, stage, permit)) <=> stage # "queued" /\ ~permit
           /\ Waits(Fetch(s, stage, permit)) <=> stage \in {"chained", "queued"}
BY Lengths DEF Fetch, Fetches, FetchStages, Sound, Unasked, Waits, InPart

LEMMA JoinedIs ==
    ASSUME NEW r \in Readers, NEW data \in Seq(Nat), InPart(r, data),
           NEW from \in Nat, NEW to \in Nat, to <= Units[r]
    PROVE  Joined(data, from, to) \in Seq(Nat) /\ InPart(r, Joined(data, from, to))
<1>1. CASE ~(from <= Len(data) /\ Len(data) <= to)
  BY <1>1 DEF Joined
<1>2. CASE from <= Len(data) /\ Len(data) <= to
  <2> DEFINE l == Len(data)
             new == [u \in 1 .. to - l |-> l + u]
             cat == data \o new
  <2>1. l \in Nat /\ to - l \in Nat
    BY <1>2
  <2>2. new \in Seq(Nat) /\ Len(new) = to - l /\ \A u \in 1 .. to - l : new[u] = l + u
    BY <2>1
  <2>3. Joined(data, from, to) = cat
    BY <1>2 DEF Joined
  <2> HIDE DEF new
  <2>4. /\ cat \in Seq(Nat) /\ Len(cat) = Len(data) + Len(new)
        /\ \A u \in 1 .. Len(data) + Len(new) :
             cat[u] = IF u <= Len(data) THEN data[u] ELSE new[u - Len(data)]
    BY <2>2, Joins
  <2> HIDE DEF cat
  <2>5. Len(cat) = to /\ DOMAIN cat = 1 .. to
    BY <2>1, <2>2, <2>4
  <2>6. ASSUME NEW u \in 1 .. to
        PROVE  cat[u] = u
    <3>1. CASE u <= l
      BY <2>1, <2>2, <2>4, <3>1 DEF InPart
    <3>2. CASE ~(u <= l)
      <4>1. u - l \in 1 .. to - l /\ l + (u - l) = u
        BY <2>1, <3>2
      <4>2. u \in 1 .. Len(data) + Len(new) /\ ~(u <= Len(data))
        BY <2>1, <2>2, <3>2
      <4>3. cat[u] = new[u - l]
        BY <2>4, <4>2
      <4> QED
        BY <2>2, <4>1, <4>3
    <3> QED
      BY <3>1, <3>2
  <2> QED
    BY <2>3, <2>4, <2>5, <2>6 DEF InPart
<1> QED
  BY <1>1, <1>2

\* What is not waiting any more, nothing before it is waiting for.
LEMMA Before ==
    ASSUME Windowed, NEW r \in Readers, NEW i \in DOMAIN window[r].pending
    PROVE  ~Unasked(window[r].pending[i]) =>
             \A j \in DOMAIN window[r].pending : j < i => ~Waits(window[r].pending[j])
BY DEF Windowed, Good

LEMMA UnchainedIs ==
    ASSUME Windowed, NEW r \in Readers, NEW i \in DOMAIN window[r].pending, Unchained(r, i)
    PROVE  \A j \in DOMAIN window[r].pending : j < i => ~Waits(window[r].pending[j])
<1>1. DOMAIN window[r].pending = 1 .. Len(window[r].pending) /\ Len(window[r].pending) \in Nat
  BY GoodIs DEF Windowed
<1>2. \A j \in DOMAIN window[r].pending : j < i => j \in 1 .. i - 1
  BY <1>1
<1> QED
  BY <1>2 DEF Unchained

LEMMA TaskStep ==
    ASSUME Windowed, Hedged, NEW r \in Readers, NEW i \in DOMAIN window[r].pending,
           Acquire(r, i) \/ Enqueue(r, i) \/ Bypass(r, i) \/ Chunk(r, i) \/ Resend(r, i) \/ End(r, i)
    PROVE  Windowed' /\ Hedged'
<1> DEFINE old == window[r].pending[i]
           head == window[r].head
<1>1. /\ old \in Fetches /\ Sound(r, head + i - 1, i = 1, old) /\ old.seg \in Nat
      /\ old.seg = head + i - 1 /\ old.permit \in BOOLEAN /\ UNCHANGED hedge
  BY GoodIs DEF Windowed, Acquire, Enqueue, Bypass, Chunk, Resend, End, Sound, Fetches
<1>2. \/ Unasked(old)
      \/ \A j \in DOMAIN window[r].pending : j < i => ~Waits(window[r].pending[j])
  BY Before
<1>3. Unchained(r, i) =>
        \A j \in DOMAIN window[r].pending : j < i => ~Waits(window[r].pending[j])
  BY UnchainedIs
<1>4. CASE Acquire(r, i)
  <2> DEFINE new == Fetch(old.seg, "running", TRUE)
  <2>1. Set(r, i, new)
    BY <1>4 DEF Acquire
  <2>2. /\ new \in Fetches /\ Sound(r, old.seg, i = 1, new) /\ ~Waits(new)
    BY <1>1, FetchIs DEF FetchStages
  <2>3. \A j \in DOMAIN window[r].pending : j < i => ~Waits(window[r].pending[j])
    BY <1>2, <1>3, <1>4 DEF Acquire, Grantable, Unasked
  <2> HIDE DEF new, old
  <2> QED
    BY <1>1, <2>1, <2>2, <2>3, SetGood DEF head
<1>5. CASE Enqueue(r, i)
  <2> DEFINE new == [old EXCEPT !.stage = "queued"]
  <2>1. Set(r, i, new) /\ old.stage = "chained"
    BY <1>5 DEF Enqueue
  <2>2. /\ new \in Fetches /\ Sound(r, old.seg, i = 1, new)
    BY <1>1, <2>1 DEF Fetches, FetchStages, Sound
  <2>3. \A j \in DOMAIN window[r].pending : j < i => ~Waits(window[r].pending[j])
    BY <1>3, <1>5 DEF Enqueue
  <2>4. Waits(old)
    BY <2>1 DEF Waits
  <2> HIDE DEF new
  <2> QED
    BY <1>1, <2>1, <2>2, <2>3, <2>4, SetGood
<1>6. CASE Bypass(r, i)
  <2> DEFINE new == Fetch(old.seg, "running", FALSE)
  <2>1. Set(r, i, new) /\ old.urgent
    BY <1>6 DEF Bypass
  <2>2. i = 1
    BY <1>1, <2>1 DEF Sound
  <2>3. new \in Fetches /\ Sound(r, old.seg, i = 1, new) /\ ~Waits(new) /\ Unasked(new)
    BY <1>1, <2>2, FetchIs DEF FetchStages
  <2> HIDE DEF new
  <2> QED
    BY <1>1, <2>1, <2>3, SetGood
<1>7. ASSUME NEW to \in old.sent + 1 .. Units[r], Running(r, i), Set(r, i, Streamed(old, to))
      PROVE  Windowed' /\ Hedged'
  <2> DEFINE data == Joined(old.data, old.sent, to)
             one == [old EXCEPT !.data = data]
             new == [one EXCEPT !.sent = to]
  <2>1. /\ old.sent \in Nat /\ old.data \in Seq(Nat) /\ InPart(r, old.data)
        /\ to \in Nat /\ to <= Units[r]
    BY <1>1, Lengths DEF Fetches, Sound
  <2>2. data \in Seq(Nat) /\ InPart(r, data)
    BY <2>1, JoinedIs
  <2>4. Set(r, i, new)
    BY <1>7 DEF Streamed
  <2> HIDE DEF data
  <2>5. /\ one \in Fetches /\ Sound(r, old.seg, i = 1, one)
        /\ one.seg = old.seg /\ one.stage = old.stage /\ one.permit = old.permit
    BY <1>1, <2>1, <2>2 DEF Fetches, Sound
  <2> HIDE DEF one
  <2>6. /\ new \in Fetches /\ Sound(r, old.seg, i = 1, new)
        /\ new.stage = old.stage /\ new.permit = old.permit
    BY <2>1, <2>5 DEF Fetches, Sound
  <2>7. (Waits(new) => Waits(old)) /\ (Unasked(old) => Unasked(new))
    BY <2>6 DEF Waits, Unasked
  <2> HIDE DEF new
  <2> QED
    BY <1>1, <1>2, <2>4, <2>6, <2>7, SetGood
<1>8. CASE Resend(r, i)
  <2> DEFINE new == [old EXCEPT !.sent = 0]
  <2>1. Set(r, i, new)
    BY <1>8 DEF Resend
  <2>2. new \in Fetches /\ Sound(r, old.seg, i = 1, new) /\ new.stage = old.stage /\ new.permit = old.permit
    BY <1>1, Lengths DEF Fetches, Sound
  <2>3. (Waits(new) => Waits(old)) /\ (Unasked(old) => Unasked(new))
    BY <2>2 DEF Waits, Unasked
  <2> HIDE DEF new
  <2> QED
    BY <1>1, <1>2, <2>1, <2>2, <2>3, SetGood
<1>9. ASSUME NEW new, Set(r, i, new), Running(r, i),
             new = Fetch(old.seg, "done", old.permit) \/ new = Fetch(old.seg, "failed", FALSE)
      PROVE  Windowed' /\ Hedged'
  <2>1. new \in Fetches /\ ~Waits(new)
    BY <1>1, <1>9, FetchIs DEF FetchStages
  <2>2. Sound(r, old.seg, i = 1, new)
    <3>1. i # 1 /\ <<r, old.seg>> \notin Holes => old.permit
      BY <1>1, <1>9 DEF Sound, Running
    <3> QED
      BY <1>1, <1>9, <3>1, Lengths DEF Fetch, Sound, InPart
  <2>3. Unasked(old) => Unasked(new)
    BY <1>1, <1>9, FetchIs DEF Unasked, FetchStages
  <2> QED
    BY <1>1, <1>2, <1>9, <2>1, <2>2, <2>3, SetGood
<1> QED
  BY <1>4, <1>5, <1>6, <1>7, <1>8, <1>9 DEF Chunk, End

----------------------------------------------------------------------------
(* Steps that give a reader another window.                                *)

LEMMA Shifted ==
    ASSUME Windowed, Hedged, NEW r \in Readers, NEW v, Good(r, v), NEW h \in Hedges,
           window' = [window EXCEPT ![r] = v], hedge' = [hedge EXCEPT ![r] = h],
           h # NoHedge => v.pending # <<>> /\ h.seg = v.head
    PROVE  Windowed' /\ Hedged'
<1>1. v \in Windows
  BY DEF Good
<1>2. Windowed'
  BY <1>1 DEF Windowed, Good
<1>3. Hedged'
  BY DEF Windowed, Hedged
<1> QED
  BY <1>2, <1>3

LEMMA NoHedgeIs == NoHedge \in Hedges
BY DEF NoHedge, Hedges

LEMMA WhereReading ==
    ASSUME Places, NEW r \in Readers, r \in reading
    PROVE  /\ Index(r) \in 1 .. Len(Cost[r]) /\ Offset(r) \in 0 .. Units[r] - 1
           /\ pos[r] + Units[r] - Offset(r) \in 0 .. Length(r)
<1> DEFINE u == Units[r]
           n == Len(Cost[r])
           p == pos[r]
<1>1. u \in Nat \ {0} /\ n \in Nat /\ p \in Nat /\ p < n * u
  BY Lengths DEF Places, Length
<1>2. PICK q, m, l : q = p \div u /\ m = p % u /\ l = n * u
  OBVIOUS
<1>3. Index(r) = q + 1 /\ Offset(r) = m /\ Length(r) = l
  BY <1>2 DEF Index, Offset, Length
<1>4. p < l
  BY <1>1, <1>2
<1> HIDE DEF u, n, p
<1>5. q + 1 \in 1 .. n /\ m \in 0 .. u - 1 /\ p + u - m \in 0 .. l
  BY <1>1, <1>2, <1>4, IndexIs
<1>6. /\ Index(r) \in 1 .. n /\ Offset(r) \in 0 .. u - 1
      /\ p + u - Offset(r) \in 0 .. Length(r)
  BY <1>3, <1>5
<1> QED
  BY <1>6 DEF u, n, p

LEMMA UrgeGood ==
    ASSUME NEW r \in Readers, NEW f, Good(r, f), f.pending # <<>>
    PROVE  /\ Good(r, Urge(f)) /\ Urge(f).head = f.head
           /\ DOMAIN Urge(f).pending = DOMAIN f.pending
           /\ \A j \in DOMAIN f.pending :
                Urge(f).pending[j].permit = f.pending[j].permit
<1> DEFINE old == f.pending[1]
           new == [old EXCEPT !.urgent = TRUE]
           w == Replace(f, 1, new)
<1>1. CASE ~Waits(old)
  BY <1>1 DEF Urge
<1>2. CASE Waits(old)
  <2>1. 1 \in DOMAIN f.pending /\ f.head \in Nat /\ \A j \in DOMAIN f.pending : ~(j < 1)
    BY GoodIs
  <2>2. old \in Fetches /\ Sound(r, f.head + 1 - 1, TRUE, old)
    BY <2>1, GoodIs
  <2> HIDE DEF old
  <2>3. /\ new \in Fetches /\ Sound(r, f.head + 1 - 1, 1 = 1, new)
        /\ Waits(new) => Waits(old)
        /\ Unasked(old) => Unasked(new)
        /\ new.permit = old.permit
    BY <2>2 DEF Fetches, Sound, Waits, Unasked
  <2> HIDE DEF new
  <2>4. /\ Good(r, w) /\ w.head = f.head /\ DOMAIN w.pending = DOMAIN f.pending
        /\ \A j \in DOMAIN f.pending : w.pending[j] = IF j = 1 THEN new ELSE f.pending[j]
    BY <2>1, <2>3, ReplaceGood DEF old
  <2>5. Urge(f) = w
    BY <1>2 DEF Urge, new, old
  <2> HIDE DEF w
  <2> QED
    BY <2>3, <2>4, <2>5 DEF old
<1> QED
  BY <1>1, <1>2

LEMMA OpenedGood ==
    ASSUME Places, Windowed, NEW r \in Readers, r \in reading
    PROVE  LET w == Opened(r) IN
           /\ Good(r, w) /\ w.head = Index(r) /\ w.pending # <<>>
           /\ 1 \in DOMAIN w.pending
           /\ w.pending[1] \in Fetches /\ Sound(r, Index(r), TRUE, w.pending[1])
<1> DEFINE a == Align(window[r], Index(r))
           f == Fill(r, a)
           w == Urge(f)
<1>1. Index(r) \in Nat \ {0} /\ Index(r) <= Len(Cost[r])
  BY WhereReading, Lengths
<1>2. Good(r, a) /\ a.head = Index(r)
  BY <1>1, AlignGood, AlignIs DEF Windowed, Good
<1> HIDE DEF a
<1>3. Good(r, f) /\ f.head = Index(r) /\ f.pending # <<>>
  BY <1>1, <1>2, FillGood
<1> HIDE DEF f
<1>4. Good(r, w) /\ w.head = Index(r) /\ DOMAIN w.pending = DOMAIN f.pending
  BY <1>3, UrgeGood
<1>5. 1 \in DOMAIN f.pending
  BY <1>3, GoodIs
<1>9. Opened(r) = w
  BY DEF Opened, w, f, a
<1> HIDE DEF w
<1>6. w.pending # <<>> /\ w.pending[1] \in Fetches /\ Sound(r, w.head + 1 - 1, 1 = 1, w.pending[1])
  BY <1>4, <1>5, GoodIs DEF Good
<1>7. w.head + 1 - 1 = Index(r)
  BY <1>1, <1>4
<1> QED
  BY <1>4, <1>5, <1>6, <1>7, <1>9

LEMMA ReadHeadStep ==
    ASSUME Places, Windowed, Hedged, NEW r \in Readers, ReadHead(r)
    PROVE  Windowed' /\ Hedged'
<1> DEFINE w == Opened(r)
           v == Fill(r, Popped(w))
<1>1. Good(r, w) /\ w.pending # <<>>
  BY OpenedGood DEF ReadHead, Needs
<1>2. window' = [window EXCEPT ![r] = v] /\ hedge' = [hedge EXCEPT ![r] = NoHedge]
  BY DEF ReadHead
<1> HIDE DEF w
<1>3. Good(r, v)
  BY <1>1, PoppedGood, FillGood
<1> QED
  BY <1>2, <1>3, NoHedgeIs, Shifted

LEMMA ReadFailsStep ==
    ASSUME Places, Windowed, Hedged, NEW r \in Readers, ReadFails(r)
    PROVE  Windowed' /\ Hedged'
<1> DEFINE w == Opened(r)
           v == Popped(w)
<1>1. Good(r, w) /\ w.pending # <<>>
  BY OpenedGood DEF ReadFails, Needs
<1>2. window' = [window EXCEPT ![r] = v] /\ hedge' = [hedge EXCEPT ![r] = NoHedge]
  BY DEF ReadFails
<1> HIDE DEF w
<1>3. Good(r, v)
  BY <1>1, PoppedGood
<1> QED
  BY <1>2, <1>3, NoHedgeIs, Shifted

\* What a read that waits leaves at the head.
LEMMA SeenGood ==
    ASSUME Places, Windowed, NEW r \in Readers, r \in reading
    PROVE  LET w == Opened(r)
               seen == Len(w.pending[1].data)
               v == Replace(w, 1, [w.pending[1] EXCEPT !.read = seen])
           IN  /\ Good(r, v) /\ v.head = w.head /\ v.pending # <<>>
               /\ seen \in 0 .. Units[r]
<1> DEFINE w == Opened(r)
           head == w.pending[1]
           seen == Len(head.data)
           new == [head EXCEPT !.read = seen]
           v == Replace(w, 1, new)
<1>1. /\ Good(r, w) /\ w.head = Index(r) /\ 1 \in DOMAIN w.pending
      /\ head \in Fetches /\ Sound(r, Index(r), TRUE, head)
  BY OpenedGood
<1> HIDE DEF w
<1>2. seen \in Nat /\ seen <= Units[r] /\ Units[r] \in Nat
  BY <1>1, Lengths DEF Fetches, Sound, InPart
<1> HIDE DEF seen
<1>3. /\ new \in Fetches /\ Sound(r, Index(r), TRUE, new)
      /\ Waits(new) <=> Waits(head)
      /\ Unasked(new) <=> Unasked(head)
  BY <1>1, <1>2 DEF Fetches, Sound, Waits, Unasked
<1>3b. w.head \in Nat /\ w.head + 1 - 1 = Index(r) /\ \A j \in DOMAIN w.pending : ~(j < 1)
  BY <1>1, GoodIs
<1> HIDE DEF new, head
<1>3a. Sound(r, w.head + 1 - 1, 1 = 1, new)
  BY <1>3, <1>3b
<1>4. Good(r, v) /\ v.head = w.head /\ DOMAIN v.pending = DOMAIN w.pending
  BY <1>1, <1>3, <1>3a, <1>3b, ReplaceGood DEF head
<1>5. v.pending # <<>>
  BY <1>1, <1>4
<1> QED
  BY <1>2, <1>4, <1>5 DEF w, seen, new, head

LEMMA WaitStep ==
    ASSUME Places, Windowed, Hedged, NEW r \in Readers, Wait(r)
    PROVE  Windowed' /\ Hedged'
<1> DEFINE w == Opened(r)
           head == w.pending[1]
           v == Replace(w, 1, [head EXCEPT !.read = Len(head.data)])
<1>1. /\ Good(r, w) /\ w.head = Index(r) /\ head.seg = Index(r) /\ head \in Fetches
      /\ Good(r, v) /\ v.head = w.head /\ v.pending # <<>>
  BY OpenedGood, SeenGood DEF Wait, Needs, Sound
<1>2. window' = [window EXCEPT ![r] = v]
  BY DEF Wait
<1>3. PICK h : /\ hedge' = [hedge EXCEPT ![r] = h]
               /\ h \in {NoHedge, Raced(r), [seg |-> head.seg, stage |-> "running"]}
  BY DEF Wait
<1> HIDE DEF v
<1>4. CASE h \in {NoHedge, Raced(r)}
  <2>1. h \in Hedges
    BY <1>4, NoHedgeIs DEF Raced, Hedged
  <2>2. h # NoHedge => h = hedge[r] /\ Index(r) = window[r].head
    BY <1>4 DEF Raced
  <2>3. h # NoHedge => h.seg = v.head
    BY <1>1, <2>2 DEF Hedged
  <2> QED
    BY <1>1, <1>2, <1>3, <2>1, <2>3, Shifted
<1>5. CASE h = [seg |-> head.seg, stage |-> "running"]
  <2>1. h \in Hedges /\ h.seg = v.head
    BY <1>1, <1>5 DEF Hedges, Fetches
  <2> QED
    BY <1>1, <1>2, <1>3, <2>1, Shifted
<1> QED
  BY <1>3, <1>4, <1>5

LEMMA OtherStep ==
    ASSUME Windowed, Hedged, NEW r \in Readers, HedgeEnds(r) \/ Reopen(r)
    PROVE  Windowed' /\ Hedged'
<1>1. CASE HedgeEnds(r)
  <2>1. PICK stage \in {"done", "failed"} : hedge' = [hedge EXCEPT ![r].stage = stage]
    BY <1>1 DEF HedgeEnds
  <2> DEFINE h == [hedge[r] EXCEPT !.stage = stage]
  <2>2. hedge' = [hedge EXCEPT ![r] = h]
    BY <2>1
  <2>3. hedge[r] \in Hedges /\ hedge[r].stage = "running" /\ UNCHANGED window
    BY <1>1 DEF HedgeEnds, Hedged
  <2>4. h \in Hedges /\ h.seg = hedge[r].seg /\ hedge[r] # NoHedge
    BY <2>3 DEF Hedges, NoHedge
  <2> HIDE DEF h
  <2>5. Windowed'
    BY <2>3 DEF Windowed, Good
  <2>6. Hedged'
    BY <2>2, <2>3, <2>4 DEF Hedged
  <2> QED
    BY <2>5, <2>6
<1>2. CASE Reopen(r)
  <2>1. window' = [window EXCEPT ![r] = Closed(r)] /\ hedge' = [hedge EXCEPT ![r] = NoHedge]
    BY <1>2 DEF Reopen
  <2>2. Good(r, Closed(r))
    BY Lengths DEF Closed, Good, Windows
  <2> QED
    BY <2>1, <2>2, NoHedgeIs, Shifted
<1> QED
  BY <1>1, <1>2

----------------------------------------------------------------------------
(* Where readers are, and what they have in hand.                          *)

LEMMA LengthIs ==
    ASSUME NEW r \in Readers
    PROVE  Length(r) \in Nat /\ \A s \in DOMAIN Cost[r] : (s - 1) * Units[r] \in 0 .. Length(r)
<1> DEFINE u == Units[r]
           n == Len(Cost[r])
<1>1. u \in Nat /\ n \in Nat /\ DOMAIN Cost[r] = 1 .. n
  BY Lengths
<1> HIDE DEF u, n
<1>2. n * u \in Nat
  BY <1>1
<1>3. ASSUME NEW s \in 1 .. n
      PROVE  (s - 1) * u \in 0 .. n * u
  <2>1. PICK k : k = s - 1
    OBVIOUS
  <2>2. k \in Nat /\ k <= n
    BY <1>1, <2>1
  <2>3. k * u \in Nat /\ k * u <= n * u
    BY <1>1, <2>2
  <2> QED
    BY <1>2, <2>1, <2>3
<1> QED
  BY <1>1, <1>2, <1>3 DEF Length, u, n

\* A read that returns goes no further than the end of its segment.
LEMMA ReturnsPlaces ==
    ASSUME Places, NEW r \in Readers, r \in reading, NEW units \in Nat,
           units <= Units[r] - Offset(r), Returns(r, units)
    PROVE  Places'
<1>1. /\ pos' = [pos EXCEPT ![r] = @ + units] /\ reading' = reading \ {r}
      /\ pos \in [Readers -> Nat]
  BY DEF Returns, Places
<1>2. pos[r] + Units[r] - Offset(r) <= Length(r) /\ Length(r) \in Nat /\ Offset(r) \in Nat /\ Units[r] \in Nat
  BY WhereReading, LengthIs, Lengths
<1>3. pos[r] + units <= Length(r)
  <2>1. PICK a, b, c, d : a = pos[r] /\ b = Units[r] /\ c = Offset(r) /\ d = Length(r)
    OBVIOUS
  <2> QED
    BY <1>1, <1>2, <2>1
<1>4. \A p \in Readers : Length(p)' = Length(p)
  BY DEF Length
<1> QED
  BY <1>1, <1>3, <1>4 DEF Places

LEMMA WaitPlaces ==
    ASSUME Places, Windowed, NEW r \in Readers, Wait(r)
    PROVE  Places'
<1> DEFINE seen == Len(Opened(r).pending[1].data)
<1>1. r \in reading
  BY DEF Wait, Needs
<1>2a. seen \in 0 .. Units[r]
  BY <1>1, SeenGood
<1>2. seen \in 0 .. Units[r] /\ Offset(r) \in Nat /\ Units[r] \in Nat
  <2> HIDE DEF seen
  <2> QED
    BY <1>1, <1>2a, WhereReading, Lengths
<1>3. \/ seen > Offset(r) /\ Returns(r, seen - Offset(r))
      \/ UNCHANGED <<pos, reading>>
  BY DEF Wait
<1> HIDE DEF seen
<1>4. CASE UNCHANGED <<pos, reading>>
  BY <1>4 DEF Places, Length
<1>5. CASE seen > Offset(r) /\ Returns(r, seen - Offset(r))
  <2>1. seen - Offset(r) \in Nat /\ seen - Offset(r) <= Units[r] - Offset(r)
    BY <1>2, <1>5
  <2> QED
    BY <1>1, <1>5, <2>1, ReturnsPlaces
<1> QED
  BY <1>3, <1>4, <1>5

LEMMA PollPlaces ==
    ASSUME Places, Windowed, NEW r \in Readers, Poll(r)
    PROVE  Places'
<1>1. CASE ReadInHand(r) \/ ReadHead(r)
  <2>1. r \in reading /\ Returns(r, Units[r] - Offset(r))
    BY <1>1 DEF ReadInHand, ReadHead, Needs, InHand
  <2>2. Units[r] - Offset(r) \in Nat
    BY <2>1, WhereReading, Lengths
  <2> QED
    BY <2>1, <2>2, ReturnsPlaces
<1>2. CASE ReadFails(r)
  BY <1>2 DEF ReadFails, Places, Length
<1>3. CASE Wait(r)
  BY <1>3, WaitPlaces
<1> QED
  BY <1>1, <1>2, <1>3 DEF Poll

LEMMA MovesPlaces ==
    ASSUME Places, NEW r \in Readers, StartRead(r) \/ Seek(r) \/ GiveUp(r) \/ Reopen(r)
    PROVE  Places'
<1>1. CASE StartRead(r)
  BY <1>1 DEF StartRead, Places, Length
<1>2. CASE GiveUp(r)
  BY <1>2 DEF GiveUp, Places, Length
<1>3. ASSUME NEW to \in 0 .. Length(r), r \notin reading, reading' = reading,
             pos' = [pos EXCEPT ![r] = to]
      PROVE  Places'
  <2>1. \A p \in Readers : Length(p)' = Length(p)
    BY DEF Length
  <2>2. Length(r) \in Nat
    BY LengthIs
  <2> QED
    BY <1>3, <2>1, <2>2 DEF Places
<1>4. CASE Seek(r)
  <2>1. PICK s \in DOMAIN Cost[r] : pos' = [pos EXCEPT ![r] = (s - 1) * Units[r]]
    BY <1>4 DEF Seek
  <2> QED
    BY <1>3, <1>4, <2>1, LengthIs DEF Seek
<1>5. CASE Reopen(r)
  <2>1. 0 \in 0 .. Length(r)
    BY LengthIs
  <2>2. r \notin reading /\ reading' = reading /\ pos' = [pos EXCEPT ![r] = 0]
    BY <1>5 DEF Reopen
  <2> QED
    BY <1>3, <2>1, <2>2
<1> QED
  BY <1>1, <1>2, <1>4, <1>5

LEMMA HandsStep ==
    ASSUME Places, Windowed, InHands, NEW r \in Readers, Poll(r) \/ Reopen(r)
    PROVE  InHands'
<1>1. Len(Cost[r]) \in Nat
  BY Lengths
<1>2. CASE ReadInHand(r)
  BY <1>2 DEF ReadInHand, InHands
<1>3. CASE Reopen(r)
  BY <1>1, <1>3 DEF Reopen, InHands, None
<1>4. ASSUME NEW h \in [seg : Nat, permit : BOOLEAN], h.seg <= Len(Cost[r]),
             PutAside(r), current' = [current EXCEPT ![r] = h]
      PROVE  InHands'
  BY <1>4 DEF InHands, PutAside
<1>5. CASE ReadFails(r) \/ Wait(r)
  <2>1. None \in [seg : Nat, permit : BOOLEAN] /\ None.seg <= Len(Cost[r])
    BY <1>1 DEF None
  <2>2. PutAside(r) /\ current' = [current EXCEPT ![r] = None]
    BY <1>5 DEF ReadFails, Wait
  <2> QED
    BY <1>4, <2>1, <2>2
<1>6. CASE ReadHead(r)
  <2> DEFINE head == Opened(r).pending[1]
  <2>1. head \in Fetches /\ head.seg = Index(r) /\ Index(r) \in 1 .. Len(Cost[r])
    BY <1>6, OpenedGood, WhereReading DEF ReadHead, Needs, Sound
  <2>2. PICK permit \in BOOLEAN : current' = [current EXCEPT ![r] = [seg |-> head.seg, permit |-> permit]]
    <3>1. current' = [current EXCEPT ![r] =
                        [seg |-> head.seg, permit |-> (head.stage = "done") /\ head.permit]]
      BY <1>6 DEF ReadHead
    <3> QED
      BY <3>1
  <2>3. PutAside(r)
    BY <1>6 DEF ReadHead
  <2> HIDE DEF head
  <2> DEFINE h == [seg |-> head.seg, permit |-> permit]
  <2>4. h \in [seg : Nat, permit : BOOLEAN] /\ h.seg <= Len(Cost[r])
    BY <1>1, <2>1, <2>2 DEF Fetches
  <2> HIDE DEF h
  <2>5. current' = [current EXCEPT ![r] = h]
    BY <2>2 DEF h
  <2> QED
    BY <1>4, <2>3, <2>4, <2>5
<1> QED
  BY <1>2, <1>3, <1>5, <1>6 DEF Poll

----------------------------------------------------------------------------
LEMMA InitWInv == Init => WInv
<1> SUFFICES ASSUME Init PROVE WInv
  OBVIOUS
<1>1. Places
  <2>1. \A r \in Readers : Length(r) \in Nat
    BY LengthIs
  <2> QED
    BY <2>1 DEF Init, Places
<1>2. Windowed
  <2>1. \A r \in Readers : Good(r, Closed(r))
    BY Lengths DEF Closed, Good, Windows
  <2> QED
    BY <2>1 DEF Init, Windowed, Good
<1>3. Hedged
  BY NoHedgeIs DEF Init, Hedged
<1>4. InHands
  <2>1. None \in [seg : Nat, permit : BOOLEAN] /\ None.seg = 0
    BY DEF None
  <2> QED
    BY <2>1, Lengths DEF Init, InHands
<1> QED
  BY <1>1, <1>2, <1>3, <1>4, WindowAssumption DEF Init, WInv

LEMMA SurprisesKept ==
    ASSUME surprises \in 0 .. Surprises, UNCHANGED surprises \/ Surprise
    PROVE  surprises' \in 0 .. Surprises
BY WindowAssumption DEF Surprise

LEMMA StepWInv ==
    ASSUME WInv, [Next]_vars
    PROVE  WInv'
<1>1. Places /\ Windowed /\ Hedged /\ InHands /\ surprises \in 0 .. Surprises
  BY DEF WInv
<1>2. CASE UNCHANGED vars
  BY <1>1, <1>2 DEF WInv, vars, reader, Places, Windowed, Hedged, InHands, Length, Good
<1>3. ASSUME NEW r \in Readers, Poll(r)
      PROVE  WInv'
  <2>1. Windowed' /\ Hedged'
    <3>1. CASE ReadInHand(r)
      BY <1>1, <3>1 DEF ReadInHand, Windowed, Hedged, Good
    <3> QED
      BY <1>1, <1>3, <3>1, ReadHeadStep, ReadFailsStep, WaitStep DEF Poll
  <2>2. UNCHANGED surprises \/ Surprise
    BY <1>3 DEF Poll, ReadInHand, ReadHead, ReadFails, Wait
  <2> QED
    BY <1>1, <1>3, <2>1, <2>2, PollPlaces, HandsStep, SurprisesKept DEF WInv
<1>4. ASSUME NEW r \in Readers, Task(r)
      PROVE  WInv'
  <2>1. PICK i \in DOMAIN window[r].pending :
          Acquire(r, i) \/ Enqueue(r, i) \/ Bypass(r, i) \/ Chunk(r, i) \/ Resend(r, i) \/ End(r, i)
    BY <1>4 DEF Task
  <2>2. Windowed' /\ Hedged'
    BY <1>1, <2>1, TaskStep
  <2>3. UNCHANGED reader /\ (UNCHANGED surprises \/ Surprise)
    BY <2>1 DEF Acquire, Enqueue, Bypass, Chunk, Resend, End
  <2>4. Places' /\ InHands'
    BY <1>1, <2>3 DEF reader, Places, InHands, Length
  <2> QED
    BY <1>1, <2>2, <2>3, <2>4, SurprisesKept DEF WInv
<1>5. ASSUME NEW r \in Readers, HedgeEnds(r)
      PROVE  WInv'
  <2>1. UNCHANGED reader /\ (UNCHANGED surprises \/ Surprise)
    BY <1>5 DEF HedgeEnds
  <2>2. Places' /\ InHands'
    BY <1>1, <2>1 DEF reader, Places, InHands, Length
  <2> QED
    BY <1>1, <1>5, <2>1, <2>2, OtherStep, SurprisesKept DEF WInv
<1>6. ASSUME NEW r \in Readers, StartRead(r) \/ Seek(r) \/ GiveUp(r) \/ Reopen(r)
      PROVE  WInv'
  <2>1. Windowed' /\ Hedged' /\ InHands'
    <3>1. CASE Reopen(r)
      BY <1>1, <3>1, OtherStep, HandsStep
    <3>2. CASE StartRead(r) \/ Seek(r) \/ GiveUp(r)
      <4>1. UNCHANGED <<current, previous, window, hedge>>
        BY <3>2 DEF StartRead, Seek, GiveUp
      <4> QED
        BY <1>1, <4>1 DEF Windowed, Hedged, InHands, Good
    <3> QED
      BY <1>6, <3>1, <3>2
  <2>2. UNCHANGED surprises \/ Surprise
    BY <1>6 DEF StartRead, Seek, GiveUp, Reopen
  <2> QED
    BY <1>1, <1>6, <2>1, <2>2, MovesPlaces, SurprisesKept DEF WInv
<1>7. ASSUME NEW f \in Files, StrayEnds(f)
      PROVE  WInv'
  BY <1>1, <1>7 DEF StrayEnds, WInv, reader, Places, Windowed, Hedged, InHands, Length, Good
<1> QED
  BY <1>2, <1>3, <1>4, <1>5, <1>6, <1>7 DEF Next

LEMMA WInvImplies ==
    ASSUME WInv
    PROVE  InPlace /\ AheadIsBudgeted /\ InOrder
<1>1. ASSUME NEW r \in Readers
      PROVE  /\ window[r].pending \in Seq(Fetches) /\ window[r].head \in Nat
             /\ Len(window[r].pending) = window[r].next - window[r].head
             /\ \A i \in DOMAIN window[r].pending :
                  Sound(r, window[r].head + i - 1, i = 1, window[r].pending[i])
             /\ DOMAIN window[r].pending \subseteq Nat \ {0}
             /\ \A i, j \in DOMAIN window[r].pending :
                  i < j /\ Waits(window[r].pending[i]) => Unasked(window[r].pending[j])
  BY GoodIs DEF WInv, Windowed, Good
<1>2. Aligned
  BY <1>1 DEF Aligned, WInv, Hedged, Sound
<1>3. StreamedInOrder
  BY <1>1 DEF StreamedInOrder, Sound, InPart
<1>4. AheadIsBudgeted
  <2> SUFFICES ASSUME NEW r \in Readers, NEW i \in DOMAIN window[r].pending, i > 1,
                      window[r].pending[i].stage \in {"running", "done"},
                      <<r, window[r].pending[i].seg>> \notin Holes
               PROVE  window[r].pending[i].permit
    BY DEF AheadIsBudgeted
  <2>1. Sound(r, window[r].head + i - 1, i = 1, window[r].pending[i]) /\ i # 1
    BY <1>1
  <2> QED
    BY <2>1 DEF Sound
<1>5. InOrder
  BY <1>1 DEF InOrder, Unasked
<1> QED
  BY <1>2, <1>3, <1>4, <1>5 DEF InPlace

\* A reader's fetches are for the segments from its head on, a hedge races the head, and
\* what a read is given is the beginning of its segment, each unit once (lib.rs:306-322,
\* 357, 549-569): for any readers, through seeks, failures and bodies sent again.
THEOREM AlwaysInPlace == Spec => []InPlace
<1>1. WInv => InPlace
  BY WInvImplies
<1> QED
  BY <1>1, InitWInv, StepWInv, PTL DEF Spec

\* Every reader is within its file, and what it has in hand and races are segments of it.
THEOREM WindowTypes == Spec => []TypeOK
<1>1. WInv => TypeOK
  <2> SUFFICES ASSUME WInv PROVE TypeOK
    OBVIOUS
  <2>1. surprises \in 0 .. Surprises
    BY DEF WInv
  <2>2. ASSUME NEW r \in Readers
        PROVE  /\ pos[r] \in 0 .. Length(r) /\ reading \subseteq Readers
               /\ current[r] \in [seg : 0 .. Len(Cost[r]), permit : BOOLEAN]
               /\ previous[r] \in 0 .. Len(Cost[r])
               /\ hedge[r].stage \in {"none", "running", "done", "failed"}
    <3>1. Len(Cost[r]) \in Nat /\ Length(r) \in Nat
      BY Lengths, LengthIs
    <3>2. pos[r] \in 0 .. Length(r) /\ reading \subseteq Readers
      BY <3>1 DEF WInv, Places
    <3>3. /\ current[r] \in [seg : 0 .. Len(Cost[r]), permit : BOOLEAN]
          /\ previous[r] \in 0 .. Len(Cost[r])
      BY <3>1 DEF WInv, InHands
    <3>4. hedge[r].stage \in {"none", "running", "done", "failed"}
      BY DEF WInv, Hedged, Hedges
    <3> QED
      BY <3>2, <3>3, <3>4
  <2> QED
    BY <2>1, <2>2 DEF TypeOK
<1> QED
  BY <1>1, InitWInv, StepWInv, PTL DEF Spec

----------------------------------------------------------------------------
(* The budget, piece by piece.                                             *)

ByFetch == <<"fetch", 1>>

InHandOf(s) == [seg |-> s, permit |-> TRUE]

\* The segments whose fetches hold budget.
Budgeted(w) == {w.pending[i].seg : i \in {i \in DOMAIN w.pending : w.pending[i].permit}}

Pieces(S) == UNION {{f} \X S[f] \X (1 .. Cost[f[1]][f[2]]) : f \in Files}

AllShares == [f \in Files |-> Shares(f[1], f[2])]

LEMMA HeldIs == Held = Pieces(AllShares)
BY DEF Held, Pieces, AllShares

LEMMA PieceIs ==
    ASSUME NEW S
    PROVE  \A p : p \in Pieces(S) <=>
             \E f \in Files : \E h \in S[f] : \E u \in 1 .. Cost[f[1]][f[2]] : p = <<f, h, u>>
BY DEF Pieces

\* A share that somebody takes over from a fetch: the pieces are no more than before.
LEMMA Handed ==
    ASSUME NEW S, NEW T, IsFiniteSet(Pieces(S)),
           \A f \in Files : \A h \in T[f] :
             \/ h \in S[f]
             \/ /\ ByFetch \in S[f] /\ ByFetch \notin T[f]
                /\ \A k \in T[f] : k \in S[f] \/ k = h
    PROVE  IsFiniteSet(Pieces(T)) /\ Cardinality(Pieces(T)) <= Cardinality(Pieces(S))
<1> DEFINE g == [p \in Pieces(T) |-> IF p \in Pieces(S) THEN p ELSE <<p[1], ByFetch, p[3]>>]
<1>1. ASSUME NEW p \in Pieces(T), p \notin Pieces(S)
      PROVE  /\ <<p[1], ByFetch, p[3]>> \in Pieces(S) /\ <<p[1], ByFetch, p[3]>> \notin Pieces(T)
             /\ \A q \in Pieces(T) : q \notin Pieces(S) /\ q[1] = p[1] /\ q[3] = p[3] => q = p
  <2>1. PICK f, h, u : f \in Files /\ h \in T[f] /\ u \in 1 .. Cost[f[1]][f[2]] /\ p = <<f, h, u>>
    BY PieceIs
  <2>2. h \notin S[f]
    BY <1>1, <2>1, PieceIs
  <2>3. /\ ByFetch \in S[f] /\ ByFetch \notin T[f]
        /\ \A k \in T[f] : k \in S[f] \/ k = h
    BY <2>1, <2>2
  <2>4. <<f, ByFetch, u>> \in Pieces(S)
    BY <2>1, <2>3, PieceIs
  <2>5. <<f, ByFetch, u>> \notin Pieces(T)
    <3> SUFFICES ASSUME <<f, ByFetch, u>> \in Pieces(T) PROVE FALSE
      OBVIOUS
    <3>1. PICK f2, h2, u2 : f2 \in Files /\ h2 \in T[f2] /\ u2 \in 1 .. Cost[f2[1]][f2[2]]
                              /\ <<f, ByFetch, u>> = <<f2, h2, u2>>
      BY PieceIs
    <3>2. f2 = f /\ h2 = ByFetch
      BY <3>1
    <3> QED
      BY <2>3, <3>1, <3>2
  <2>6. ASSUME NEW q \in Pieces(T), q \notin Pieces(S), q[1] = p[1], q[3] = p[3]
        PROVE  q = p
    <3>1. PICK f2, h2, u2 : f2 \in Files /\ h2 \in T[f2] /\ u2 \in 1 .. Cost[f2[1]][f2[2]] /\ q = <<f2, h2, u2>>
      BY PieceIs
    <3>2. f2 = f /\ u2 = u
      BY <2>1, <2>6, <3>1
    <3>3. h2 \notin S[f]
      BY <2>6, <3>1, <3>2, PieceIs
    <3>4. h2 = h
      BY <2>3, <3>1, <3>2, <3>3
    <3> QED
      BY <2>1, <3>1, <3>2, <3>4
  <2> QED
    BY <2>1, <2>4, <2>5, <2>6
<1>2. g \in [Pieces(T) -> Pieces(S)]
  BY <1>1
<1>3. ASSUME NEW p \in Pieces(T), NEW q \in Pieces(T), g[p] = g[q]
      PROVE  p = q
  <2>1. CASE p \in Pieces(S) /\ q \in Pieces(S)
    BY <1>3, <2>1
  <2>2. CASE p \in Pieces(S) /\ q \notin Pieces(S)
    <3>1. p = <<q[1], ByFetch, q[3]>>
      BY <1>3, <2>2
    <3> QED
      BY <1>1, <2>2, <3>1
  <2>3. CASE p \notin Pieces(S) /\ q \in Pieces(S)
    <3>1. q = <<p[1], ByFetch, p[3]>>
      BY <1>3, <2>3
    <3> QED
      BY <1>1, <2>3, <3>1
  <2>4. CASE p \notin Pieces(S) /\ q \notin Pieces(S)
    <3>1. <<p[1], ByFetch, p[3]>> = <<q[1], ByFetch, q[3]>>
      BY <1>3, <2>4
    <3>2. p[1] = q[1] /\ p[3] = q[3]
      BY <3>1
    <3> QED
      BY <1>1, <2>4, <3>2
  <2> QED
    BY <2>1, <2>2, <2>3, <2>4
<1> HIDE DEF g
<1>4. g \in Injection(Pieces(T), Pieces(S))
  BY <1>2, <1>3 DEF Injection, IsInjective
<1> QED
  BY <1>4, FS_Injection

\* A fetch takes its share.
LEMMA Taken ==
    ASSUME NEW S, NEW T, IsFiniteSet(Pieces(S)), NEW g \in Files, NEW c \in Nat,
           c = Cost[g[1]][g[2]],
           \A f \in Files : \A h \in T[f] : h \in S[f] \/ (f = g /\ h = ByFetch)
    PROVE  IsFiniteSet(Pieces(T)) /\ Cardinality(Pieces(T)) <= Cardinality(Pieces(S)) + c
<1> DEFINE new == {<<g, ByFetch, u>> : u \in 1 .. c}
           m == [u \in 1 .. c |-> <<g, ByFetch, u>>]
<1>1. IsFiniteSet(1 .. c) /\ Cardinality(1 .. c) = c
  <2>1. 1 \in Int /\ c \in Int /\ (1 > c => c = 0) /\ c - 1 + 1 = c
    OBVIOUS
  <2>2. IsFiniteSet(1 .. c) /\ Cardinality(1 .. c) = IF 1 > c THEN 0 ELSE c - 1 + 1
    BY <2>1, FS_Interval
  <2> QED
    BY <2>1, <2>2
<1>2. m \in Surjection(1 .. c, new)
  BY DEF Surjection
<1>3. IsFiniteSet(new) /\ Cardinality(new) <= c
  BY <1>1, <1>2, FS_Surjection
<1>4. \A p \in Pieces(T) : p \in Pieces(S) \cup new
  <2> SUFFICES ASSUME NEW p \in Pieces(T), p \notin Pieces(S)
               PROVE  p \in new
    OBVIOUS
  <2>1. PICK f, h, u : f \in Files /\ h \in T[f] /\ u \in 1 .. Cost[f[1]][f[2]] /\ p = <<f, h, u>>
    BY PieceIs
  <2>2. h \notin S[f]
    BY <2>1, PieceIs
  <2> QED
    BY <2>1, <2>2
<1> HIDE DEF new
<1>5. /\ IsFiniteSet(Pieces(S) \cup new)
      /\ Cardinality(Pieces(S) \cup new)
           = Cardinality(Pieces(S)) + Cardinality(new) - Cardinality(Pieces(S) \cap new)
  BY <1>3, FS_Union
<1>6. /\ Cardinality(Pieces(S)) \in Nat /\ Cardinality(new) \in Nat
      /\ Cardinality(Pieces(S) \cap new) \in Nat
  BY <1>3, FS_CardinalityType, FS_Intersection
<1>7. IsFiniteSet(Pieces(T)) /\ Cardinality(Pieces(T)) <= Cardinality(Pieces(S) \cup new)
  BY <1>4, <1>5, FS_Subset
<1>8. Cardinality(Pieces(T)) \in Nat
  BY <1>7, FS_CardinalityType
<1> QED
  BY <1>3, <1>5, <1>6, <1>7, <1>8

\* What is held is never more than there is.
InBudget ==
    /\ strays \in [Files -> Nat]
    /\ IsFiniteSet(Held) /\ Cardinality(Held) <= Capacity

LEMMA FilesIs ==
    /\ \A f \in Files : /\ f[1] \in Readers /\ f[2] \in DOMAIN Cost[f[1]] /\ f = <<f[1], f[2]>>
                        /\ Cost[f[1]][f[2]] \in Nat
    /\ \A r \in Readers : \A s \in DOMAIN Cost[r] : <<r, s>> \in Files
<1>1. \A f \in Files : f[1] \in Readers /\ f[2] \in DOMAIN Cost[f[1]] /\ f = <<f[1], f[2]>>
  BY DEF Files
<1>2. \A r \in Readers : \A s \in DOMAIN Cost[r] : Cost[r][s] \in Nat
  BY Lengths
<1>3. \A r \in Readers : \A s \in DOMAIN Cost[r] : <<r, s>> \in Files
  BY DEF Files
<1> QED
  BY <1>1, <1>2, <1>3

SharesAsTold ==
    \A r \in Readers : \A s : \A h : h \in Shares(r, s) <=>
        \/ h = ByFetch /\ s \in Budgeted(window[r])
        \/ h = <<"in hand", 1>> /\ current[r] = InHandOf(s)
        \/ \E k \in 1 .. strays[<<r, s>>] : h = <<"stray", k>>

LEMMA ShareIs == window \in [Readers -> Windows] => SharesAsTold
<1> SUFFICES ASSUME window \in [Readers -> Windows], NEW r \in Readers, NEW s
             PROVE  \A h : h \in Shares(r, s) <=>
                      \/ h = ByFetch /\ s \in Budgeted(window[r])
                      \/ h = <<"in hand", 1>> /\ current[r] = InHandOf(s)
                      \/ \E k \in 1 .. strays[<<r, s>>] : h = <<"stray", k>>
  BY DEF SharesAsTold
<1>1. (\E w \in Range(window[r].pending) : w.seg = s /\ w.permit) <=> s \in Budgeted(window[r])
  BY DEF Budgeted, Range
<1>2. \A h : h \in {<<"fetch", 1>> : fetch \in {w \in Range(window[r].pending) : w.seg = s /\ w.permit}}
             <=> h = ByFetch /\ s \in Budgeted(window[r])
  BY <1>1 DEF ByFetch
<1>3. \A h : h \in {<<"in hand", 1>> : hand \in {current[r]} \cap {[seg |-> s, permit |-> TRUE]}}
             <=> h = <<"in hand", 1>> /\ current[r] = InHandOf(s)
  BY DEF InHandOf
<1>4. \A h : h \in {"stray"} \X (1 .. strays[<<r, s>>])
             <=> \E k \in 1 .. strays[<<r, s>>] : h = <<"stray", k>>
  OBVIOUS
<1> QED
  BY <1>2, <1>3, <1>4 DEF Shares

\* A segment's budget stays where it is, is given back, or passes from the fetch to the reader
\* or to the fetch's remains.
Kept(r, s) ==
    /\ s \in Budgeted(window[r])' => s \in Budgeted(window[r])
    /\ \/ current'[r] = InHandOf(s) => current[r] = InHandOf(s)
       \/ /\ s \in Budgeted(window[r]) /\ s \notin Budgeted(window[r])'
          /\ strays'[<<r, s>>] <= strays[<<r, s>>]
    /\ \/ strays'[<<r, s>>] <= strays[<<r, s>>]
       \/ /\ s \in Budgeted(window[r]) /\ s \notin Budgeted(window[r])'
          /\ strays'[<<r, s>>] = strays[<<r, s>>] + 1
          /\ current'[r] = InHandOf(s) => current[r] = InHandOf(s)

LEMMA Within ==
    ASSUME NEW n \in Nat, NEW m \in Nat, NEW j \in 1 .. m
    PROVE  (m <= n => j \in 1 .. n) /\ (m = n + 1 => j \in 1 .. n \/ j = n + 1)
OBVIOUS

ByReader == <<"in hand", 1>>

\* The shares of a segment, of whose fetches n remain.
Consists(S, n) ==
    /\ \A k \in S : k = ByFetch \/ k = ByReader \/ \E j \in 1 .. n : k = <<"stray", j>>
    /\ \A j \in 1 .. n : <<"stray", j>> \in S

\* The shares of a segment before (S) and after (T).
Passes(S, T, n, m) ==
    /\ ByFetch \in T => ByFetch \in S
    /\ \/ ByReader \in T => ByReader \in S
       \/ ByFetch \in S /\ ByFetch \notin T /\ m <= n
    /\ \/ m <= n
       \/ ByFetch \in S /\ ByFetch \notin T /\ m = n + 1 /\ (ByReader \in T => ByReader \in S)

LEMMA Passed ==
    ASSUME NEW S, NEW T, NEW n \in Nat, NEW m \in Nat,
           Consists(S, n), Consists(T, m), Passes(S, T, n, m), NEW h \in T
    PROVE  \/ h \in S
           \/ /\ ByFetch \in S /\ ByFetch \notin T
              /\ \A k \in T : k \in S \/ k = h
<1>1. ASSUME NEW k \in T
      PROVE  k = ByFetch \/ k = ByReader \/ \E j \in 1 .. m : k = <<"stray", j>>
  BY DEF Consists
<1>2. ASSUME NEW k \in T, NEW j \in 1 .. m, k = <<"stray", j>>
      PROVE  (m <= n => k \in S) /\ (m = n + 1 => k \in S \/ k = <<"stray", n + 1>>)
  <2>1. (m <= n => j \in 1 .. n) /\ (m = n + 1 => j \in 1 .. n \/ j = n + 1)
    BY Within
  <2> QED
    BY <1>2, <2>1 DEF Consists
<1>3. CASE (ByReader \in T => ByReader \in S) /\ m <= n
  BY <1>1, <1>2, <1>3 DEF Passes
<1>4. CASE ~(ByReader \in T => ByReader \in S)
  <2>1. ByFetch \in S /\ ByFetch \notin T /\ m <= n
    BY <1>4 DEF Passes
  <2>2. \A k \in T : k \in S \/ k = ByReader
    BY <1>1, <1>2, <2>1
  <2> QED
    BY <1>4, <2>1, <2>2
<1>5. CASE ~(m <= n)
  <2>1. ByFetch \in S /\ ByFetch \notin T /\ m = n + 1 /\ (ByReader \in T => ByReader \in S)
    BY <1>5 DEF Passes
  <2>2. \A k \in T : k \in S \/ k = <<"stray", n + 1>>
    BY <1>1, <1>2, <2>1
  <2> QED
    BY <2>1, <2>2
<1> QED
  BY <1>3, <1>4, <1>5

SharesConsist ==
    \A r \in Readers : \A s :
      /\ Consists(Shares(r, s), strays[<<r, s>>])
      /\ ByFetch \in Shares(r, s) <=> s \in Budgeted(window[r])
      /\ ByReader \in Shares(r, s) <=> current[r] = InHandOf(s)

LEMMA SharesDo == window \in [Readers -> Windows] => SharesConsist
<1> SUFFICES ASSUME window \in [Readers -> Windows], NEW r \in Readers, NEW s
             PROVE  /\ Consists(Shares(r, s), strays[<<r, s>>])
                    /\ ByFetch \in Shares(r, s) <=> s \in Budgeted(window[r])
                    /\ ByReader \in Shares(r, s) <=> current[r] = InHandOf(s)
  BY DEF SharesConsist
<1>1. \A h : h \in Shares(r, s) <=>
             \/ h = ByFetch /\ s \in Budgeted(window[r])
             \/ h = ByReader /\ current[r] = InHandOf(s)
             \/ \E k \in 1 .. strays[<<r, s>>] : h = <<"stray", k>>
  BY ShareIs DEF SharesAsTold, ByReader
<1>2. ByFetch # ByReader /\ \A j : <<"stray", j>> # ByFetch /\ <<"stray", j>> # ByReader
  BY DEF ByFetch, ByReader
<1>3. ByFetch \in Shares(r, s) <=> s \in Budgeted(window[r])
  BY <1>1, <1>2
<1>4. ByReader \in Shares(r, s) <=> current[r] = InHandOf(s)
  BY <1>1, <1>2
<1> QED
  BY <1>1, <1>3, <1>4 DEF Consists

LEMMA KeptShares ==
    ASSUME Windowed, Windowed', strays \in [Files -> Nat], strays' \in [Files -> Nat],
           NEW r \in Readers, NEW s \in DOMAIN Cost[r], Kept(r, s),
           NEW S, S = Shares(r, s), NEW T, T = Shares(r, s)', NEW h \in T
    PROVE  \/ h \in S
           \/ /\ ByFetch \in S /\ ByFetch \notin T
              /\ \A k \in T : k \in S \/ k = h
<1>1. window \in [Readers -> Windows] /\ window' \in [Readers -> Windows]
  BY DEF Windowed
<1>2. PICK n, m : n = strays[<<r, s>>] /\ m = strays'[<<r, s>>]
  OBVIOUS
<1>3. n \in Nat /\ m \in Nat
  BY <1>2, FilesIs
<1>4. /\ Consists(S, n) /\ (ByFetch \in S <=> s \in Budgeted(window[r]))
      /\ ByReader \in S <=> current[r] = InHandOf(s)
  <2>1. SharesConsist
    BY <1>1, SharesDo
  <2> QED
    BY <1>2, <2>1 DEF SharesConsist
<1>5. /\ Consists(T, m) /\ (ByFetch \in T <=> s \in Budgeted(window[r])')
      /\ ByReader \in T <=> current'[r] = InHandOf(s)
  <2>1. SharesConsist'
    <3>1. (window \in [Readers -> Windows])' => SharesConsist'
      BY SharesDo, PTL
    <3> QED
      BY <1>1, <3>1
  <2>2. /\ Consists(Shares(r, s)', strays'[<<r, s>>])
        /\ ByFetch \in Shares(r, s)' <=> s \in Budgeted(window[r])'
        /\ ByReader \in Shares(r, s)' <=> current'[r] = InHandOf(s)
    BY <2>1 DEF SharesConsist
  <2> QED
    BY <1>2, <2>2
<1>6. Passes(S, T, n, m)
  BY <1>2, <1>4, <1>5 DEF Kept, Passes
<1> QED
  BY <1>3, <1>4, <1>5, <1>6, Passed

LEMMA KeptInBudget ==
    ASSUME Windowed, Windowed', InBudget, strays' \in [Files -> Nat],
           \A r \in Readers : \A s \in DOMAIN Cost[r] : Kept(r, s)
    PROVE  InBudget'
<1> DEFINE S == AllShares
           T == AllShares'
<1>1. IsFiniteSet(Pieces(S)) /\ Cardinality(Pieces(S)) <= Capacity
  BY HeldIs DEF InBudget
<1>2. Held' = Pieces(T)
  <2>1. (Held = Pieces(AllShares))'
    BY HeldIs, PTL
  <2> QED
    BY <2>1 DEF Pieces
<1>3. ASSUME NEW f \in Files, NEW h \in T[f]
      PROVE  \/ h \in S[f]
             \/ /\ ByFetch \in S[f] /\ ByFetch \notin T[f]
                /\ \A k \in T[f] : k \in S[f] \/ k = h
  <2>1. f[1] \in Readers /\ f[2] \in DOMAIN Cost[f[1]]
    BY FilesIs
  <2>2. S[f] = Shares(f[1], f[2]) /\ T[f] = Shares(f[1], f[2])'
    BY DEF AllShares
  <2>3. h \in Shares(f[1], f[2])' /\ Kept(f[1], f[2]) /\ strays \in [Files -> Nat]
    BY <1>3, <2>1, <2>2 DEF InBudget
  <2> QED
    BY <1>3, <2>1, <2>2, <2>3, KeptShares
<1> HIDE DEF S, T
<1>4. IsFiniteSet(Pieces(T)) /\ Cardinality(Pieces(T)) <= Cardinality(Pieces(S))
  BY <1>1, <1>3, Handed
<1>5. Cardinality(Pieces(T)) \in Nat /\ Cardinality(Pieces(S)) \in Nat /\ Capacity \in Nat
  BY <1>1, <1>4, FS_CardinalityType, WindowAssumption
<1>6. Cardinality(Pieces(T)) <= Capacity
  BY <1>1, <1>4, <1>5
<1> QED
  BY <1>2, <1>4, <1>6 DEF InBudget

----------------------------------------------------------------------------
(* What a step does to the budget that is held.                            *)

\* Of the fetches that are cancelled, one a segment at most goes on with its budget.
LEMMA Remains ==
    ASSUME Windowed, strays \in [Files -> Nat], NEW r \in Readers, NEW cut, Cancel(r, cut),
           \A c \in cut : c.permit => \E i \in DOMAIN window[r].pending : c = window[r].pending[i]
    PROVE  /\ strays' \in [Files -> Nat]
           /\ \A f \in Files :
                \/ strays'[f] <= strays[f]
                \/ /\ strays'[f] = strays[f] + 1
                   /\ \E c \in cut : f = <<r, c.seg>> /\ c.permit
<1> DEFINE Left(f) == {c \in cut : f = <<r, c.seg>> /\ c.permit
                                     /\ c.stage = "running" /\ c.read = Units[r]}
<1>1. strays' = [f \in Files |-> strays[f] + Cardinality(Left(f))]
  BY DEF Cancel
<1>2. ASSUME NEW f \in Files, NEW c \in Left(f), NEW d \in Left(f)
      PROVE  c = d
  <2>1. PICK i \in DOMAIN window[r].pending : c = window[r].pending[i]
    OBVIOUS
  <2>2. PICK j \in DOMAIN window[r].pending : d = window[r].pending[j]
    OBVIOUS
  <2>3. c.seg = window[r].head + i - 1 /\ d.seg = window[r].head + j - 1
    BY <2>1, <2>2 DEF Windowed, Good, Sound
  <2>4. c.seg = d.seg
    OBVIOUS
  <2>4a. window[r].head \in Nat /\ i \in Nat /\ j \in Nat
    BY GoodIs DEF Windowed
  <2>5. i = j
    BY <2>3, <2>4, <2>4a
  <2> QED
    BY <2>1, <2>2, <2>5
<1>3. ASSUME NEW f \in Files
      PROVE  \/ Cardinality(Left(f)) = 0
             \/ Cardinality(Left(f)) = 1 /\ \E c \in cut : f = <<r, c.seg>> /\ c.permit
  <2>1. CASE Left(f) = {}
    <3>1. Cardinality({}) = 0
      BY FS_EmptySet
    <3> QED
      BY <2>1, <3>1
  <2>2. CASE Left(f) # {}
    <3>1. PICK c \in Left(f) : TRUE
      BY <2>2
    <3>2. Left(f) = {c}
      BY <1>2, <3>1
    <3>3. Cardinality({c}) = 1
      BY FS_Singleton
    <3> QED
      BY <3>1, <3>2, <3>3
  <2> QED
    BY <2>1, <2>2
<1> HIDE DEF Left
<1>4. ASSUME NEW f \in Files
      PROVE  /\ strays'[f] \in Nat
             /\ \/ strays'[f] <= strays[f]
                \/ /\ strays'[f] = strays[f] + 1
                   /\ \E c \in cut : f = <<r, c.seg>> /\ c.permit
  <2>1. strays'[f] = strays[f] + Cardinality(Left(f)) /\ strays[f] \in Nat
    BY <1>1
  <2> QED
    BY <1>3, <2>1
<1>5. strays' \in [Files -> Nat]
  <2>1. DOMAIN strays' = Files /\ strays' = [f \in DOMAIN strays' |-> strays'[f]]
    BY <1>1
  <2> QED
    BY <1>4, <2>1
<1> QED
  BY <1>4, <1>5

LEMMA AlignBudget ==
    ASSUME NEW r \in Readers, NEW w, Good(r, w), NEW index \in Nat \ {0},
           NEW s \in Budgeted(Align(w, index))
    PROVE  s \in Budgeted(w) /\ ~Outside(w, index) /\ s >= index
<1> DEFINE v == Align(w, index)
<1>1. w \in Windows /\ Len(w.pending) = w.next - w.head
  BY DEF Good
<1>2. /\ v \in Windows /\ v.head = index
      /\ \A i \in DOMAIN v.pending :
           /\ i + (index - w.head) \in DOMAIN w.pending
           /\ v.pending[i] = w.pending[i + (index - w.head)]
  BY <1>1, AlignIs
<1>3. Good(r, v)
  BY AlignGood
<1>4. Outside(w, index) => DOMAIN v.pending = {}
  BY DEF Align
<1> HIDE DEF v
<1>5. PICK i \in DOMAIN v.pending : s = v.pending[i].seg /\ v.pending[i].permit
  BY DEF Budgeted, v
<1>6. s \in Budgeted(w)
  BY <1>2, <1>5 DEF Budgeted
<1>7. s = index + i - 1 /\ i \in Nat \ {0}
  <2>1. Sound(r, v.head + i - 1, i = 1, v.pending[i])
    BY <1>3 DEF Good
  <2>2. i \in Nat \ {0}
    BY <1>3, GoodIs
  <2> QED
    BY <1>2, <1>5, <2>1, <2>2 DEF Sound
<1> QED
  BY <1>4, <1>5, <1>6, <1>7

LEMMA FillBudget ==
    ASSUME NEW r \in Readers, NEW w, Good(r, w)
    PROVE  Budgeted(Fill(r, w)) \subseteq Budgeted(w)
<1> DEFINE v == Fill(r, w)
<1>1. \A i \in DOMAIN v.pending :
           \/ i \in DOMAIN w.pending /\ v.pending[i] = w.pending[i]
           \/ i \notin DOMAIN w.pending /\ v.pending[i] = Spawned(r, w.head + i - 1)
  BY FillGood
<1>2. DOMAIN v.pending \subseteq Nat \ {0} /\ w.head \in Nat
  BY FillGood, GoodIs
<1> HIDE DEF v
<1>3. ASSUME NEW i \in DOMAIN v.pending, v.pending[i].permit
      PROVE  i \in DOMAIN w.pending /\ v.pending[i] = w.pending[i]
  <2>1. w.head + i - 1 \in Nat
    BY <1>2
  <2>2. ~Spawned(r, w.head + i - 1).permit
    BY <2>1, SpawnedIs DEF Unasked
  <2> QED
    BY <1>1, <1>3, <2>2
<1> QED
  BY <1>3 DEF Budgeted, v

LEMMA PoppedBudget ==
    ASSUME NEW r \in Readers, NEW w, Good(r, w), w.pending # <<>>
    PROVE  Budgeted(Popped(w)) \subseteq Budgeted(w) \ {w.head}
<1>1. Good(r, Popped(w)) /\ Popped(w).head = w.head + 1
  BY PoppedGood
<1>2. \A i \in DOMAIN Popped(w).pending :
        i + 1 \in DOMAIN w.pending /\ Popped(w).pending[i] = w.pending[i + 1]
  <2>1. w.pending \in Seq(Fetches) /\ Popped(w).pending = Tail(w.pending)
    BY GoodIs DEF Popped
  <2> QED
    BY <2>1
<1>3. ASSUME NEW s \in Budgeted(Popped(w))
      PROVE  s \in Budgeted(w) /\ s # w.head
  <2>1. PICK i \in DOMAIN Popped(w).pending : s = Popped(w).pending[i].seg /\ Popped(w).pending[i].permit
    BY DEF Budgeted
  <2>2. s \in Budgeted(w)
    BY <1>2, <2>1 DEF Budgeted
  <2>3. s = w.head + 1 + i - 1 /\ i \in Nat \ {0} /\ w.head \in Nat
    <3>1. Sound(r, Popped(w).head + i - 1, i = 1, Popped(w).pending[i])
      BY <1>1 DEF Good
    <3>2. i \in Nat \ {0} /\ w.head \in Nat
      BY <1>1, GoodIs
    <3> QED
      BY <1>1, <2>1, <3>1, <3>2 DEF Sound
  <2> QED
    BY <2>2, <2>3
<1> QED
  BY <1>3

\* Changes to fetches that give none of them budget.
LEMMA SameBudget ==
    ASSUME NEW r \in Readers, NEW w, NEW v, Good(r, w), Good(r, v), v.head = w.head,
           DOMAIN v.pending = DOMAIN w.pending,
           \A i \in DOMAIN w.pending : v.pending[i].permit => w.pending[i].permit
    PROVE  Budgeted(v) \subseteq Budgeted(w)
<1>1. \A i \in DOMAIN w.pending : v.pending[i].seg = w.pending[i].seg
  BY GoodIs DEF Sound
<1> QED
  BY <1>1 DEF Budgeted

LEMMA OpenedBudget ==
    ASSUME Places, Windowed, NEW r \in Readers, r \in reading,
           NEW s \in Budgeted(Opened(r))
    PROVE  s \in Budgeted(window[r]) /\ ~Outside(window[r], Index(r)) /\ s >= Index(r)
<1> DEFINE a == Align(window[r], Index(r))
           f == Fill(r, a)
           w == Urge(f)
<1>1. Index(r) \in Nat \ {0} /\ Index(r) <= Len(Cost[r])
  BY WhereReading, Lengths
<1>2. Good(r, a) /\ a.head = Index(r)
  BY <1>1, AlignGood, AlignIs DEF Windowed, Good
<1>2a. s \in Budgeted(a) => s \in Budgeted(window[r]) /\ ~Outside(window[r], Index(r)) /\ s >= Index(r)
  BY <1>1, AlignBudget DEF Windowed
<1> HIDE DEF a
<1>3. Good(r, f) /\ f.pending # <<>> /\ Budgeted(f) \subseteq Budgeted(a)
  BY <1>1, <1>2, FillGood, FillBudget
<1> HIDE DEF f
<1>4. /\ Good(r, w) /\ w.head = f.head /\ DOMAIN w.pending = DOMAIN f.pending
      /\ \A j \in DOMAIN f.pending : w.pending[j].permit = f.pending[j].permit
  BY <1>3, UrgeGood
<1>5. Opened(r) = w
  BY DEF Opened, w, f, a
<1> HIDE DEF w
<1>6. Budgeted(w) \subseteq Budgeted(f)
  BY <1>3, <1>4, SameBudget
<1> QED
  BY <1>2a, <1>3, <1>5, <1>6

LEMMA CutBudget ==
    ASSUME Windowed, NEW r \in Readers, NEW index \in Nat,
           NEW c \in Cut(window[r], index), c.permit
    PROVE  /\ \E i \in DOMAIN window[r].pending : c = window[r].pending[i]
           /\ c.seg \in Budgeted(window[r])
           /\ Outside(window[r], index) \/ c.seg < index
<1> DEFINE w == window[r]
<1>1. PICK i \in DOMAIN w.pending : c = w.pending[i] /\ (Outside(w, index) \/ i <= index - w.head)
  BY DEF Cut
<1>2. c.seg \in Budgeted(w)
  BY <1>1 DEF Budgeted
<1>3. c.seg = w.head + i - 1 /\ i \in Nat /\ w.head \in Nat
  <2>1. Sound(r, w.head + i - 1, i = 1, w.pending[i])
    BY DEF Windowed, Good
  <2>2. i \in Nat /\ w.head \in Nat
    BY GoodIs DEF Windowed
  <2> QED
    BY <1>1, <2>1, <2>2 DEF Sound
<1> QED
  BY <1>1, <1>2, <1>3

\* A read that has another segment cut at its place, and takes the head's budget or none.
LEMMA PollBudget ==
    ASSUME Places, Windowed, Windowed', InBudget, NEW r \in Readers, r \in reading,
           NEW v, window' = [window EXCEPT ![r] = v], Budgeted(v) \subseteq Budgeted(Opened(r)),
           NEW h, current' = [current EXCEPT ![r] = h], current \in [Readers -> [seg : Nat, permit : BOOLEAN]],
           \A s : h = InHandOf(s) => s \in Budgeted(Opened(r)) /\ s \notin Budgeted(v),
           NEW others, \A c \in others : ~c.permit,
           Cancel(r, Cut(window[r], Index(r)) \cup others)
    PROVE  InBudget'
<1> DEFINE cut == Cut(window[r], Index(r)) \cup others
<1>1. Index(r) \in Nat
  BY WhereReading, Lengths
<1>2. \A c \in cut : c.permit =>
        /\ \E i \in DOMAIN window[r].pending : c = window[r].pending[i]
        /\ c.seg \in Budgeted(window[r])
        /\ Outside(window[r], Index(r)) \/ c.seg < Index(r)
  BY <1>1, CutBudget
<1>3. strays \in [Files -> Nat]
  BY DEF InBudget
<1> HIDE DEF cut
<1>4. /\ strays' \in [Files -> Nat]
      /\ \A f \in Files :
           \/ strays'[f] <= strays[f]
           \/ /\ strays'[f] = strays[f] + 1
              /\ \E c \in cut : f = <<r, c.seg>> /\ c.permit
  BY <1>2, <1>3, Remains DEF cut
<1>5. ASSUME NEW s \in Budgeted(Opened(r))
      PROVE  s \in Budgeted(window[r]) /\ ~Outside(window[r], Index(r)) /\ s >= Index(r)
  BY OpenedBudget
<1>6. ASSUME NEW s \in Budgeted(Opened(r)), s \in DOMAIN Cost[r]
      PROVE  strays'[<<r, s>>] <= strays[<<r, s>>]
  <2>1. <<r, s>> \in Files /\ s \in Nat
    BY <1>6, FilesIs, Lengths
  <2>2. ASSUME NEW c \in cut, <<r, s>> = <<r, c.seg>>, c.permit
        PROVE  FALSE
    <3>1. c.seg = s
      BY <2>2
    <3> QED
      BY <1>1, <1>2, <1>5, <2>1, <2>2, <3>1
  <2> QED
    BY <1>4, <2>1, <2>2
<1>7. ASSUME NEW p \in Readers, NEW s \in DOMAIN Cost[p]
      PROVE  Kept(p, s)
  <2>0. <<p, s>> \in Files
    BY FilesIs
  <2>1. CASE p # r
    <3>1. window'[p] = window[p] /\ current'[p] = current[p]
      BY <2>1 DEF Windowed
    <3>2. strays'[<<p, s>>] <= strays[<<p, s>>]
      BY <1>4, <2>0, <2>1
    <3> QED
      BY <3>1, <3>2 DEF Kept, Budgeted
  <2>2. CASE p = r
    <3>1. Budgeted(window[r])' = Budgeted(v) /\ current'[r] = h
      BY DEF Budgeted, Windowed
    <3>2. s \in Budgeted(v) => s \in Budgeted(window[r])
      BY <1>5
    <3>3. h = InHandOf(s) =>
            s \in Budgeted(window[r]) /\ s \notin Budgeted(v) /\ strays'[<<r, s>>] <= strays[<<r, s>>]
      BY <1>5, <1>6, <2>2
    <3>4. \/ strays'[<<r, s>>] <= strays[<<r, s>>]
          \/ /\ strays'[<<r, s>>] = strays[<<r, s>>] + 1
             /\ s \in Budgeted(window[r]) /\ s \notin Budgeted(v) /\ h # InHandOf(s)
      <4>1. CASE strays'[<<r, s>>] <= strays[<<r, s>>]
        BY <4>1
      <4>2. ASSUME NEW c \in cut, <<r, s>> = <<r, c.seg>>, c.permit
            PROVE  s \in Budgeted(window[r]) /\ s \notin Budgeted(v) /\ h # InHandOf(s)
        <5>1. c.seg = s /\ s \in Nat
          BY <2>2, <4>2, Lengths
        <5>2. s \in Budgeted(window[r]) /\ s \notin Budgeted(Opened(r))
          BY <1>1, <1>2, <1>5, <4>2, <5>1
        <5> QED
          BY <5>2
      <4> QED
        BY <1>4, <2>0, <2>2, <4>1, <4>2
    <3> QED
      BY <2>2, <3>1, <3>2, <3>3, <3>4 DEF Kept
  <2> QED
    BY <2>1, <2>2
<1> QED
  BY <1>4, <1>7, KeptInBudget

LEMMA PollLosesBudget ==
    ASSUME Places, Windowed, Windowed', InBudget, InHands, NEW r \in Readers, r \in reading,
           NEW v, window' = [window EXCEPT ![r] = v], Budgeted(v) \subseteq Budgeted(Opened(r)),
           current' = [current EXCEPT ![r] = None], Cancel(r, Cut(window[r], Index(r)))
    PROVE  InBudget'
<1>1. \A s : None # InHandOf(s)
  BY DEF None, InHandOf
<1>2. PICK others : others = {}
  OBVIOUS
<1>3. (\A c \in others : ~c.permit) /\ Cancel(r, Cut(window[r], Index(r)) \cup others)
  BY <1>2
<1>4. PICK h : h = None
  OBVIOUS
<1>5. /\ current' = [current EXCEPT ![r] = h]
      /\ \A s : h = InHandOf(s) => s \in Budgeted(Opened(r)) /\ s \notin Budgeted(v)
      /\ current \in [Readers -> [seg : Nat, permit : BOOLEAN]]
  BY <1>1, <1>4 DEF InHands
<1> QED
  BY <1>3, <1>5, PollBudget

LEMMA PollsInBudget ==
    ASSUME Places, Windowed, Windowed', InHands, InBudget, NEW r \in Readers,
           ReadHead(r) \/ ReadFails(r) \/ Wait(r)
    PROVE  InBudget'
<1> DEFINE w == Opened(r)
           head == w.pending[1]
<1>1. r \in reading /\ current \in [Readers -> [seg : Nat, permit : BOOLEAN]]
  BY DEF ReadHead, ReadFails, Wait, Needs, InHands
<1>2. /\ Good(r, w) /\ w.head = Index(r) /\ w.pending # <<>>
      /\ 1 \in DOMAIN w.pending
      /\ head \in Fetches /\ Sound(r, Index(r), TRUE, head)
  BY <1>1, OpenedGood
<1>3. Good(r, Popped(w)) /\ Budgeted(Popped(w)) \subseteq Budgeted(w) \ {w.head}
  BY <1>2, PoppedGood, PoppedBudget
<1>4. CASE ReadHead(r)
  <2> DEFINE v == Fill(r, Popped(w))
             h == [seg |-> head.seg, permit |-> (head.stage = "done") /\ head.permit]
             others == {Fetch(head.seg, head.stage, FALSE)}
  <2>1. /\ window' = [window EXCEPT ![r] = v] /\ current' = [current EXCEPT ![r] = h]
        /\ Cancel(r, Cut(window[r], Index(r)) \cup others)
    BY <1>4 DEF ReadHead
  <2>2. Budgeted(v) \subseteq Budgeted(w) \ {w.head}
    BY <1>3, FillBudget
  <2>3. \A c \in others : ~c.permit
    BY DEF Fetch
  <2>4. ASSUME NEW s, h = InHandOf(s)
        PROVE  s \in Budgeted(w) /\ s \notin Budgeted(v)
    <3>1. s = head.seg /\ head.permit
      BY <2>4 DEF InHandOf
    <3>2. s \in Budgeted(w)
      BY <1>2, <3>1 DEF Budgeted
    <3>3. s = w.head
      BY <1>2, <3>1 DEF Sound
    <3> QED
      BY <2>2, <3>2, <3>3
  <2> HIDE DEF v, h, others, w
  <2> QED
    BY <1>1, <2>1, <2>2, <2>3, <2>4, PollBudget DEF w
<1>5. CASE ReadFails(r)
  <2>1. /\ window' = [window EXCEPT ![r] = Popped(w)] /\ current' = [current EXCEPT ![r] = None]
        /\ Cancel(r, Cut(window[r], Index(r)))
    BY <1>5 DEF ReadFails
  <2> HIDE DEF w
  <2> QED
    BY <1>1, <1>3, <2>1, PollLosesBudget DEF w
<1>6. CASE Wait(r)
  <2> DEFINE new == [head EXCEPT !.read = Len(head.data)]
             v == Replace(w, 1, new)
  <2>1. /\ window' = [window EXCEPT ![r] = v] /\ current' = [current EXCEPT ![r] = None]
        /\ Cancel(r, Cut(window[r], Index(r)))
    BY <1>6 DEF Wait
  <2>2. Good(r, v) /\ v.head = w.head
    BY <1>1, SeenGood
  <2>3. new.permit = head.permit
    BY <1>2 DEF Fetches
  <2> HIDE DEF new
  <2>4. /\ DOMAIN v.pending = DOMAIN w.pending
        /\ \A j \in DOMAIN w.pending : v.pending[j] = IF j = 1 THEN new ELSE w.pending[j]
    BY <1>2, GoodIs DEF Replace
  <2> HIDE DEF v, w
  <2>5. Budgeted(v) \subseteq Budgeted(w)
    BY <1>2, <2>2, <2>3, <2>4, SameBudget
  <2> QED
    BY <1>1, <2>1, <2>5, PollLosesBudget DEF w
<1> QED
  BY <1>4, <1>5, <1>6

LEMMA AllKept ==
    ASSUME Windowed, Windowed', InBudget, strays' \in [Files -> Nat],
           \A f \in Files : strays'[f] <= strays[f],
           \A r \in Readers :
             /\ current'[r] = current[r]
             /\ Budgeted(window'[r]) \subseteq Budgeted(window[r])
    PROVE  InBudget'
<1>1. ASSUME NEW r \in Readers, NEW s \in DOMAIN Cost[r]
      PROVE  Kept(r, s)
  <2>1. <<r, s>> \in Files
    BY FilesIs
  <2>2. Budgeted(window[r])' = Budgeted(window'[r])
    BY DEF Budgeted
  <2> QED
    BY <2>1, <2>2 DEF Kept
<1> QED
  BY <1>1, KeptInBudget

LEMMA StraysSame ==
    ASSUME InBudget, UNCHANGED strays
    PROVE  strays' \in [Files -> Nat] /\ \A f \in Files : strays'[f] <= strays[f]
BY DEF InBudget

\* A fetch that gets no budget it did not have.
LEMMA SetBudget ==
    ASSUME Windowed, Windowed', InBudget, NEW r \in Readers, NEW i \in DOMAIN window[r].pending,
           NEW fetch, Set(r, i, fetch), fetch.seg = window[r].pending[i].seg,
           fetch.permit => window[r].pending[i].permit,
           UNCHANGED <<current, strays>>
    PROVE  InBudget'
<1> DEFINE w == window[r]
           v == Replace(w, i, fetch)
<1>1. window' = [window EXCEPT ![r] = v] /\ window \in [Readers -> Windows]
  BY DEF Set, Windowed
<1>2. w.pending \in Seq(Fetches)
  BY GoodIs DEF Windowed
<1>3. /\ DOMAIN v.pending = DOMAIN w.pending
      /\ \A j \in DOMAIN w.pending : v.pending[j] = IF j = i THEN fetch ELSE w.pending[j]
  BY <1>2 DEF Replace
<1> HIDE DEF v
<1>4. Budgeted(v) \subseteq Budgeted(w)
  BY <1>3 DEF Budgeted
<1>5. \A p \in Readers : current'[p] = current[p] /\ Budgeted(window'[p]) \subseteq Budgeted(window[p])
  BY <1>1, <1>4
<1> QED
  BY <1>5, StraysSame, AllKept

LEMMA TasksInBudget ==
    ASSUME Windowed, Windowed', InBudget, NEW r \in Readers, NEW i \in DOMAIN window[r].pending,
           Enqueue(r, i) \/ Bypass(r, i) \/ Chunk(r, i) \/ Resend(r, i) \/ End(r, i)
    PROVE  InBudget'
<1> DEFINE old == window[r].pending[i]
<1>1. old \in Fetches /\ UNCHANGED <<current, strays>>
  BY GoodIs DEF Windowed, Enqueue, Bypass, Chunk, Resend, End, reader
<1>2. PICK fetch : /\ Set(r, i, fetch)
                   /\ \/ fetch = [old EXCEPT !.stage = "queued"]
                      \/ fetch \in {Fetch(old.seg, "running", FALSE), Fetch(old.seg, "failed", FALSE),
                                   Fetch(old.seg, "done", old.permit)}
                      \/ \E to \in old.sent + 1 .. Units[r] : fetch = Streamed(old, to)
                      \/ fetch = [old EXCEPT !.sent = 0]
  <2>1. CASE Enqueue(r, i)
    BY <2>1 DEF Enqueue
  <2>2. CASE Bypass(r, i)
    BY <2>2 DEF Bypass
  <2>3. CASE Chunk(r, i)
    BY <2>3 DEF Chunk
  <2>4. CASE Resend(r, i)
    BY <2>4 DEF Resend
  <2>5. CASE End(r, i)
    <3>1. \/ Set(r, i, Fetch(old.seg, "done", old.permit))
          \/ Set(r, i, Fetch(old.seg, "failed", FALSE))
      BY <2>5 DEF End
    <3> HIDE DEF old
    <3> QED
      BY <3>1
  <2> QED
    BY <2>1, <2>2, <2>3, <2>4, <2>5
<1>3. fetch.seg = old.seg /\ (fetch.permit => old.permit)
  <2>1. CASE fetch = [old EXCEPT !.stage = "queued"] \/ fetch = [old EXCEPT !.sent = 0]
    BY <1>1, <2>1 DEF Fetches
  <2>2. CASE fetch \in {Fetch(old.seg, "running", FALSE), Fetch(old.seg, "failed", FALSE),
                       Fetch(old.seg, "done", old.permit)}
    BY <2>2 DEF Fetch
  <2>3. ASSUME NEW to, fetch = Streamed(old, to)
        PROVE  fetch.seg = old.seg /\ fetch.permit = old.permit
    <3> DEFINE one == [old EXCEPT !.data = Joined(old.data, old.sent, to)]
    <3>1. one.seg = old.seg /\ one.permit = old.permit
      BY <1>1 DEF Fetches
    <3>2. fetch = [one EXCEPT !.sent = to]
      BY <2>3 DEF Streamed
    <3> QED
      BY <1>1, <3>1, <3>2 DEF Fetches
  <2> QED
    BY <1>2, <2>1, <2>2, <2>3
<1> QED
  BY <1>1, <1>2, <1>3, SetBudget

\* A share that is new is that of a fetch, when nothing is put in hand and nothing is left over.
LEMMA NewShare ==
    ASSUME window \in [Readers -> Windows], window' \in [Readers -> Windows],
           UNCHANGED <<current, strays>>, NEW r \in Readers, NEW s,
           NEW S, S = Shares(r, s), NEW T, T = Shares(r, s)', NEW h \in T, h \notin S
    PROVE  h = ByFetch /\ s \in Budgeted(window[r])' /\ s \notin Budgeted(window[r])
<1>1. SharesAsTold
  BY ShareIs
<1>1a. SharesAsTold'
  <2>1. (window \in [Readers -> Windows])' => SharesAsTold'
    BY ShareIs, PTL
  <2> QED
    BY <2>1
<1>2. \/ h = ByFetch /\ s \in Budgeted(window[r])'
      \/ h = <<"in hand", 1>> /\ current'[r] = InHandOf(s)
      \/ \E j \in 1 .. strays'[<<r, s>>] : h = <<"stray", j>>
  <2>1. \A k : k \in Shares(r, s)' <=>
              \/ k = ByFetch /\ s \in Budgeted(window[r])'
              \/ k = <<"in hand", 1>> /\ current'[r] = InHandOf(s)
              \/ \E j \in 1 .. strays'[<<r, s>>] : k = <<"stray", j>>
    BY <1>1a DEF SharesAsTold
  <2> QED
    BY <2>1
<1>3. \A k : k \in Shares(r, s) <=>
              \/ k = ByFetch /\ s \in Budgeted(window[r])
              \/ k = <<"in hand", 1>> /\ current[r] = InHandOf(s)
              \/ \E j \in 1 .. strays[<<r, s>>] : k = <<"stray", j>>
  BY <1>1 DEF SharesAsTold
<1>4. /\ ~(h = ByFetch /\ s \in Budgeted(window[r]))
      /\ ~(h = <<"in hand", 1>> /\ current[r] = InHandOf(s))
      /\ ~ \E j \in 1 .. strays[<<r, s>>] : h = <<"stray", j>>
  BY <1>3
<1>5. current' = current /\ strays' = strays
  OBVIOUS
<1> QED
  BY <1>2, <1>4, <1>5

\* Budget is taken of what is free.
LEMMA AcquireInBudget ==
    ASSUME Windowed, Windowed', InBudget, NEW r \in Readers, NEW i \in DOMAIN window[r].pending,
           Acquire(r, i)
    PROVE  InBudget'
<1> DEFINE w == window[r]
           seg == w.pending[i].seg
           v == Replace(w, i, Fetch(seg, "running", TRUE))
           S == AllShares
           T == AllShares'
<1>1. window' = [window EXCEPT ![r] = v] /\ UNCHANGED <<current, strays>>
  BY DEF Acquire, Set, reader
<1>2. /\ w.pending \in Seq(Fetches) /\ seg \in DOMAIN Cost[r]
      /\ window \in [Readers -> Windows] /\ window' \in [Readers -> Windows]
  BY GoodIs, Lengths DEF Windowed
<1>3. PICK g, c : g = <<r, seg>> /\ c = Cost[r][seg]
  OBVIOUS
<1>4. g \in Files /\ c = Cost[g[1]][g[2]] /\ c \in Nat
  BY <1>2, <1>3, FilesIs
<1>5. ASSUME NEW f \in Files, NEW h \in T[f], h \notin S[f]
      PROVE  f = g /\ h = ByFetch
  <2>1. f[1] \in Readers /\ f[2] \in DOMAIN Cost[f[1]] /\ f = <<f[1], f[2]>>
    BY FilesIs
  <2>2. S[f] = Shares(f[1], f[2]) /\ T[f] = Shares(f[1], f[2])'
    BY DEF AllShares
  <2>3. /\ h = ByFetch /\ f[2] \in Budgeted(window[f[1]])'
        /\ f[2] \notin Budgeted(window[f[1]])
    BY <1>1, <1>2, <1>5, <2>1, <2>2, NewShare
  <2>4. f[2] \in Budgeted(window'[f[1]])
    BY <2>3 DEF Budgeted
  <2>5. f[1] = r
    BY <1>1, <1>2, <2>1, <2>3, <2>4
  <2>6. f[2] \in Budgeted(v)
    BY <1>1, <1>2, <2>4, <2>5
  <2>7. \A j \in DOMAIN v.pending : j \in DOMAIN w.pending
                                    /\ (j # i => v.pending[j] = w.pending[j])
    BY <1>2 DEF Replace
  <2>8. v.pending[i].seg = seg
    BY <1>2 DEF Replace, Fetch
  <2> HIDE DEF v, seg
  <2>9. f[2] = seg
    BY <2>3, <2>5, <2>6, <2>7, <2>8 DEF Budgeted
  <2> QED
    BY <1>3, <2>1, <2>3, <2>5, <2>9
<1>6. \A f \in Files : \A h \in T[f] : h \in S[f] \/ (f = g /\ h = ByFetch)
  BY <1>5
<1>7. IsFiniteSet(Pieces(S)) /\ Cardinality(Pieces(S)) <= Capacity /\ c <= Capacity - Cardinality(Pieces(S))
  BY <1>3, HeldIs DEF InBudget, Acquire, Grantable, Free
<1>8. Held' = Pieces(T)
  <2>1. (Held = Pieces(AllShares))'
    BY HeldIs, PTL
  <2> QED
    BY <2>1 DEF Pieces
<1> HIDE DEF S, T
<1>9. IsFiniteSet(Pieces(T)) /\ Cardinality(Pieces(T)) <= Cardinality(Pieces(S)) + c
  BY <1>4, <1>6, <1>7, Taken
<1>10. Cardinality(Pieces(T)) \in Nat /\ Cardinality(Pieces(S)) \in Nat /\ Capacity \in Nat
  BY <1>7, <1>9, FS_CardinalityType, WindowAssumption
<1>11. Cardinality(Pieces(T)) <= Capacity
  BY <1>4, <1>7, <1>9, <1>10
<1> QED
  BY <1>1, <1>8, <1>9, <1>11 DEF InBudget

LEMMA ReopenInBudget ==
    ASSUME Windowed, Windowed', InHands, InBudget, NEW r \in Readers, Reopen(r)
    PROVE  InBudget'
<1> DEFINE w == window[r]
           cut == Range(w.pending)
<1>1. /\ window' = [window EXCEPT ![r] = Closed(r)] /\ current' = [current EXCEPT ![r] = None]
      /\ Cancel(r, cut) /\ strays \in [Files -> Nat]
  BY DEF Reopen, InBudget
<1>2. \A c \in cut : \E i \in DOMAIN w.pending : c = w.pending[i]
  BY DEF Range
<1> HIDE DEF cut
<1>3. /\ strays' \in [Files -> Nat]
      /\ \A f \in Files :
           \/ strays'[f] <= strays[f]
           \/ /\ strays'[f] = strays[f] + 1
              /\ \E c \in cut : f = <<r, c.seg>> /\ c.permit
  BY <1>1, <1>2, Remains
<1>4. Budgeted(Closed(r)) = {} /\ \A s : None # InHandOf(s)
  BY DEF Budgeted, Closed, None, InHandOf
<1>5. ASSUME NEW p \in Readers, NEW s \in DOMAIN Cost[p]
      PROVE  Kept(p, s)
  <2>0. <<p, s>> \in Files
    BY FilesIs
  <2>1. CASE p # r
    <3>1. window'[p] = window[p] /\ current'[p] = current[p]
      BY <1>1, <2>1 DEF Windowed
    <3>2. strays'[<<p, s>>] <= strays[<<p, s>>]
      BY <1>3, <2>0, <2>1
    <3> QED
      BY <3>1, <3>2 DEF Kept, Budgeted
  <2>2. CASE p = r
    <3>1. Budgeted(window[r])' = {} /\ current'[r] # InHandOf(s)
      <4>1. window'[r] = Closed(r) /\ current'[r] = None
        BY <1>1 DEF Windowed, InHands
      <4> QED
        BY <1>4, <4>1 DEF Budgeted
    <3>2. ASSUME NEW c \in cut, <<r, s>> = <<r, c.seg>>, c.permit
          PROVE  s \in Budgeted(window[r])
      <4>1. c.seg = s
        BY <3>2
      <4> QED
        BY <1>2, <3>2, <4>1 DEF Budgeted
    <3> QED
      BY <1>3, <2>0, <2>2, <3>1, <3>2 DEF Kept
  <2> QED
    BY <2>1, <2>2
<1> QED
  BY <1>3, <1>5, KeptInBudget

LEMMA InitInBudget == Init => InBudget
<1> SUFFICES ASSUME Init PROVE InBudget
  OBVIOUS
<1>1. strays \in [Files -> Nat]
  BY DEF Init
<1>2. ASSUME NEW r \in Readers, NEW s \in DOMAIN Cost[r], NEW h \in Shares(r, s)
      PROVE  FALSE
  <2>1. Windowed
    BY InitWInv DEF WInv
  <2>2. SharesAsTold
    BY <2>1, ShareIs DEF Windowed
  <2>3. \A k : k \in Shares(r, s) <=>
              \/ k = ByFetch /\ s \in Budgeted(window[r])
              \/ k = <<"in hand", 1>> /\ current[r] = InHandOf(s)
              \/ \E j \in 1 .. strays[<<r, s>>] : k = <<"stray", j>>
    BY <2>2 DEF SharesAsTold
  <2>4. s \notin Budgeted(window[r])
    BY DEF Init, Budgeted, Closed
  <2>5. current[r] # InHandOf(s)
    BY DEF Init, None, InHandOf
  <2>6. strays[<<r, s>>] = 0
    BY FilesIs DEF Init
  <2>7. 1 .. 0 = {}
    OBVIOUS
  <2> QED
    BY <1>2, <2>3, <2>4, <2>5, <2>6, <2>7
<1>3. Held = {}
  <2>1. ASSUME NEW p \in Pieces(AllShares)
        PROVE  FALSE
    <3>1. PICK f \in Files : AllShares[f] # {}
      BY PieceIs
    <3>2. Shares(f[1], f[2]) # {} /\ f[1] \in Readers /\ f[2] \in DOMAIN Cost[f[1]]
      BY <3>1, FilesIs DEF AllShares
    <3> QED
      BY <1>2, <3>2
  <2> QED
    BY <2>1, HeldIs
<1>4. IsFiniteSet({}) /\ Cardinality({}) = 0 /\ 0 <= Capacity
  BY FS_EmptySet, WindowAssumption
<1> QED
  BY <1>1, <1>3, <1>4 DEF InBudget

LEMMA StepInBudget ==
    ASSUME WInv, WInv', InBudget, [Next]_vars
    PROVE  InBudget'
<1>1. /\ Places /\ Windowed /\ InHands /\ Windowed'
      /\ window \in [Readers -> Windows] /\ window' \in [Readers -> Windows]
  BY DEF WInv, Windowed
<1>2. ASSUME UNCHANGED <<window, current, strays>>
      PROVE  InBudget'
  BY <1>1, <1>2, StraysSame, AllKept
<1>3. CASE UNCHANGED vars
  BY <1>2, <1>3 DEF vars, reader
<1>4. ASSUME NEW r \in Readers, Poll(r)
      PROVE  InBudget'
  <2>1. CASE ReadInHand(r)
    BY <1>2, <2>1 DEF ReadInHand
  <2>2. CASE ReadHead(r) \/ ReadFails(r) \/ Wait(r)
    BY <1>1, <2>2, PollsInBudget
  <2> QED
    BY <1>4, <2>1, <2>2 DEF Poll
<1>5. ASSUME NEW r \in Readers, Task(r)
      PROVE  InBudget'
  <2>1. PICK i \in DOMAIN window[r].pending :
          Acquire(r, i) \/ Enqueue(r, i) \/ Bypass(r, i) \/ Chunk(r, i) \/ Resend(r, i) \/ End(r, i)
    BY <1>5 DEF Task
  <2> QED
    BY <1>1, <2>1, AcquireInBudget, TasksInBudget
<1>6. ASSUME NEW r \in Readers, HedgeEnds(r) \/ StartRead(r) \/ Seek(r) \/ GiveUp(r)
      PROVE  InBudget'
  BY <1>2, <1>6 DEF HedgeEnds, StartRead, Seek, GiveUp, reader
<1>7. ASSUME NEW r \in Readers, Reopen(r)
      PROVE  InBudget'
  BY <1>1, <1>7, ReopenInBudget
<1>8. ASSUME NEW f \in Files, StrayEnds(f)
      PROVE  InBudget'
  <2>1. strays \in [Files -> Nat] /\ strays[f] > 0 /\ strays' = [strays EXCEPT ![f] = @ - 1]
        /\ UNCHANGED <<window, current>>
    BY <1>8 DEF InBudget, StrayEnds, reader
  <2>2. strays' \in [Files -> Nat] /\ \A g \in Files : strays'[g] <= strays[g]
    BY <2>1
  <2> QED
    BY <1>1, <2>1, <2>2, AllKept
<1> QED
  BY <1>3, <1>4, <1>5, <1>6, <1>7, <1>8 DEF Next

\* The budget is handed out in order, never more than there is, and exceeded for the segment
\* a read is blocked on alone (lib.rs:164-166, 224-226): for any readers and any budget.
THEOREM BudgetAlwaysInTurn == Spec => []BudgetInTurn
<1>1. InBudget => Free \in Nat
  <2> SUFFICES ASSUME InBudget PROVE Free \in Nat
    OBVIOUS
  <2>1. Cardinality(Held) \in Nat /\ Cardinality(Held) <= Capacity /\ Capacity \in Nat
    BY FS_CardinalityType, WindowAssumption DEF InBudget
  <2> QED
    BY <2>1 DEF Free
<1>2. WInv /\ InBudget => BudgetInTurn
  BY <1>1, WInvImplies DEF BudgetInTurn
<1> QED
  BY <1>2, InitWInv, StepWInv, InitInBudget, StepInBudget, PTL DEF Spec

----------------------------------------------------------------------------
(* The flights of one article.  FlightTypeOK, MapIsCurrent and WantedOnly  *)
(* need each other: a reader joins only what the map names and readers     *)
(* hold, so it is a flight that is still driven, and a new flight starts   *)
(* only where no other is driven.                                          *)

FlightInv == FlightTypeOK /\ MapIsCurrent /\ WantedOnly

USE SingleFlightAssumption

LEMMA InitFlightInv == FlightInit => FlightInv
BY DEF FlightInit, FlightInv, FlightTypeOK, MapIsCurrent, WantedOnly, Holders, Stages, Busy

\* A call that moves no flight and no reader's hold disturbs nothing.
LEMMA SameHolds ==
    ASSUME FlightInv, UNCHANGED <<inflight, flight, on>>,
           call' \in [Callers -> {"idle", "missed", "waiting"}],
           {memory', disk'} \subseteq BOOLEAN,
           \A r \in Callers : call'[r] = "waiting" <=> call[r] = "waiting"
    PROVE  FlightInv'
BY DEF FlightInv, FlightTypeOK, MapIsCurrent, WantedOnly, Holders

\* Readers come to hold a flight one at a time.
LEMMA JoinInv ==
    ASSUME FlightInv, NEW r \in Callers, Join(r)
    PROVE  FlightInv'
<1>1. /\ inflight \in Flights /\ flight[inflight] \in Busy
      /\ on[r] = NoFlight /\ inflight # NoFlight
  BY DEF FlightInv, FlightTypeOK, MapIsCurrent, WantedOnly, Join, Alive, Busy
<1>2. /\ Holders(inflight)' = Holders(inflight) \cup {r}
      /\ \A g \in Flights \ {inflight} : Holders(g)' = Holders(g)
  BY <1>1 DEF FlightInv, FlightTypeOK, Join, Holders
<1>3. FlightTypeOK'
  BY <1>1 DEF FlightInv, FlightTypeOK, Join
<1>4. MapIsCurrent' /\ WantedOnly'
  BY <1>1, <1>2 DEF FlightInv, MapIsCurrent, WantedOnly, Join
<1> QED BY <1>3, <1>4 DEF FlightInv

LEMMA LeadInv ==
    ASSUME FlightInv, NEW r \in Callers, NEW g \in Flights, Lead(r, g)
    PROVE  FlightInv'
<1>1. on[r] = NoFlight /\ g # NoFlight /\ Holders(g) = {}
  BY DEF FlightInv, FlightTypeOK, WantedOnly, Lead, Busy
<1>2. /\ Holders(g)' = {r}
      /\ \A h \in Flights \ {g} : Holders(h)' = Holders(h)
  BY <1>1 DEF FlightInv, FlightTypeOK, Lead, Holders
<1>3. \A h \in Flights : flight[h] \notin Busy
  BY DEF FlightInv, MapIsCurrent, WantedOnly, Lead, Alive
<1>4. /\ flight'[g] = "looking"
      /\ \A h \in Flights \ {g} : flight'[h] = flight[h]
  BY DEF FlightInv, FlightTypeOK, Lead
<1>5. FlightTypeOK'
  BY <1>1 DEF FlightInv, FlightTypeOK, Lead, Stages
<1>6. MapIsCurrent' /\ WantedOnly'
  BY <1>2, <1>3, <1>4 DEF FlightInv, MapIsCurrent, WantedOnly, Lead, Busy
<1> QED BY <1>5, <1>6 DEF FlightInv

\* A flight goes on while its readers wait.
LEMMA DriveInv ==
    ASSUME FlightInv, NEW g \in Flights,
           DiskHit(g) \/ DiskMiss(g) \/ Fetched(g) \/ Land(g) \/ DropLanding(g)
    PROVE  FlightInv'
<1>1. /\ flight' \in [Flights -> Stages]
      /\ \A h \in Flights \ {g} : flight'[h] = flight[h]
      /\ UNCHANGED <<call, on>>
  BY DEF FlightInv, FlightTypeOK, Stages, DiskHit, DiskMiss, Fetched, Land, DropLanding
<1>2. \A h \in Flights : Holders(h)' = Holders(h)
  BY <1>1 DEF Holders
<1>3. CASE DiskHit(g) \/ DiskMiss(g) \/ Fetched(g)
  <2>1. flight[g] \in Busy /\ flight'[g] \in Busy /\ UNCHANGED inflight
    BY <1>3 DEF FlightInv, FlightTypeOK, DiskHit, DiskMiss, Fetched, Busy
  <2>2. {memory', disk'} \subseteq BOOLEAN
    BY <1>3 DEF FlightInv, FlightTypeOK, DiskHit, DiskMiss, Fetched
  <2> QED BY <1>1, <1>2, <2>1, <2>2 DEF FlightInv, FlightTypeOK, MapIsCurrent, WantedOnly
<1>4. CASE Land(g)
  <2>1. flight[g] = "ended" /\ flight'[g] = "landed" /\ inflight' = NoFlight
    BY <1>4 DEF FlightInv, FlightTypeOK, MapIsCurrent, Land, WithoutLanding, Busy
  <2>2. \A h \in Flights \ {g} : flight[h] \notin Busy
    BY <2>1 DEF FlightInv, MapIsCurrent, Busy
  <2>3. FlightTypeOK'
    BY <1>1, <1>4, <2>1 DEF FlightInv, FlightTypeOK, Land
  <2>4. MapIsCurrent' /\ WantedOnly'
    BY <1>1, <1>2, <2>1, <2>2 DEF FlightInv, MapIsCurrent, WantedOnly, Busy
  <2> QED BY <2>3, <2>4 DEF FlightInv
<1>5. CASE DropLanding(g)
  <2>1. /\ flight[g] = "dropping" /\ flight'[g] = "gone"
        /\ inflight' = IF inflight = g THEN NoFlight ELSE inflight
    BY <1>5 DEF FlightInv, FlightTypeOK, DropLanding, WithoutLanding
  <2>2. FlightTypeOK'
    BY <1>1, <1>5, <2>1 DEF FlightInv, FlightTypeOK, DropLanding
  <2>3. MapIsCurrent' /\ WantedOnly'
    BY <1>1, <1>2, <2>1 DEF FlightInv, MapIsCurrent, WantedOnly, Busy
  <2> QED BY <2>2, <2>3 DEF FlightInv
<1> QED BY <1>3, <1>4, <1>5

\* What a reader that lets go of its flight leaves behind.
LEMMA LetGoInv ==
    ASSUME FlightInv, NEW r \in Callers, Take(r) \/ Abandon(r)
    PROVE  FlightInv'
<1>0. PICK g \in Flights : on[r] = g
  BY DEF FlightInv, FlightTypeOK, Take, Abandon
<1>1. call[r] = "waiting" /\ g # NoFlight /\ r \in Holders(g)
  BY <1>0 DEF FlightInv, FlightTypeOK, Take, Abandon, Holders
<1>2. /\ Holders(g)' = Holders(g) \ {r}
      /\ \A h \in Flights \ {g} : Holders(h)' = Holders(h)
  <2>1. on' = [on EXCEPT ![r] = NoFlight] /\ on \in [Callers -> Flights \cup {NoFlight}]
    BY DEF FlightInv, FlightTypeOK, Take, Abandon
  <2>2. on'[r] = NoFlight /\ \A q \in Callers \ {r} : on'[q] = on[q]
    BY <2>1
  <2> QED BY <1>0, <1>1, <2>2, SingleFlightAssumption DEF Holders
<1>3. /\ \A h \in Flights \ {g} : flight'[h] = flight[h]
      /\ UNCHANGED inflight
  BY <1>0, <1>1 DEF FlightInv, FlightTypeOK, Take, Abandon
<1>4. FlightTypeOK'
  BY <1>0, <1>1 DEF FlightInv, FlightTypeOK, Take, Abandon, Stages
<1>5. CASE Holders(g) = {r}
  <2>1. Holders(g)' = {}
    BY <1>2, <1>5
  <2>2. \/ flight[g] \in Busy /\ flight'[g] = "dropping"
        \/ flight[g] = "landed" /\ flight'[g] = "gone"
    BY <1>0, <1>1, <1>5 DEF FlightInv, FlightTypeOK, Take, Abandon, Busy
  <2> QED BY <1>1, <1>2, <1>3, <1>4, <2>1, <2>2 DEF FlightInv, MapIsCurrent, WantedOnly, Busy
<1>6. CASE Holders(g) # {r}
  <2>1. UNCHANGED flight
    BY <1>0, <1>6 DEF Take, Abandon
  <2>2. Holders(g)' # {}
    BY <1>1, <1>2, <1>6
  <2> QED BY <1>1, <1>2, <1>3, <1>4, <2>1, <2>2 DEF FlightInv, MapIsCurrent, WantedOnly
<1> QED BY <1>5, <1>6

LEMMA NextFlightInv == FlightInv /\ [FlightNext]_flightVars => FlightInv'
<1> SUFFICES ASSUME FlightInv, [FlightNext]_flightVars PROVE FlightInv' OBVIOUS
<1>1. CASE UNCHANGED flightVars
  BY <1>1, SameHolds DEF flightVars, FlightInv, FlightTypeOK
<1>2. CASE \E r \in Callers : Miss(r)
  BY <1>2, SameHolds DEF Miss, FlightInv, FlightTypeOK
<1>3. CASE \E r \in Callers : Join(r)
  BY <1>3, JoinInv
<1>4. CASE \E r \in Callers : Take(r) \/ Abandon(r)
  BY <1>4, LetGoInv
<1>5. CASE \E r \in Callers, g \in Flights : Lead(r, g)
  BY <1>5, LeadInv
<1>6. CASE \E g \in Flights :
             DiskHit(g) \/ DiskMiss(g) \/ Fetched(g) \/ Land(g) \/ DropLanding(g)
  BY <1>6, DriveInv
<1>7. CASE Insert \/ Evict
  BY <1>7, SameHolds DEF Insert, Evict, FlightInv, FlightTypeOK
<1> QED BY <1>1, <1>2, <1>3, <1>4, <1>5, <1>6, <1>7 DEF FlightNext

\* The invariant of every reachable state.
THEOREM FlightInvariance == FlightSpec => []FlightInv
BY InitFlightInv, NextFlightInv, PTL DEF FlightSpec

\* Every part of the cache's state keeps its type, and a reader waits exactly
\* while it holds a flight.
THEOREM FlightTypes == FlightSpec => []FlightTypeOK
<1>1. FlightInv => FlightTypeOK BY DEF FlightInv
<1> QED BY <1>1, FlightInvariance, PTL

\* The map of flights in cache.rs names the flight that is driven, and keeps no
\* entry for one that is over.
THEOREM MapStaysCurrent == FlightSpec => []MapIsCurrent
<1>1. FlightInv => MapIsCurrent BY DEF FlightInv
<1> QED BY <1>1, FlightInvariance, PTL

\* A fetch goes on exactly while some reader waits for it.
THEOREM NothingUnwanted == FlightSpec => []WantedOnly
<1>1. FlightInv => WantedOnly BY DEF FlightInv
<1> QED BY <1>1, FlightInvariance, PTL

----------------------------------------------------------------------------
\* The two sets SharedFetch is about.
Sharing == OnStage(Busy)
Served == OnStage({"landed"})

LEMMA StutterIsShared ==
    ASSUME FlightInv, NEW g \in Flights, DiskHit(g) \/ DiskMiss(g) \/ Fetched(g) \/ DropLanding(g)
    PROVE  UNCHANGED <<Sharing, Served>>
<1>1. /\ \A h \in Flights \ {g} : flight'[h] = flight[h]
      /\ UNCHANGED on
      /\ \/ flight[g] \in Busy /\ flight'[g] \in Busy
         \/ flight[g] = "dropping" /\ flight'[g] = "gone"
  BY DEF FlightInv, FlightTypeOK, DiskHit, DiskMiss, Fetched, DropLanding, Busy
<1>2. \A h \in Flights : /\ flight'[h] \in Busy <=> flight[h] \in Busy
                         /\ flight'[h] = "landed" <=> flight[h] = "landed"
  BY <1>1 DEF Busy
<1> QED BY <1>1, <1>2 DEF FlightInv, FlightTypeOK, Sharing, Served, OnStage

LEMMA LandIsFinish ==
    ASSUME FlightInv, NEW g \in Flights, Land(g)
    PROVE  Sharing # {} /\ Served' = Served \cup Sharing /\ Sharing' = {}
<1>1. /\ \A h \in Flights \ {g} : flight'[h] = flight[h] /\ flight[h] \notin Busy
      /\ flight[g] \in Busy /\ flight'[g] = "landed" /\ UNCHANGED on
  BY DEF FlightInv, FlightTypeOK, Land, MapIsCurrent, Busy
<1>2. Holders(g) # {} /\ g # NoFlight
  BY <1>1 DEF FlightInv, WantedOnly
<1>3. Sharing # {}
  BY <1>1, <1>2 DEF Sharing, OnStage, Holders
<1>4. Served' = Served \cup Sharing /\ Sharing' = {}
  BY <1>1 DEF FlightInv, FlightTypeOK, Sharing, Served, OnStage, Busy
<1> QED BY <1>3, <1>4

LEMMA JoinIsAsk ==
    ASSUME FlightInv, NEW r \in Callers, Join(r) \/ \E g \in Flights : Lead(r, g)
    PROVE  /\ r \notin Sharing \cup Served
           /\ Sharing' = Sharing \cup {r} /\ UNCHANGED Served
<1>1. on[r] = NoFlight
  BY DEF FlightInv, FlightTypeOK, Join, Lead
<1>2. CASE Join(r)
  <2>1. inflight \in Flights /\ flight[inflight] \in Busy /\ inflight # NoFlight
    BY <1>2 DEF FlightInv, FlightTypeOK, MapIsCurrent, WantedOnly, Join, Alive, Busy
  <2>2. on' = [on EXCEPT ![r] = inflight] /\ UNCHANGED flight
    BY <1>2 DEF Join
  <2> QED BY <1>1, <2>1, <2>2 DEF FlightInv, FlightTypeOK, Sharing, Served, OnStage, Busy
<1>3. ASSUME NEW g \in Flights, Lead(r, g)
      PROVE  /\ r \notin Sharing \cup Served
             /\ Sharing' = Sharing \cup {r} /\ UNCHANGED Served
  <2>1. Holders(g) = {} /\ g # NoFlight
    BY <1>3 DEF FlightInv, WantedOnly, Lead, Busy
  <2>2. on' = [on EXCEPT ![r] = g] /\ flight' = [flight EXCEPT ![g] = "looking"]
    BY <1>3 DEF Lead
  <2>3. /\ on'[r] = g /\ flight'[g] = "looking"
        /\ \A q \in Callers \ {r} : on'[q] = on[q] /\ on[q] # g
        /\ \A h \in Flights \ {g} : flight'[h] = flight[h]
    BY <2>1, <2>2 DEF FlightInv, FlightTypeOK, Holders
  <2> QED BY <1>1, <2>1, <2>3 DEF FlightInv, FlightTypeOK, Sharing, Served, OnStage, Busy
<1> QED BY <1>2, <1>3

LEMMA LetGoIsTakeOrLeave ==
    ASSUME FlightInv, NEW r \in Callers, Take(r) \/ Abandon(r)
    PROVE  \/ r \in Served /\ Served' = Served \ {r} /\ UNCHANGED Sharing
           \/ r \in Sharing /\ Sharing' = Sharing \ {r} /\ UNCHANGED Served
<1> DEFINE g == on[r]
<1>1. g \in Flights /\ g # NoFlight
  BY DEF FlightInv, FlightTypeOK, Take, Abandon
<1>2. /\ on'[r] = NoFlight
      /\ \A q \in Callers \ {r} : on'[q] = on[q]
      /\ \A h \in Flights \ {g} : flight'[h] = flight[h]
      /\ (\E q \in Callers \ {r} : on[q] = g) => flight'[g] = flight[g]
  BY <1>1 DEF FlightInv, FlightTypeOK, Take, Abandon, Holders
<1>3. /\ OnStage(Busy)' = OnStage(Busy) \ {r}
      /\ OnStage({"landed"})' = OnStage({"landed"}) \ {r}
  BY <1>1, <1>2 DEF FlightInv, FlightTypeOK, OnStage
<1>4. CASE Take(r)
  BY <1>1, <1>3, <1>4 DEF Take, Sharing, Served, OnStage, Busy
<1>5. CASE Abandon(r)
  BY <1>1, <1>3, <1>5 DEF Abandon, Sharing, Served, OnStage, Busy
<1> QED BY <1>4, <1>5

\* Readers of one article share one fetch, whatever they do and however late the
\* landings of old flights run: cache.rs implements SharedFetch.
THEOREM Implements == FlightSpec => IsShared
<1>1. FlightInit => Promise!Init
  BY DEF FlightInit, Promise!Init, OnStage
<1>2. FlightInv /\ [FlightNext]_flightVars => [Promise!Next]_(Promise!vars)
  <2> SUFFICES ASSUME FlightInv, [FlightNext]_flightVars PROVE [Promise!Next]_(Promise!vars) OBVIOUS
  <2> USE DEF Promise!Next, Promise!vars, Promise!Ask, Promise!Finish,
              Promise!Take, Promise!Leave
  <2>1. CASE \/ UNCHANGED flightVars \/ Insert \/ Evict
             \/ \E r \in Callers : Miss(r)
    BY <2>1 DEF flightVars, Insert, Evict, Miss, OnStage
  <2>2. CASE \E r \in Callers : Join(r) \/ \E g \in Flights : Lead(r, g)
    BY <2>2, JoinIsAsk DEF Sharing, Served
  <2>3. CASE \E r \in Callers : Take(r) \/ Abandon(r)
    BY <2>3, LetGoIsTakeOrLeave DEF Sharing, Served
  <2>4. CASE \E g \in Flights : DiskHit(g) \/ DiskMiss(g) \/ Fetched(g) \/ DropLanding(g)
    BY <2>4, StutterIsShared DEF Sharing, Served
  <2>5. CASE \E g \in Flights : Land(g)
    BY <2>5, LandIsFinish DEF Sharing, Served
  <2> QED BY <2>1, <2>2, <2>3, <2>4, <2>5 DEF FlightNext
<1> QED BY <1>1, <1>2, FlightInvariance, PTL DEF FlightSpec, IsShared, Promise!Spec
=============================================================================
