--------------------------- MODULE DownloadsProofs ---------------------------
(***************************************************************************)
(* Proofs about Downloads for any number of calls, slots and weights.      *)
(***************************************************************************)
EXTENDS Downloads, FiniteSetTheorems, WellFoundedInduction, SequenceTheorems, TLAPS

----------------------------------------------------------------------------
(***************************************************************************)
(* Bounded sets of naturals, and counting.  A least or greatest element    *)
(* stands in for induction.                                                *)
(***************************************************************************)

(***************************************************************************)
(* A non-empty set of naturals up to n has a greatest element: the least   *)
(* of the intervals above its members, in the strict subset order.         *)
(***************************************************************************)
LEMMA BoundedMax ==
  ASSUME NEW n \in Nat, NEW S \in SUBSET (0 .. n), S # {}
  PROVE  \E m \in S : \A k \in S : k <= m
<1> DEFINE above == {(m + 1) .. n : m \in S}
<1>1. IsFiniteSet(1 .. n)
  BY FS_Interval
<1>2. FiniteSubsetsOf(1 .. n) = SUBSET (1 .. n)
  BY <1>1, FS_FiniteSubsetsOfFinite
<1>3. IsWellFoundedOn(StrictSubsetOrdering(1 .. n), SUBSET (1 .. n))
  BY <1>2, FS_StrictSubsetOrderingWellFounded
<1>4. above \subseteq SUBSET (1 .. n) /\ above # {}
  <2>1. PICK k : k \in S
    OBVIOUS
  <2>2. (k + 1) .. n \in above
    BY <2>1
  <2>3. ASSUME NEW m \in S
        PROVE  (m + 1) .. n \in SUBSET (1 .. n)
    OBVIOUS
  <2>4. QED
    BY <2>2, <2>3
<1>5. PICK least \in above : \A other \in above : <<other, least>> \notin StrictSubsetOrdering(1 .. n)
  <2> HIDE DEF above
  <2>1. QED
    BY <1>3, <1>4, WFMin
<1>6. PICK m \in S : least = (m + 1) .. n
  BY <1>5
<1>7. ASSUME NEW k \in S, k > m
      PROVE  FALSE
  <2>1. (k + 1) .. n \in above /\ (k + 1) .. n \subseteq least
    BY <1>6, <1>7
  <2>2. m + 1 \in least /\ m + 1 \notin (k + 1) .. n
    BY <1>6, <1>7
  <2>3. <<(k + 1) .. n, least>> \in StrictSubsetOrdering(1 .. n)
    BY <1>4, <1>5, <2>1, <2>2 DEF StrictSubsetOrdering
  <2>4. QED
    BY <1>5, <2>1, <2>3
<1>8. QED
  BY <1>6, <1>7

\* A non-empty set of naturals up to n has a least element.
LEMMA BoundedMin ==
  ASSUME NEW n \in Nat, NEW S \in SUBSET (0 .. n), S # {}
  PROVE  \E m \in S : \A k \in S : m <= k
<1> DEFINE mirror == {n - k : k \in S}
<1>1. mirror \in SUBSET (0 .. n) /\ mirror # {}
  <2>1. PICK k : k \in S
    OBVIOUS
  <2>2. n - k \in mirror
    BY <2>1
  <2>3. ASSUME NEW m \in S
        PROVE  n - m \in 0 .. n
    OBVIOUS
  <2>4. QED
    BY <2>2, <2>3
<1>2. PICK m \in mirror : \A k \in mirror : k <= m
  <2> HIDE DEF mirror
  <2>1. QED
    BY <1>1, BoundedMax
<1>3. PICK l \in S : m = n - l
  BY <1>2
<1>4. \A k \in S : n - k <= m
  BY <1>2
<1>5. QED
  BY <1>3, <1>4

\* The pairs of x with 1 to w are w many.
LEMMA ColumnCardinality ==
  ASSUME NEW x, NEW w \in Nat
  PROVE  IsFiniteSet({x} \X (1 .. w)) /\ Cardinality({x} \X (1 .. w)) = w
<1> DEFINE one == {x}
           column == 1 .. w
<1>1. IsFiniteSet(one) /\ Cardinality(one) = 1
  BY FS_Singleton
<1>2. IsFiniteSet(column) /\ Cardinality(column) = w
  BY FS_Interval
<1>3. IsFiniteSet(one \X column) /\ Cardinality(one \X column) = 1 * w
  <2> HIDE DEF one, column
  <2>1. IsFiniteSet(one \X column)
        /\ Cardinality(one \X column) = Cardinality(one) * Cardinality(column)
    BY <1>1, <1>2, FS_Product, Zenon
  <2>2. QED
    BY <1>1, <1>2, <2>1, Zenon
<1>4. QED
  BY <1>3

----------------------------------------------------------------------------
(***************************************************************************)
(* What the lane operators do.                                             *)
(***************************************************************************)
Distinct(lane) == \A i, j \in DOMAIN lane : lane[i] = lane[j] => i = j

\* new has the entries of lane that are still there, and no others.
Thinned(lane, new) ==
    /\ \A x : InLane(x, new) => InLane(x, lane)
    /\ \A x : InLane(x, lane) /\ ~Closed(x) => InLane(x, new)
    /\ Distinct(lane) => Distinct(new)

\* ClosedFront is the length of the longest closed prefix.
LEMMA ClosedFrontDef ==
  ASSUME NEW S, NEW lane \in Seq(S)
  PROVE  /\ ClosedFront(lane) \in 0 .. Len(lane)
         /\ \A i \in 1 .. ClosedFront(lane) : Closed(lane[i])
         /\ ClosedFront(lane) < Len(lane) => ~Closed(lane[ClosedFront(lane) + 1])
<1> DEFINE prefixes == {k \in 0 .. Len(lane) : \A i \in 1 .. k : Closed(lane[i])}
<1>1. prefixes \in SUBSET (0 .. Len(lane)) /\ prefixes # {}
  <2>1. 0 \in prefixes
    OBVIOUS
  <2>2. QED
    BY <2>1
<1>2. PICK k \in prefixes : \A l \in prefixes : l <= k
  <2>1. Len(lane) \in Nat
    BY LenProperties
  <2> HIDE DEF prefixes
  <2>2. QED
    BY <1>1, <2>1, BoundedMax
<1>3. k < Len(lane) => ~Closed(lane[k + 1])
  <2>1. SUFFICES ASSUME k < Len(lane), Closed(lane[k + 1])
                 PROVE  FALSE
    OBVIOUS
  <2>2. k + 1 \in prefixes
    BY <2>1
  <2>3. QED
    BY <1>2, <2>2
<1>4. \E n \in 0 .. Len(lane) :
         /\ \A i \in 1 .. n : Closed(lane[i])
         /\ n < Len(lane) => ~Closed(lane[n + 1])
  BY <1>2, <1>3
<1>5. QED
  BY <1>4 DEF ClosedFront

\* DropClosed keeps the waiters that are there, and its head is one of them.
LEMMA DropClosedThins ==
  ASSUME NEW S, NEW lane \in Seq(S)
  PROVE  /\ DropClosed(lane) \in Seq(S)
         /\ Thinned(lane, DropClosed(lane))
         /\ DropClosed(lane) # <<>> =>
              /\ ~Closed(Head(DropClosed(lane)))
              /\ InLane(Head(DropClosed(lane)), lane)
              /\ ClosedFront(lane) < Len(lane)
              /\ Head(DropClosed(lane)) = lane[ClosedFront(lane) + 1]
<1> DEFINE k == ClosedFront(lane)
           new == DropClosed(lane)
<1>1. /\ Len(lane) \in Nat
      /\ DOMAIN lane = 1 .. Len(lane)
      /\ \A i \in 1 .. Len(lane) : lane[i] \in S
  BY LenProperties
<1>2. /\ k \in 0 .. Len(lane)
      /\ \A i \in 1 .. k : Closed(lane[i])
      /\ k < Len(lane) => ~Closed(lane[k + 1])
  BY ClosedFrontDef
<1> HIDE DEF k
<1>3. /\ new \in Seq(S)
      /\ Len(new) = Len(lane) - k
      /\ DOMAIN new = 1 .. Len(new)
      /\ \A i \in 1 .. Len(new) : new[i] = lane[k + i]
  <2>1. new = SubSeq(lane, k + 1, Len(lane))
    BY DEF DropClosed, k
  <2>2. \A i \in (k + 1) .. Len(lane) : lane[i] \in S
    BY <1>1, <1>2
  <2> HIDE DEF new
  <2>3. /\ new \in Seq(S)
        /\ Len(new) = IF k + 1 <= Len(lane) THEN Len(lane) - (k + 1) + 1 ELSE 0
        /\ \A i \in 1 .. Len(lane) - (k + 1) + 1 : new[i] = lane[(k + 1) + i - 1]
    BY <1>1, <1>2, <2>1, <2>2, SubSeqProperties
  <2>4. DOMAIN new = 1 .. Len(new)
    BY <2>3, LenProperties
  <2>5. Len(new) = Len(lane) - k
    <3>1. k \in Nat /\ Len(lane) \in Nat /\ k <= Len(lane)
      BY <1>1, <1>2
    <3>2. Len(new) = IF k + 1 <= Len(lane) THEN Len(lane) - (k + 1) + 1 ELSE 0
      BY <2>3
    <3>3. QED
      BY <3>1, <3>2
  <2>6. ASSUME NEW i \in 1 .. Len(new)
        PROVE  new[i] = lane[k + i]
    <3>1. i \in 1 .. Len(lane) - (k + 1) + 1 /\ (k + 1) + i - 1 = k + i
      BY <1>1, <1>2, <2>5
    <3>2. QED
      BY <2>3, <3>1
  <2>7. QED
    BY <2>3, <2>4, <2>5, <2>6
<1> HIDE DEF new
<1>4. ASSUME NEW x, InLane(x, new)
      PROVE  InLane(x, lane)
  <2>1. PICK i \in 1 .. Len(new) : new[i] = x
    BY <1>3, <1>4 DEF InLane
  <2>2. k + i \in DOMAIN lane /\ lane[k + i] = x
    BY <1>1, <1>2, <1>3, <2>1
  <2>3. QED
    BY <2>2 DEF InLane
<1>5. ASSUME NEW x, InLane(x, lane), ~Closed(x)
      PROVE  InLane(x, new)
  <2>1. PICK i \in 1 .. Len(lane) : lane[i] = x
    BY <1>1, <1>5 DEF InLane
  <2>2. i > k
    BY <1>2, <1>5, <2>1
  <2>3. i - k \in DOMAIN new /\ new[i - k] = x
    BY <1>1, <1>2, <1>3, <2>1, <2>2
  <2>4. QED
    BY <2>3 DEF InLane
<1>6. Distinct(lane) => Distinct(new)
  <2>1. SUFFICES ASSUME Distinct(lane), NEW i \in 1 .. Len(new), NEW j \in 1 .. Len(new),
                        new[i] = new[j]
                 PROVE  i = j
    BY <1>3 DEF Distinct
  <2>2. /\ k + i \in DOMAIN lane /\ new[i] = lane[k + i]
        /\ k + j \in DOMAIN lane /\ new[j] = lane[k + j]
    BY <1>1, <1>2, <1>3
  <2>3. k + i = k + j
    BY <2>1, <2>2 DEF Distinct
  <2>4. QED
    BY <1>2, <2>3
<1>7. ASSUME new # <<>>
      PROVE  /\ ~Closed(Head(new)) /\ InLane(Head(new), lane)
             /\ k < Len(lane) /\ Head(new) = lane[k + 1]
  <2>1. Head(new) = new[1] /\ 1 \in 1 .. Len(new)
    BY <1>3, <1>7, EmptySeq
  <2>2. Head(new) = lane[k + 1] /\ k < Len(lane)
    BY <1>1, <1>2, <1>3, <2>1
  <2>3. QED
    BY <1>1, <1>2, <2>2 DEF InLane
<1>8. QED
  BY <1>3, <1>4, <1>5, <1>6, <1>7 DEF Thinned, new, k

\* Swept keeps the waiters that are there, and nothing else if it sweeps.
LEMMA SweptThins ==
  ASSUME NEW S, NEW lane \in Seq(S)
  PROVE  /\ Swept(lane) \in Seq(S)
         /\ Thinned(lane, Swept(lane))
<1> DEFINE n == Len(lane)
           step(g, i) == IF i = 0 THEN <<>>
                         ELSE IF Closed(lane[i]) THEN g[i - 1]
                         ELSE Append(g[i - 1], lane[i])
           upto(g, m) == g \in [0 .. m -> Seq(S)] /\ \A i \in 0 .. m : g[i] = step(g, i)
           kept == CHOOSE g : g = [i \in 0 .. n |-> step(g, i)]
           prefix(i) == \A j \in 1 .. i : ~Closed(lane[j]) => InLane(lane[j], kept[i])
           origin(i) == \A x : InLane(x, kept[i]) => \E j \in 1 .. i : lane[j] = x
           good(i) == kept[i] \in Seq(S) /\ prefix(i) /\ origin(i)
                      /\ (Distinct(lane) => Distinct(kept[i]))
<1>1. /\ n \in Nat
      /\ DOMAIN lane = 1 .. n
      /\ \A i \in 1 .. n : lane[i] \in S
  BY LenProperties
<1> HIDE DEF n
<1>2. \A m \in 0 .. n : \E g : upto(g, m)
  <2> DEFINE bad == {m \in 0 .. n : ~ \E g : upto(g, m)}
  <2>1. SUFFICES ASSUME bad # {}
                 PROVE  FALSE
    OBVIOUS
  <2>2. PICK m \in bad : \A k \in bad : m <= k
    <3> HIDE DEF bad
    <3>1. bad \in SUBSET (0 .. n)
      BY DEF bad
    <3>2. QED
      BY <1>1, <2>1, <3>1, BoundedMin
  <2>3. CASE m = 0
    <3>1. upto([i \in {0} |-> <<>>], 0)
      OBVIOUS
    <3>2. QED
      BY <2>2, <2>3, <3>1
  <2>4. CASE m > 0
    <3>1. m - 1 \in 0 .. n /\ m - 1 \notin bad
      <4>1. m \in 0 .. n
        OBVIOUS
      <4> HIDE DEF bad
      <4>2. QED
        BY <1>1, <2>2, <2>4, <4>1
    <3>2. PICK g : upto(g, m - 1)
      <4> HIDE DEF upto
      <4>1. QED
        BY <3>1
    <3> DEFINE h == [i \in 0 .. m |-> IF i < m THEN g[i] ELSE step(g, m)]
    <3>3. step(g, m) \in Seq(S)
      BY <1>1, <2>2, <2>4, <3>2
    <3>4. h \in [0 .. m -> Seq(S)]
      BY <2>2, <2>4, <3>2, <3>3
    <3>5. \A i \in 0 .. m : h[i] = step(h, i)
      <4>1. ASSUME NEW i \in 0 .. m
            PROVE  h[i] = step(g, i) /\ step(g, i) = step(h, i)
        <5>1. CASE i = m
          BY <2>2, <2>4, <5>1
        <5>2. CASE i < m
          <6>1. i \in 0 .. m - 1
            BY <3>1, <5>2
          <6>2. g[i] = step(g, i)
            <7> HIDE DEF step
            <7>1. QED
              BY <3>2, <6>1
          <6>3. QED
            BY <3>1, <5>2, <6>2
        <5>3. QED
          BY <2>2, <5>1, <5>2
      <4>2. QED
        BY <4>1
    <3>6. QED
      BY <2>2, <3>4, <3>5
  <2>5. QED
    BY <1>1, <2>2, <2>3, <2>4
<1>3. kept = [i \in 0 .. n |-> step(kept, i)]
  <2>1. PICK g : upto(g, n)
    <3> HIDE DEF upto
    <3>1. QED
      BY <1>1, <1>2
  <2>2. g = [i \in 0 .. n |-> step(g, i)]
    BY <2>1
  <2>3. QED
    BY <2>2
<1>4. \A i \in 0 .. n : kept[i] = step(kept, i)
  BY <1>3
<1> HIDE DEF kept
<1>5. \A i \in 0 .. n : good(i)
  <2> DEFINE bad == {m \in 0 .. n : ~good(m)}
  <2>1. SUFFICES ASSUME bad # {}
                 PROVE  FALSE
    OBVIOUS
  <2>2. PICK m \in bad : \A k \in bad : m <= k
    <3> HIDE DEF bad
    <3>1. bad \in SUBSET (0 .. n)
      BY DEF bad
    <3>2. QED
      BY <1>1, <2>1, <3>1, BoundedMin
  <2>3. CASE m = 0
    <3>1. kept[0] = <<>>
      BY <1>1, <1>4
    <3>2. good(0)
      BY <3>1 DEF InLane, Distinct
    <3>3. QED
      BY <2>2, <2>3, <3>2
  <2>4. CASE m > 0 /\ Closed(lane[m])
    <3>1. m - 1 \in 0 .. n /\ good(m - 1)
      <4> HIDE DEF good
      <4>1. m \in 0 .. n
        OBVIOUS
      <4>2. m - 1 \in 0 .. n /\ m - 1 \notin bad
        <5> HIDE DEF bad
        <5>1. QED
          BY <1>1, <2>2, <2>4, <4>1
      <4>3. QED
        BY <4>2
    <3>2. kept[m] = kept[m - 1]
      BY <1>1, <1>4, <2>2, <2>4
    <3>3. prefix(m) /\ origin(m)
      BY <2>2, <2>4, <3>1, <3>2
    <3>4. QED
      BY <2>2, <3>1, <3>2, <3>3
  <2>5. CASE m > 0 /\ ~Closed(lane[m])
    <3>1. m - 1 \in 0 .. n /\ good(m - 1)
      <4> HIDE DEF good
      <4>1. m \in 0 .. n
        OBVIOUS
      <4>2. m - 1 \in 0 .. n /\ m - 1 \notin bad
        <5> HIDE DEF bad
        <5>1. QED
          BY <1>1, <2>2, <2>5, <4>1
      <4>3. QED
        BY <4>2
    <3> DEFINE old == kept[m - 1]
               new == kept[m]
    <3>2. /\ new = Append(old, lane[m])
          /\ lane[m] \in S
      <4>1. m \in 0 .. n
        OBVIOUS
      <4>2. kept[m] = step(kept, m)
        BY <1>4, <4>1
      <4>3. QED
        BY <1>1, <2>5, <4>1, <4>2
    <3>3. /\ new \in Seq(S)
          /\ Len(old) \in Nat
          /\ DOMAIN old = 1 .. Len(old)
          /\ DOMAIN new = 1 .. (Len(old) + 1)
          /\ \A i \in 1 .. Len(old) : new[i] = old[i]
          /\ new[Len(old) + 1] = lane[m]
      <4> HIDE DEF old, new
      <4>1. old \in Seq(S)
        BY <3>1 DEF old
      <4>2. QED
        BY <3>2, <4>1, AppendProperties, LenProperties
    <3>4. prefix(m)
      <4>1. SUFFICES ASSUME NEW j \in 1 .. m, ~Closed(lane[j])
                     PROVE  InLane(lane[j], new)
        OBVIOUS
      <4>2. CASE j = m
        BY <3>3, <4>2 DEF InLane
      <4>3. CASE j < m
        <5>1. InLane(lane[j], old)
          BY <2>2, <3>1, <4>1, <4>3
        <5>2. QED
          BY <3>3, <5>1 DEF InLane
      <4>4. QED
        BY <2>2, <4>2, <4>3
    <3>5. origin(m)
      <4>1. SUFFICES ASSUME NEW x, InLane(x, new)
                     PROVE  \E j \in 1 .. m : lane[j] = x
        OBVIOUS
      <4>2. PICK i \in 1 .. (Len(old) + 1) : new[i] = x
        BY <3>3, <4>1 DEF InLane
      <4>3. CASE i = Len(old) + 1
        BY <2>2, <2>5, <3>3, <4>2, <4>3
      <4>4. CASE i \in 1 .. Len(old)
        <5>1. InLane(x, old)
          BY <3>3, <4>2, <4>4 DEF InLane
        <5>2. QED
          BY <2>2, <3>1, <5>1
      <4>5. QED
        BY <3>3, <4>3, <4>4
    <3>6. Distinct(lane) => Distinct(new)
      <4>1. SUFFICES ASSUME Distinct(lane),
                            NEW i \in 1 .. (Len(old) + 1), NEW j \in 1 .. (Len(old) + 1),
                            i < j, new[i] = new[j]
                     PROVE  FALSE
        BY <3>3 DEF Distinct
      <4>2. CASE j = Len(old) + 1
        <5>1. InLane(lane[m], old)
          <6>1. i \in DOMAIN old /\ new[i] = old[i] /\ new[j] = lane[m]
            BY <3>3, <4>1, <4>2
          <6>2. QED
            BY <4>1, <6>1 DEF InLane
        <5>2. PICK k \in 1 .. (m - 1) : lane[k] = lane[m]
          BY <3>1, <5>1
        <5>3. m \in 1 .. n
          BY <2>5, <3>1
        <5>4. QED
          BY <1>1, <4>1, <5>2, <5>3 DEF Distinct
      <4>3. CASE j <= Len(old)
        <5>1. i \in DOMAIN old /\ j \in DOMAIN old /\ i # j /\ old[i] = old[j]
          BY <3>3, <4>1, <4>3
        <5>2. Distinct(old)
          BY <3>1, <4>1
        <5>3. QED
          BY <5>1, <5>2 DEF Distinct
      <4>4. QED
        BY <3>3, <4>2, <4>3
    <3>7. QED
      BY <2>2, <3>3, <3>4, <3>5, <3>6
  <2>6. QED
    <3>1. m \in 0 .. n
      OBVIOUS
    <3>2. QED
      BY <1>1, <2>3, <2>4, <2>5, <3>1
<1>6. Swept(lane) = IF n \in SweepAt THEN kept[n] ELSE lane
  BY DEF Swept, kept, n
<1>7. good(n)
  <2> HIDE DEF good
  <2>1. QED
    BY <1>1, <1>5
<1>8. CASE n \in SweepAt
  <2>1. \A x : InLane(x, kept[n]) => InLane(x, lane)
    BY <1>1, <1>7 DEF InLane
  <2>2. \A x : InLane(x, lane) /\ ~Closed(x) => InLane(x, kept[n])
    BY <1>1, <1>7 DEF InLane
  <2>3. QED
    BY <1>6, <1>7, <1>8, <2>1, <2>2 DEF Thinned
<1>9. CASE n \notin SweepAt
  BY <1>6, <1>9 DEF Thinned
<1>10. QED
  BY <1>8, <1>9

\* Appending a newcomer adds it and nothing else.
LEMMA AppendEntry ==
  ASSUME NEW S, NEW lane \in Seq(S), NEW e \in S
  PROVE  /\ Append(lane, e) \in Seq(S)
         /\ \A x : InLane(x, Append(lane, e)) <=> InLane(x, lane) \/ x = e
         /\ Distinct(lane) /\ ~InLane(e, lane) => Distinct(Append(lane, e))
<1> DEFINE new == Append(lane, e)
<1>1. /\ new \in Seq(S)
      /\ Len(lane) \in Nat
      /\ DOMAIN lane = 1 .. Len(lane)
      /\ DOMAIN new = 1 .. (Len(lane) + 1)
      /\ \A i \in 1 .. Len(lane) : new[i] = lane[i]
      /\ new[Len(lane) + 1] = e
  BY AppendProperties, LenProperties
<1> HIDE DEF new
<1>2. ASSUME NEW x
      PROVE  InLane(x, new) <=> InLane(x, lane) \/ x = e
  <2>1. ASSUME InLane(x, new)
        PROVE  InLane(x, lane) \/ x = e
    <3>1. PICK i \in 1 .. (Len(lane) + 1) : new[i] = x
      BY <1>1, <2>1 DEF InLane
    <3>2. CASE i = Len(lane) + 1
      BY <1>1, <3>1, <3>2
    <3>3. CASE i \in 1 .. Len(lane)
      BY <1>1, <3>1, <3>3 DEF InLane
    <3>4. QED
      BY <1>1, <3>2, <3>3
  <2>2. ASSUME InLane(x, lane)
        PROVE  InLane(x, new)
    BY <1>1, <2>2 DEF InLane
  <2>3. InLane(e, new)
    BY <1>1 DEF InLane
  <2>4. QED
    BY <2>1, <2>2, <2>3
<1>3. ASSUME Distinct(lane), ~InLane(e, lane)
      PROVE  Distinct(new)
  <2>1. SUFFICES ASSUME NEW i \in 1 .. (Len(lane) + 1), NEW j \in 1 .. (Len(lane) + 1),
                        i < j, new[i] = new[j]
                 PROVE  FALSE
    BY <1>1 DEF Distinct
  <2>2. i \in 1 .. Len(lane) /\ new[i] = lane[i]
    BY <1>1, <2>1
  <2>3. CASE j = Len(lane) + 1
    BY <1>1, <1>3, <2>1, <2>2, <2>3 DEF InLane
  <2>4. CASE j \in 1 .. Len(lane)
    <3>1. i \in DOMAIN lane /\ j \in DOMAIN lane /\ lane[i] = lane[j]
      BY <1>1, <2>1, <2>2, <2>4
    <3>2. i = j
      BY <1>3, <3>1 DEF Distinct
    <3>3. QED
      BY <2>1, <3>2
  <2>5. QED
    BY <1>1, <2>3, <2>4
<1>4. QED
  BY <1>1, <1>2, <1>3 DEF new

\* Taking the head of a lane takes that entry and no other.
LEMMA TailEntry ==
  ASSUME NEW S, NEW lane \in Seq(S), lane # <<>>, Distinct(lane)
  PROVE  /\ Tail(lane) \in Seq(S)
         /\ Head(lane) \in S
         /\ InLane(Head(lane), lane)
         /\ \A x : InLane(x, Tail(lane)) <=> InLane(x, lane) /\ x # Head(lane)
         /\ Distinct(Tail(lane))
<1> DEFINE new == Tail(lane)
<1>1. /\ Len(lane) \in Nat \ {0}
      /\ DOMAIN lane = 1 .. Len(lane)
      /\ Head(lane) = lane[1]
      /\ Head(lane) \in S
      /\ new \in Seq(S)
      /\ DOMAIN new = 1 .. (Len(lane) - 1)
      /\ \A i \in 1 .. (Len(lane) - 1) : new[i] = lane[i + 1]
  BY EmptySeq, LenProperties, HeadTailProperties
<1> HIDE DEF new
<1>2. ASSUME NEW x
      PROVE  InLane(x, new) <=> InLane(x, lane) /\ x # Head(lane)
  <2>1. ASSUME InLane(x, new)
        PROVE  InLane(x, lane) /\ x # Head(lane)
    <3>1. PICK i \in 1 .. (Len(lane) - 1) : new[i] = x
      BY <1>1, <2>1 DEF InLane
    <3>2. i + 1 \in DOMAIN lane /\ 1 \in DOMAIN lane /\ i + 1 # 1 /\ lane[i + 1] = x
      BY <1>1, <3>1
    <3>3. QED
      BY <1>1, <3>2 DEF InLane, Distinct
  <2>2. ASSUME InLane(x, lane), x # Head(lane)
        PROVE  InLane(x, new)
    <3>1. PICK i \in 1 .. Len(lane) : lane[i] = x
      BY <1>1, <2>2 DEF InLane
    <3>2. i - 1 \in DOMAIN new /\ new[i - 1] = x
      BY <1>1, <2>2, <3>1
    <3>3. QED
      BY <3>2 DEF InLane
  <2>3. QED
    BY <2>1, <2>2
<1>3. Distinct(new)
  <2>1. SUFFICES ASSUME NEW i \in 1 .. (Len(lane) - 1), NEW j \in 1 .. (Len(lane) - 1),
                        new[i] = new[j]
                 PROVE  i = j
    BY <1>1 DEF Distinct
  <2>2. i + 1 \in DOMAIN lane /\ j + 1 \in DOMAIN lane /\ lane[i + 1] = lane[j + 1]
    BY <1>1, <2>1
  <2>3. i + 1 = j + 1
    BY <2>2 DEF Distinct
  <2>4. QED
    BY <2>3
<1>4. InLane(Head(lane), lane)
  BY <1>1 DEF InLane
<1>5. QED
  BY <1>1, <1>2, <1>3, <1>4 DEF new

----------------------------------------------------------------------------
(***************************************************************************)
(* Counting the slots in hand.                                             *)
(***************************************************************************)
Held(s) == {p \in Requests \X (1 .. Total) : p[2] <= s[p[1]]}

LEMMA HeldFinite ==
  ASSUME NEW s
  PROVE  IsFiniteSet(Held(s)) /\ Cardinality(Held(s)) \in Nat
<1>1. IsFiniteSet(1 .. Total)
  BY FS_Interval, DownloadsAssumption
<1>2. IsFiniteSet(Requests \X (1 .. Total))
  BY <1>1, FS_Product, DownloadsAssumption, Zenon
<1>3. QED
  BY <1>2, FS_Subset, FS_CardinalityType DEF Held

\* Changing what r has in hand changes the count by just that.
LEMMA HeldUpdate ==
  ASSUME NEW s \in [Requests -> 0 .. Total], NEW r \in Requests, NEW w \in 0 .. Total
  PROVE  Cardinality(Held([s EXCEPT ![r] = w])) = Cardinality(Held(s)) - s[r] + w
<1> DEFINE t == [s EXCEPT ![r] = w]
           others == {p \in Held(s) : p[1] # r}
           column(n) == {r} \X (1 .. n)
<1>1. IsFiniteSet(others) /\ Cardinality(others) \in Nat
  BY HeldFinite, FS_Subset, FS_CardinalityType
<1>2. ASSUME NEW v \in [Requests -> 0 .. Total], \A q \in Requests : q # r => v[q] = s[q]
      PROVE  Cardinality(Held(v)) = Cardinality(others) + v[r]
  <2>1. v[r] \in Nat /\ v[r] <= Total
    BY <1>2, DownloadsAssumption
  <2>2. Held(v) \subseteq others \cup column(v[r])
    BY <1>2, <2>1 DEF Held
  <2>3. others \subseteq Held(v)
    BY <1>2 DEF Held
  <2>4. column(v[r]) \subseteq Held(v)
    BY <2>1, DownloadsAssumption DEF Held
  <2>5. others \cap column(v[r]) = {}
    OBVIOUS
  <2>6. IsFiniteSet(column(v[r])) /\ Cardinality(column(v[r])) = v[r]
    BY <2>1, ColumnCardinality
  <2> HIDE DEF others, column
  <2>7. Cardinality(others \cup column(v[r]))
          = Cardinality(others) + Cardinality(column(v[r])) - Cardinality(others \cap column(v[r]))
    BY <1>1, <2>6, FS_Union
  <2>8. Cardinality(others \cap column(v[r])) = 0
    BY <2>5, FS_EmptySet
  <2>9. Held(v) = others \cup column(v[r])
    BY <2>2, <2>3, <2>4
  <2>10. QED
    BY <1>1, <2>1, <2>6, <2>7, <2>8, <2>9
<1>3. Cardinality(Held(s)) = Cardinality(others) + s[r]
  BY <1>2
<1>4. /\ t \in [Requests -> 0 .. Total]
      /\ t[r] = w
      /\ \A q \in Requests : q # r => t[q] = s[q]
  OBVIOUS
<1>5. Cardinality(Held(t)) = Cardinality(others) + t[r]
  <2> HIDE DEF t, others
  <2>1. QED
    BY <1>2, <1>4
<1>6. QED
  BY <1>1, <1>3, <1>4, <1>5, DownloadsAssumption

----------------------------------------------------------------------------
(***************************************************************************)
(* The inductive invariant.  TypeOK, Conservation and NoStrandedWaiter are *)
(* not inductive by themselves: that nobody is stranded when the last      *)
(* release ends needs every entry of a lane to be a call that still counts *)
(* on it, and that the slots in hand are those of the calls that are busy. *)
(***************************************************************************)
Queueing(r) == InLane(r, urgent) \/ InLane(r, background)
Pending(r) == call[r] \in {"waiting", "left"}
Busy(r) == call[r] \in {"granted", "returning", "sending"}

LaneInv ==
    /\ Distinct(urgent)
    /\ Distinct(background)
    /\ \A r \in Requests : Queueing(r) => Pending(r)
    /\ \A r \in Requests : Pending(r) => Queueing(r) \/ \E s \in Requests : target[s] = r

TargetInv ==
    /\ \A s \in Requests : call[s] = "sending" <=> target[s] # None
    /\ \A s \in Requests : target[s] # None =>
         /\ Pending(target[s])
         /\ ~Queueing(target[s])
         /\ slots[s] = Weight(target[s])
    /\ \A s, t \in Requests : target[s] = target[t] /\ target[s] # None => s = t

SlotInv ==
    \A r \in Requests :
        /\ ~Busy(r) => slots[r] = 0
        /\ call[r] = "granted" => slots[r] = Weight(r)

BusyInv == (\E r \in Requests : Queueing(r)) => \E r \in Requests : Busy(r)

Inv == TypeOK /\ LaneInv /\ TargetInv /\ SlotInv /\ Conservation /\ BusyInv

LEMMA WeightType ==
  ASSUME NEW r \in Requests
  PROVE  Weight(r) \in 1 .. Total
BY DownloadsAssumption DEF Weight

LEMMA InitInv == Init => Inv
<1> SUFFICES ASSUME Init
             PROVE  Inv
  OBVIOUS
<1>1. TypeOK
  BY DownloadsAssumption DEF Init, TypeOK, Phases
<1>2. LaneInv /\ BusyInv
  BY DEF Init, LaneInv, BusyInv, Distinct, Queueing, Pending, InLane
<1>3. TargetInv
  BY DEF Init, TargetInv
<1>4. SlotInv
  BY DEF Init, SlotInv, Busy
<1>5. Conservation
  <2>1. Taken = {}
    BY DEF Init, Taken
  <2>2. QED
    BY <2>1, FS_EmptySet, DownloadsAssumption DEF Init, Conservation
<1>6. QED
  BY <1>1, <1>2, <1>3, <1>4, <1>5 DEF Inv

\* The parts of an acquisition and a release that concern the count.
LEMMA Counting ==
  ASSUME TypeOK, Conservation
  PROVE  /\ Cardinality(Held(slots)) \in Nat
         /\ free + Cardinality(Held(slots)) = Total
         /\ Taken = Held(slots)
BY HeldFinite DEF Conservation, Held, Taken

LEMMA ConservationNext ==
  ASSUME free' \in Nat, free' + Cardinality(Held(slots')) = Total
  PROVE  Conservation' /\ free' \in 0 .. Total
<1>1. Cardinality(Held(slots')) \in Nat
  BY HeldFinite
<1>2. Taken' = Held(slots')
  BY DEF Taken, Held
<1>3. QED
  BY <1>1, <1>2, DownloadsAssumption DEF Conservation

LEMMA AcquireNowInv ==
  ASSUME Inv, NEW r \in Requests, AcquireNow(r)
  PROVE  Inv'
<1>1. /\ call[r] = "idle" /\ free >= Weight(r) /\ slots[r] = 0
      /\ Weight(r) \in 1 .. Total
  BY WeightType DEF AcquireNow, CanAcquire, Inv, SlotInv, Busy
<1>2. /\ free' = free - Weight(r)
      /\ call' = [call EXCEPT ![r] = "granted"]
      /\ slots' = [slots EXCEPT ![r] = Weight(r)]
      /\ UNCHANGED <<urgent, background, target>>
  BY DEF AcquireNow
<1>3. Conservation' /\ free' \in 0 .. Total
  <2>1. Cardinality(Held(slots')) = Cardinality(Held(slots)) - slots[r] + Weight(r)
    <3>1. slots \in [Requests -> 0 .. Total] /\ Weight(r) \in 0 .. Total
      BY <1>1, DownloadsAssumption DEF Inv, TypeOK
    <3>2. QED
      BY <1>2, <3>1, HeldUpdate
  <2>2. /\ Cardinality(Held(slots)) \in Nat
        /\ free + Cardinality(Held(slots)) = Total
        /\ free \in Nat
    BY Counting DEF Inv, TypeOK
  <2>3. free' \in Nat /\ free' + Cardinality(Held(slots')) = Total
    BY <1>1, <1>2, <2>1, <2>2
  <2>4. QED
    BY <2>3, ConservationNext
<1>4. TypeOK'
  BY <1>1, <1>2, <1>3 DEF Inv, TypeOK, Phases
<1>5. LaneInv'
  BY <1>1, <1>2 DEF Inv, TypeOK, LaneInv, Pending, Queueing, InLane, Distinct
<1>6. TargetInv'
  BY <1>1, <1>2 DEF Inv, TypeOK, TargetInv, Pending, Queueing, InLane, Weight
<1>7. SlotInv'
  BY <1>1, <1>2 DEF Inv, TypeOK, SlotInv, Busy, Weight
<1>8. BusyInv'
  BY <1>1, <1>2 DEF Inv, TypeOK, BusyInv, Busy
<1>9. QED
  BY <1>3, <1>4, <1>5, <1>6, <1>7, <1>8 DEF Inv

\* Unchanged slots and free slots keep their sum.
LEMMA SameCount ==
  ASSUME Inv, UNCHANGED <<free, slots>>
  PROVE  Conservation' /\ free' \in 0 .. Total
BY DEF Inv, TypeOK, Conservation, Taken

LEMMA LeaveInv ==
  ASSUME Inv, NEW r \in Requests, Leave(r)
  PROVE  Inv'
<1>1. /\ call[r] = "waiting"
      /\ call' = [call EXCEPT ![r] = "left"]
      /\ UNCHANGED <<free, urgent, background, slots, target>>
  BY DEF Leave
<1>2. Conservation' /\ free' \in 0 .. Total
  BY <1>1, SameCount
<1>3. TypeOK'
  BY <1>1, <1>2 DEF Inv, TypeOK, Phases
<1>4. LaneInv'
  BY <1>1 DEF Inv, TypeOK, LaneInv, Pending, Queueing, InLane, Distinct
<1>5. TargetInv'
  BY <1>1 DEF Inv, TypeOK, TargetInv, Pending, Queueing, InLane, Weight
<1>6. SlotInv'
  BY <1>1 DEF Inv, TypeOK, SlotInv, Busy, Weight
<1>7. BusyInv'
  BY <1>1 DEF Inv, TypeOK, BusyInv, Busy, Queueing, InLane
<1>8. QED
  BY <1>2, <1>3, <1>4, <1>5, <1>6, <1>7 DEF Inv

LEMMA DropPermitInv ==
  ASSUME Inv, NEW r \in Requests, DropPermit(r)
  PROVE  Inv'
<1>1. /\ call[r] = "granted"
      /\ call' = [call EXCEPT ![r] = "returning"]
      /\ UNCHANGED <<free, urgent, background, slots, target>>
  BY DEF DropPermit
<1>2. Conservation' /\ free' \in 0 .. Total
  BY <1>1, SameCount
<1>3. TypeOK'
  BY <1>1, <1>2 DEF Inv, TypeOK, Phases
<1>4. LaneInv'
  BY <1>1 DEF Inv, TypeOK, LaneInv, Pending, Queueing, InLane, Distinct
<1>5. TargetInv'
  BY <1>1 DEF Inv, TypeOK, TargetInv, Pending, Queueing, InLane, Weight
<1>6. SlotInv'
  BY <1>1 DEF Inv, TypeOK, SlotInv, Busy, Weight
<1>7. BusyInv'
  BY <1>1 DEF Inv, TypeOK, BusyInv, Busy, Queueing, InLane
<1>8. QED
  BY <1>2, <1>3, <1>4, <1>5, <1>6, <1>7 DEF Inv

LEMMA SendFailedInv ==
  ASSUME Inv, NEW r \in Requests, SendFailed(r)
  PROVE  Inv'
<1> DEFINE w == target[r]
<1>1. /\ call[r] = "sending" /\ w \in Requests /\ w # None /\ call[w] = "left" /\ w # r
      /\ call' = [call EXCEPT ![w] = "idle", ![r] = "returning"]
      /\ target' = [target EXCEPT ![r] = None]
      /\ UNCHANGED <<free, urgent, background, slots>>
  BY DEF SendFailed, Closed, Inv, TypeOK, TargetInv
<1>2. ~Queueing(w) /\ \A s \in Requests : s # r => target[s] # w
  BY <1>1 DEF Inv, TypeOK, TargetInv
<1> HIDE DEF w
<1>3. Conservation' /\ free' \in 0 .. Total
  BY <1>1, SameCount
<1>4. TypeOK'
  BY <1>1, <1>3 DEF Inv, TypeOK, Phases
<1>5. LaneInv'
  <2>1. Distinct(urgent)' /\ Distinct(background)'
    BY <1>1 DEF Inv, LaneInv, Distinct
  <2>2. \A q \in Requests : Queueing(q)' <=> Queueing(q)
    BY <1>1 DEF Queueing, InLane
  <2>3. ~Queueing(r)
    BY <1>1 DEF Inv, LaneInv, Pending
  <2>4. \A q \in Requests : Pending(q)' <=> Pending(q) /\ q # w
    BY <1>1 DEF Inv, TypeOK, Pending
  <2>5. ASSUME NEW q \in Requests, Pending(q), q # w
        PROVE  Queueing(q) \/ \E s \in Requests : target'[s] = q
    <3>1. CASE \E s \in Requests : target[s] = q
      <4>1. PICK s \in Requests : target[s] = q
        BY <3>1
      <4>2. s # r
        BY <2>5, <4>1 DEF w
      <4>3. target'[s] = q
        BY <1>1, <4>1, <4>2 DEF Inv, TypeOK
      <4>4. QED
        BY <4>3
    <3>2. QED
      BY <2>5, <3>1 DEF Inv, LaneInv
  <2>6. QED
    BY <1>2, <2>1, <2>2, <2>3, <2>4, <2>5 DEF Inv, LaneInv
<1>6. TargetInv'
  BY <1>1, <1>2 DEF Inv, TypeOK, TargetInv, Pending, Queueing, InLane, Weight
<1>7. SlotInv'
  BY <1>1 DEF Inv, TypeOK, SlotInv, Busy, Weight
<1>8. BusyInv'
  BY <1>1 DEF Inv, TypeOK, BusyInv, Busy
<1>9. QED
  BY <1>3, <1>4, <1>5, <1>6, <1>7, <1>8 DEF Inv

LEMMA SendOkInv ==
  ASSUME Inv, NEW r \in Requests, SendOk(r)
  PROVE  Inv'
<1> DEFINE w == target[r]
<1>1. /\ call[r] = "sending" /\ w \in Requests /\ w # None /\ call[w] = "waiting" /\ w # r
      /\ call' = [call EXCEPT ![w] = "granted", ![r] = "returning"]
      /\ slots' = [slots EXCEPT ![w] = slots[r], ![r] = 0]
      /\ target' = [target EXCEPT ![r] = None]
      /\ UNCHANGED <<free, urgent, background>>
  BY DEF SendOk, Inv, TypeOK, TargetInv
<1>2. /\ ~Queueing(w)
      /\ \A s \in Requests : s # r => target[s] # w
      /\ slots[r] = Weight(w)
      /\ slots[w] = 0
  BY <1>1 DEF Inv, TypeOK, TargetInv, SlotInv, Busy
<1> HIDE DEF w
<1>3. Conservation' /\ free' \in 0 .. Total
  <2> DEFINE moved == [slots EXCEPT ![w] = slots[r]]
  <2>1. /\ slots \in [Requests -> 0 .. Total]
        /\ slots[r] \in 0 .. Total
        /\ moved \in [Requests -> 0 .. Total]
        /\ moved[r] = slots[r]
        /\ slots' = [moved EXCEPT ![r] = 0]
        /\ 0 \in 0 .. Total
    BY <1>1, DownloadsAssumption DEF Inv, TypeOK
  <2>2. Cardinality(Held(moved)) = Cardinality(Held(slots)) - slots[w] + slots[r]
    <3>1. \A v \in 0 .. Total :
            Cardinality(Held([slots EXCEPT ![w] = v])) = Cardinality(Held(slots)) - slots[w] + v
      BY <1>1, <2>1, HeldUpdate
    <3>2. QED
      BY <2>1, <3>1
  <2> HIDE DEF moved
  <2>3. Cardinality(Held(slots')) = Cardinality(Held(moved)) - moved[r] + 0
    BY <2>1, HeldUpdate
  <2>4. /\ Cardinality(Held(slots)) \in Nat
        /\ free + Cardinality(Held(slots)) = Total
        /\ free \in Nat
    BY Counting DEF Inv, TypeOK
  <2>5. free' \in Nat /\ free' + Cardinality(Held(slots')) = Total
    BY <1>1, <1>2, <2>1, <2>2, <2>3, <2>4
  <2>6. QED
    BY <2>5, ConservationNext
<1>4. TypeOK'
  <2>1. slots' \in [Requests -> 0 .. Total]
    <3>1. slots \in [Requests -> 0 .. Total] /\ slots[r] \in 0 .. Total /\ 0 \in 0 .. Total
      BY DownloadsAssumption DEF Inv, TypeOK
    <3>2. QED
      BY <1>1, <3>1
  <2>2. call' \in [Requests -> Phases] /\ target' \in [Requests -> Requests \cup {None}]
    BY <1>1 DEF Inv, TypeOK, Phases
  <2>3. QED
    BY <1>1, <1>3, <2>1, <2>2 DEF Inv, TypeOK
<1>5. LaneInv'
  <2>1. Distinct(urgent)' /\ Distinct(background)'
    BY <1>1 DEF Inv, LaneInv, Distinct
  <2>2. \A q \in Requests : Queueing(q)' <=> Queueing(q)
    BY <1>1 DEF Queueing, InLane
  <2>3. ~Queueing(r)
    BY <1>1 DEF Inv, LaneInv, Pending
  <2>4. \A q \in Requests : Pending(q)' <=> Pending(q) /\ q # w
    BY <1>1 DEF Inv, TypeOK, Pending
  <2>5. ASSUME NEW q \in Requests, Pending(q), q # w
        PROVE  Queueing(q) \/ \E s \in Requests : target'[s] = q
    <3>1. CASE \E s \in Requests : target[s] = q
      <4>1. PICK s \in Requests : target[s] = q
        BY <3>1
      <4>2. s # r
        BY <2>5, <4>1 DEF w
      <4>3. target'[s] = q
        BY <1>1, <4>1, <4>2 DEF Inv, TypeOK
      <4>4. QED
        BY <4>3
    <3>2. QED
      BY <2>5, <3>1 DEF Inv, LaneInv
  <2>6. QED
    BY <1>2, <2>1, <2>2, <2>3, <2>4, <2>5 DEF Inv, LaneInv
<1>6. TargetInv'
  BY <1>1, <1>2 DEF Inv, TypeOK, TargetInv, Pending, Queueing, InLane, Weight
<1>7. SlotInv'
  BY <1>1, <1>2 DEF Inv, TypeOK, SlotInv, Busy, Weight
<1>8. BusyInv'
  BY <1>1 DEF Inv, TypeOK, BusyInv, Busy
<1>9. QED
  BY <1>3, <1>4, <1>5, <1>6, <1>7, <1>8 DEF Inv

\* If all slots are in nobody's hands, they are all free.
LEMMA NobodyBusy ==
  ASSUME NEW s \in [Requests -> 0 .. Total], \A q \in Requests : s[q] = 0
  PROVE  Cardinality(Held(s)) = 0
<1>1. Held(s) = {}
  BY DEF Held
<1>2. QED
  BY <1>1, FS_EmptySet

LEMMA AcquireWaitInv ==
  ASSUME Inv, NEW r \in Requests, AcquireWait(r)
  PROVE  Inv'
<1> DEFINE sweptU == IF r \in Urgent THEN Swept(urgent) ELSE urgent
           sweptB == IF r \in Urgent THEN background ELSE Swept(background)
<1>1. /\ call[r] = "idle"
      /\ ~CanAcquire(r)
      /\ urgent' = IF r \in Urgent THEN Append(sweptU, r) ELSE sweptU
      /\ background' = IF r \in Urgent THEN sweptB ELSE Append(sweptB, r)
      /\ call' = [Forget(call, urgent', background') EXCEPT ![r] = "waiting"]
      /\ UNCHANGED <<free, slots, target>>
  BY DEF AcquireWait
<1>2. /\ sweptU \in Seq(Urgent) /\ Thinned(urgent, sweptU)
      /\ sweptB \in Seq(Requests \ Urgent) /\ Thinned(background, sweptB)
  BY SweptThins DEF Inv, TypeOK, Thinned
<1> HIDE DEF sweptU, sweptB
<1>3. ~Queueing(r) /\ ~InLane(r, sweptU) /\ ~InLane(r, sweptB)
  BY <1>1, <1>2 DEF Inv, LaneInv, Pending, Queueing, Thinned
<1>4. /\ urgent' \in Seq(Urgent) /\ background' \in Seq(Requests \ Urgent)
      /\ Distinct(urgent') /\ Distinct(background')
      /\ \A q \in Requests :
           InLane(q, urgent') \/ InLane(q, background')
             <=> InLane(q, sweptU) \/ InLane(q, sweptB) \/ q = r
  <2>1. Distinct(sweptU) /\ Distinct(sweptB)
    BY <1>2 DEF Inv, LaneInv, Thinned
  <2>2. CASE r \in Urgent
    BY <1>1, <1>2, <1>3, <2>1, <2>2, AppendEntry
  <2>3. CASE r \notin Urgent
    BY <1>1, <1>2, <1>3, <2>1, <2>3, AppendEntry
  <2>4. QED
    BY <2>2, <2>3
<1>5. ASSUME NEW q \in Requests, q # r
      PROVE  \/ call'[q] = call[q] /\ (Queueing(q)' <=> Queueing(q))
             \/ call[q] = "left" /\ call'[q] = "idle" /\ Queueing(q) /\ ~Queueing(q)'
  <2>1. Queueing(q)' => Queueing(q)
    BY <1>2, <1>4, <1>5 DEF Queueing, Thinned
  <2>2. Queueing(q) /\ ~Closed(q) => Queueing(q)'
    BY <1>2, <1>4, <1>5 DEF Queueing, Thinned
  <2>3. call'[q] = Forget(call, urgent', background')[q]
    BY <1>1, <1>5 DEF Forget
  <2>4. QED
    BY <2>1, <2>2, <2>3 DEF Forget, Queueing, Closed
<1>6. call'[r] = "waiting" /\ Queueing(r)' /\ call' \in [Requests -> Phases]
  BY <1>1, <1>4 DEF Forget, Queueing, Inv, TypeOK, Phases
<1>7. Conservation' /\ free' \in 0 .. Total
  BY <1>1, SameCount
<1>8. TypeOK'
  BY <1>1, <1>4, <1>6, <1>7 DEF Inv, TypeOK
<1>9. LaneInv'
  <2>1. Distinct(urgent)' /\ Distinct(background)'
    BY <1>4 DEF Distinct
  <2>2. \A q \in Requests : Queueing(q)' => Pending(q)'
    BY <1>5, <1>6 DEF Inv, LaneInv, Pending
  <2>3. \A q \in Requests : Pending(q)' => Queueing(q)' \/ \E s \in Requests : target'[s] = q
    BY <1>1, <1>5, <1>6 DEF Inv, LaneInv, Pending
  <2>4. QED
    BY <2>1, <2>2, <2>3 DEF LaneInv
<1>10. TargetInv'
  <2>1. \A s \in Requests : target[s] # r
    <3>1. r # None /\ ~Pending(r)
      BY <1>1, DownloadsAssumption DEF Pending
    <3>2. QED
      BY <3>1 DEF Inv, TargetInv
  <2>2. \A s \in Requests : call'[s] = "sending" <=> call[s] = "sending"
    BY <1>1, <1>5, <1>6
  <2>3. ASSUME NEW s \in Requests, NEW q \in Requests, q = target[s]
        PROVE  Pending(q)' /\ ~Queueing(q)'
    <3>1. q # r /\ q # None /\ Pending(q) /\ ~Queueing(q)
      BY <2>1, <2>3, DownloadsAssumption DEF Inv, TargetInv
    <3>2. call'[q] = call[q] /\ ~Queueing(q)'
      BY <1>5, <3>1
    <3>3. QED
      BY <3>1, <3>2 DEF Pending
  <2>4. ASSUME NEW s \in Requests, target[s] # None
        PROVE  Pending(target[s])' /\ ~Queueing(target[s])'
    <3>1. target[s] \in Requests /\ target'[s] = target[s]
      BY <1>1, <2>4 DEF Inv, TypeOK
    <3>2. QED
      BY <2>3, <3>1 DEF Pending, Queueing
  <2>5. QED
    BY <1>1, <2>2, <2>4 DEF Inv, TargetInv, Weight
<1>11. SlotInv'
  BY <1>1, <1>5, <1>6 DEF Inv, SlotInv, Busy
<1>12. BusyInv'
  <2>1. \A q \in Requests : Busy(q) => Busy(q)'
    BY <1>1, <1>5 DEF Busy
  <2>2. CASE \E q \in Requests : Queueing(q)
    BY <2>1, <2>2 DEF Inv, BusyInv
  <2>3. CASE ~ \E q \in Requests : Queueing(q)
    <3>1. urgent = <<>> /\ background = <<>>
      <4>1. urgent \in Seq(Requests) /\ background \in Seq(Requests)
        BY DownloadsAssumption, SeqMonotonic DEF Inv, TypeOK
      <4>2. urgent # <<>> => InLane(urgent[1], urgent) /\ urgent[1] \in Requests
        BY <4>1, EmptySeq, LenProperties DEF InLane
      <4>3. background # <<>> => InLane(background[1], background) /\ background[1] \in Requests
        BY <4>1, EmptySeq, LenProperties DEF InLane
      <4>4. QED
        BY <2>3, <4>2, <4>3 DEF Queueing
    <3>2. free < Weight(r)
      BY <1>1, <3>1, WeightType DEF CanAcquire, Queued, Inv, TypeOK
    <3>3. SUFFICES ASSUME \A q \in Requests : ~Busy(q)
                   PROVE  FALSE
      BY <2>1 DEF BusyInv
    <3>4. Cardinality(Held(slots)) = 0
      BY <3>3, NobodyBusy DEF Inv, SlotInv, TypeOK
    <3>5. free = Total
      BY <3>4, Counting DEF Inv, TypeOK
    <3>6. QED
      BY <3>2, <3>5, WeightType, DownloadsAssumption
  <2>4. QED
    BY <2>2, <2>3
<1>13. QED
  BY <1>7, <1>8, <1>9, <1>10, <1>11, <1>12 DEF Inv

(***************************************************************************)
(* What both ways through the locked part of `release` share: closed       *)
(* entries leave the fronts of the lanes, and their calls are forgotten.   *)
(***************************************************************************)
LEMMA FrontsDropped ==
  ASSUME Inv
  PROVE  LET u == DropClosed(urgent)
             b == DropClosed(background)
         IN  /\ u \in Seq(Urgent) /\ Distinct(u)
             /\ b \in Seq(Requests \ Urgent) /\ Distinct(b)
             /\ NextLane(u, b) # <<>> =>
                  LET next == Head(NextLane(u, b))
                  IN  /\ next \in Requests
                      /\ call[next] = "waiting"
                      /\ Queueing(next)
                      /\ InLane(next, u) \/ InLane(next, b)
             /\ \A q \in Requests :
                  \/ /\ Forget(call, u, b)[q] = call[q]
                     /\ Queueing(q) <=> InLane(q, u) \/ InLane(q, b)
                  \/ /\ Forget(call, u, b)[q] = "idle" /\ call[q] = "left"
                     /\ Queueing(q) /\ ~InLane(q, u) /\ ~InLane(q, b)
             /\ Forget(call, u, b) \in [Requests -> Phases]
<1> DEFINE u == DropClosed(urgent)
           b == DropClosed(background)
           next == Head(NextLane(u, b))
<1>1. /\ u \in Seq(Urgent) /\ Thinned(urgent, u)
      /\ u # <<>> => ~Closed(Head(u)) /\ InLane(Head(u), urgent)
  BY DropClosedThins DEF Inv, TypeOK
<1>2. /\ b \in Seq(Requests \ Urgent) /\ Thinned(background, b)
      /\ b # <<>> => ~Closed(Head(b)) /\ InLane(Head(b), background)
  BY DropClosedThins DEF Inv, TypeOK
<1> HIDE DEF u, b
<1>3. Distinct(u) /\ Distinct(b)
  BY <1>1, <1>2 DEF Inv, LaneInv, Thinned
<1>4. ASSUME NextLane(u, b) # <<>>
      PROVE  /\ next \in Requests
             /\ call[next] = "waiting"
             /\ Queueing(next)
             /\ InLane(next, u) \/ InLane(next, b)
  <2>1. /\ next \in Requests /\ ~Closed(next) /\ Queueing(next)
        /\ InLane(next, u) \/ InLane(next, b)
    <3>1. CASE u = <<>>
      BY <1>2, <1>3, <1>4, <3>1, TailEntry, DownloadsAssumption DEF NextLane, Queueing
    <3>2. CASE u # <<>>
      BY <1>1, <1>3, <1>4, <3>2, TailEntry, DownloadsAssumption DEF NextLane, Queueing
    <3>3. QED
      BY <3>1, <3>2
  <2>2. QED
    BY <2>1 DEF Inv, LaneInv, Pending, Closed
<1>5. ASSUME NEW q \in Requests
      PROVE  \/ /\ Forget(call, u, b)[q] = call[q]
                /\ Queueing(q) <=> InLane(q, u) \/ InLane(q, b)
             \/ /\ Forget(call, u, b)[q] = "idle" /\ call[q] = "left"
                /\ Queueing(q) /\ ~InLane(q, u) /\ ~InLane(q, b)
  <2>1. InLane(q, u) \/ InLane(q, b) => Queueing(q)
    BY <1>1, <1>2 DEF Queueing, Thinned
  <2>2. Queueing(q) /\ ~Closed(q) => InLane(q, u) \/ InLane(q, b)
    BY <1>1, <1>2 DEF Queueing, Thinned
  <2>3. QED
    BY <2>1, <2>2 DEF Forget, Queueing, Closed
<1>6. Forget(call, u, b) \in [Requests -> Phases]
  BY DEF Forget, Inv, TypeOK, Phases
<1>7. QED
  BY <1>1, <1>2, <1>3, <1>4, <1>5, <1>6 DEF u, b

LEMMA EndReleaseInv ==
  ASSUME Inv, NEW r \in Requests, EndRelease(r)
  PROVE  Inv'
<1> DEFINE u == DropClosed(urgent)
           b == DropClosed(background)
<1>1. /\ call[r] = "returning"
      /\ ~Fits(r, u, b)
      /\ free' = Freed(r)
      /\ urgent' = u
      /\ background' = b
      /\ call' = [Forget(call, u, b) EXCEPT ![r] = "idle"]
      /\ slots' = [slots EXCEPT ![r] = 0]
      /\ UNCHANGED target
  BY DEF EndRelease
<1>2. /\ u \in Seq(Urgent) /\ Distinct(u)
      /\ b \in Seq(Requests \ Urgent) /\ Distinct(b)
      /\ NextLane(u, b) # <<>> => Head(NextLane(u, b)) \in Requests
      /\ Forget(call, u, b) \in [Requests -> Phases]
  BY FrontsDropped
<1>3. ASSUME NEW q \in Requests
      PROVE  \/ /\ Forget(call, u, b)[q] = call[q]
                /\ Queueing(q) <=> InLane(q, u) \/ InLane(q, b)
             \/ /\ Forget(call, u, b)[q] = "idle" /\ call[q] = "left"
                /\ Queueing(q) /\ ~InLane(q, u) /\ ~InLane(q, b)
  BY FrontsDropped
<1> HIDE DEF u, b
<1>4. ~Queueing(r) /\ call'[r] = "idle" /\ ~Queueing(r)'
  <2>1. ~Queueing(r)
    BY <1>1 DEF Inv, LaneInv, Pending
  <2>2. QED
    BY <1>1, <1>2, <1>3, <2>1 DEF Queueing
<1>5. ASSUME NEW q \in Requests, q # r
      PROVE  \/ call'[q] = call[q] /\ (Queueing(q)' <=> Queueing(q))
             \/ call[q] = "left" /\ call'[q] = "idle" /\ Queueing(q) /\ ~Queueing(q)'
  <2>1. call'[q] = Forget(call, u, b)[q]
    BY <1>1, <1>5 DEF Forget
  <2>2. QED
    BY <1>1, <1>3, <2>1 DEF Queueing
<1>6. Conservation' /\ free' \in 0 .. Total
  <2>1. slots \in [Requests -> 0 .. Total] /\ slots[r] \in Nat /\ 0 \in 0 .. Total
    BY DownloadsAssumption DEF Inv, TypeOK
  <2>2. Cardinality(Held(slots')) = Cardinality(Held(slots)) - slots[r] + 0
    BY <1>1, <2>1, HeldUpdate
  <2>3. /\ Cardinality(Held(slots)) \in Nat
        /\ free + Cardinality(Held(slots)) = Total
        /\ free \in Nat
    BY Counting DEF Inv, TypeOK
  <2>4. free' \in Nat /\ free' + Cardinality(Held(slots')) = Total
    BY <1>1, <2>1, <2>2, <2>3, DownloadsAssumption DEF Freed
  <2>5. QED
    BY <2>4, ConservationNext
<1>7. TypeOK'
  <2>1. slots' \in [Requests -> 0 .. Total]
    BY <1>1, DownloadsAssumption DEF Inv, TypeOK
  <2>2. call' \in [Requests -> Phases]
    BY <1>1, <1>2 DEF Phases
  <2>3. QED
    BY <1>1, <1>2, <1>6, <2>1, <2>2 DEF Inv, TypeOK
<1>8. LaneInv'
  <2>1. Distinct(urgent)' /\ Distinct(background)'
    BY <1>1, <1>2 DEF Distinct
  <2>2. \A q \in Requests : Queueing(q)' => Pending(q)'
    BY <1>4, <1>5 DEF Inv, LaneInv, Pending
  <2>3. \A q \in Requests : Pending(q)' => Queueing(q)' \/ \E s \in Requests : target'[s] = q
    BY <1>1, <1>4, <1>5 DEF Inv, LaneInv, Pending
  <2>4. QED
    BY <2>1, <2>2, <2>3 DEF LaneInv
<1>9. TargetInv'
  <2>1. \A s \in Requests : target[s] # r
    <3>1. r # None /\ ~Pending(r)
      BY <1>1, DownloadsAssumption DEF Pending
    <3>2. QED
      BY <3>1 DEF Inv, TargetInv
  <2>2. \A s \in Requests : call'[s] = "sending" <=> call[s] = "sending"
    BY <1>1, <1>4, <1>5
  <2>3. ASSUME NEW s \in Requests, NEW q \in Requests, q = target[s]
        PROVE  Pending(q)' /\ ~Queueing(q)'
    <3>1. q # r /\ q # None /\ Pending(q) /\ ~Queueing(q)
      BY <2>1, <2>3, DownloadsAssumption DEF Inv, TargetInv
    <3>2. call'[q] = call[q] /\ ~Queueing(q)'
      BY <1>5, <3>1
    <3>3. QED
      BY <3>1, <3>2 DEF Pending
  <2>4. ASSUME NEW s \in Requests, target[s] # None
        PROVE  /\ Pending(target[s])' /\ ~Queueing(target[s])'
               /\ slots'[s] = slots[s]
    <3>1. target[s] \in Requests /\ target'[s] = target[s]
      BY <1>1, <2>4 DEF Inv, TypeOK
    <3>2. s # r
      BY <1>1, <2>4 DEF Inv, TargetInv
    <3>3. slots'[s] = slots[s]
      BY <1>1, <3>2 DEF Inv, TypeOK
    <3>4. QED
      BY <2>3, <3>1, <3>3 DEF Pending, Queueing
  <2>5. QED
    BY <1>1, <2>2, <2>4 DEF Inv, TargetInv, Weight
<1>10. SlotInv'
  <2>1. \A q \in Requests : q # r => slots'[q] = slots[q]
    BY <1>1 DEF Inv, TypeOK
  <2>2. slots'[r] = 0
    BY <1>1 DEF Inv, TypeOK
  <2>3. QED
    BY <1>4, <1>5, <2>1, <2>2 DEF Inv, SlotInv, Busy, Weight
<1>11. BusyInv'
  <2>1. SUFFICES ASSUME NEW q \in Requests, Queueing(q)', \A s \in Requests : ~Busy(s)'
                 PROVE  FALSE
    BY DEF BusyInv
  <2>2. Cardinality(Held(slots')) = 0
    <3>1. SlotInv' /\ slots' \in [Requests -> 0 .. Total]
      BY <1>7, <1>10 DEF TypeOK
    <3>2. \A s \in Requests : slots'[s] = 0
      BY <2>1, <3>1 DEF SlotInv
    <3>3. QED
      BY <3>1, <3>2, NobodyBusy
  <2>3. free' = Total
    <3>1. Taken' = Held(slots')
      BY DEF Taken, Held
    <3>2. free' + Cardinality(Taken') = Total
      BY <1>6 DEF Conservation
    <3>3. Cardinality(Taken') = 0
      BY <2>2, <3>1
    <3>4. free' \in Nat
      BY <1>6, DownloadsAssumption
    <3>5. QED
      BY <3>2, <3>3, <3>4
  <2>4. NextLane(u, b) # <<>>
    <3>1. InLane(q, u) \/ InLane(q, b)
      BY <1>1, <2>1 DEF Queueing
    <3>2. u # <<>> \/ b # <<>>
      BY <3>1 DEF InLane
    <3>3. QED
      BY <3>2 DEF NextLane
  <2>5. ~(Weight(Head(NextLane(u, b))) <= Total)
    BY <1>1, <2>3, <2>4 DEF Fits
  <2>6. QED
    BY <1>2, <2>4, <2>5, WeightType, DownloadsAssumption
<1>12. QED
  BY <1>6, <1>7, <1>8, <1>9, <1>10, <1>11 DEF Inv

LEMMA HandOnInv ==
  ASSUME Inv, NEW r \in Requests, HandOn(r)
  PROVE  Inv'
<1> DEFINE u == DropClosed(urgent)
           b == DropClosed(background)
           next == Head(NextLane(u, b))
<1>1. /\ call[r] = "returning"
      /\ Fits(r, u, b)
      /\ free' = Freed(r) - Weight(next)
      /\ urgent' = IF u = <<>> THEN u ELSE Tail(u)
      /\ background' = IF u = <<>> THEN Tail(b) ELSE b
      /\ call' = [Forget(call, u, b) EXCEPT ![r] = "sending"]
      /\ slots' = [slots EXCEPT ![r] = Weight(next)]
      /\ target' = [target EXCEPT ![r] = next]
  BY DEF HandOn
<1>2. /\ u \in Seq(Urgent) /\ Distinct(u)
      /\ b \in Seq(Requests \ Urgent) /\ Distinct(b)
      /\ Forget(call, u, b) \in [Requests -> Phases]
  BY FrontsDropped
<1>3. ASSUME NEW q \in Requests
      PROVE  \/ /\ Forget(call, u, b)[q] = call[q]
                /\ Queueing(q) <=> InLane(q, u) \/ InLane(q, b)
             \/ /\ Forget(call, u, b)[q] = "idle" /\ call[q] = "left"
                /\ Queueing(q) /\ ~InLane(q, u) /\ ~InLane(q, b)
  BY FrontsDropped
<1>4. /\ NextLane(u, b) # <<>>
      /\ next \in Requests /\ call[next] = "waiting" /\ Queueing(next)
  <2>1. NextLane(u, b) # <<>>
    BY <1>1 DEF Fits
  <2>2. QED
    BY <2>1, FrontsDropped
<1> HIDE DEF u, b
<1>5. Weight(next) \in 1 .. Total /\ Weight(next) <= Freed(r)
  BY <1>1, <1>4, WeightType DEF Fits
<1>6. /\ urgent' \in Seq(Urgent) /\ background' \in Seq(Requests \ Urgent)
      /\ Distinct(urgent') /\ Distinct(background')
      /\ \A q \in Requests :
           InLane(q, urgent') \/ InLane(q, background')
             <=> (InLane(q, u) \/ InLane(q, b)) /\ q # next
  <2>1. CASE u = <<>>
    <3>1. b # <<>> /\ next = Head(b)
      BY <1>4, <2>1 DEF NextLane
    <3>2. ~InLane(next, u)
      BY <2>1 DEF InLane
    <3>3. urgent' = u /\ background' = Tail(b)
      BY <1>1, <2>1
    <3>4. /\ Tail(b) \in Seq(Requests \ Urgent) /\ Distinct(Tail(b))
          /\ \A q : InLane(q, Tail(b)) <=> InLane(q, b) /\ q # next
      BY <1>2, <3>1, TailEntry
    <3>5. QED
      BY <1>2, <3>2, <3>3, <3>4
  <2>2. CASE u # <<>>
    <3>1. next = Head(u)
      BY <2>2 DEF NextLane
    <3>2. /\ Tail(u) \in Seq(Urgent) /\ Distinct(Tail(u)) /\ next \in Urgent
          /\ \A q : InLane(q, Tail(u)) <=> InLane(q, u) /\ q # next
      BY <1>2, <2>2, <3>1, TailEntry
    <3>3. ~InLane(next, b)
      <4>1. DOMAIN b = 1 .. Len(b) /\ \A i \in 1 .. Len(b) : b[i] \in Requests \ Urgent
        BY <1>2, LenProperties, ElementOfSeq
      <4>2. QED
        BY <3>2, <4>1 DEF InLane
    <3>4. urgent' = Tail(u) /\ background' = b
      BY <1>1, <2>2
    <3>5. QED
      BY <1>2, <3>2, <3>3, <3>4
  <2>3. QED
    BY <2>1, <2>2
<1>7. ~Queueing(r) /\ ~Queueing(r)' /\ call'[r] = "sending" /\ r # next
  <2>1. ~Queueing(r) /\ r # next
    BY <1>1, <1>4 DEF Inv, LaneInv, Pending
  <2>2. ~Queueing(r)'
    BY <1>3, <1>6, <2>1 DEF Queueing
  <2>3. QED
    BY <1>1, <1>2, <2>1, <2>2
<1>8. call'[next] = "waiting" /\ ~(InLane(next, urgent') \/ InLane(next, background'))
  <2>1. Forget(call, u, b)[next] = "waiting"
    BY <1>3, <1>4
  <2>2. QED
    BY <1>1, <1>2, <1>4, <1>6, <1>7, <2>1
<1> HIDE DEF next
<1>9. ASSUME NEW q \in Requests, q # r, q # next
      PROVE  \/ call'[q] = call[q] /\ (Queueing(q)' <=> Queueing(q))
             \/ call[q] = "left" /\ call'[q] = "idle" /\ Queueing(q) /\ ~Queueing(q)'
  <2>1. call'[q] = Forget(call, u, b)[q]
    BY <1>1, <1>9 DEF Forget
  <2>2. QED
    BY <1>3, <1>6, <1>9, <2>1 DEF Queueing
<1>10. Conservation' /\ free' \in 0 .. Total
  <2>1. slots \in [Requests -> 0 .. Total] /\ slots[r] \in Nat /\ Weight(next) \in 0 .. Total
    BY <1>5, DownloadsAssumption DEF Inv, TypeOK
  <2>2. Cardinality(Held(slots')) = Cardinality(Held(slots)) - slots[r] + Weight(next)
    BY <1>1, <2>1, HeldUpdate DEF next
  <2>3. /\ Cardinality(Held(slots)) \in Nat
        /\ free + Cardinality(Held(slots)) = Total
        /\ free \in Nat
    BY Counting DEF Inv, TypeOK
  <2>4. free' = free + slots[r] - Weight(next) /\ Weight(next) <= free + slots[r]
    <3>1. Freed(r) = free + slots[r]
      BY DEF Freed
    <3>2. free' = Freed(r) - Weight(next) /\ Weight(next) <= Freed(r)
      BY <1>1, <1>5
    <3>3. QED
      BY <1>5, <2>1, <2>3, <3>1, <3>2, DownloadsAssumption
  <2>5. free' \in Nat /\ free' + Cardinality(Held(slots')) = Total
    BY <2>1, <2>2, <2>3, <2>4, DownloadsAssumption
  <2>6. QED
    BY <2>5, ConservationNext
<1>11. TypeOK'
  <2>1. slots' \in [Requests -> 0 .. Total]
    <3>1. Weight(next) \in 0 .. Total
      BY <1>5, DownloadsAssumption
    <3>2. QED
      BY <1>1, <3>1 DEF Inv, TypeOK, next
  <2>2. call' \in [Requests -> Phases]
    BY <1>1, <1>2 DEF Phases
  <2>3. target' \in [Requests -> Requests \cup {None}]
    BY <1>1, <1>4 DEF Inv, TypeOK, next
  <2>4. QED
    BY <1>6, <1>10, <2>1, <2>2, <2>3 DEF Inv, TypeOK
<1>12. \A s \in Requests : target[s] # r /\ target[s] # next
  <2>1. r # None /\ ~Pending(r)
    BY <1>1, DownloadsAssumption DEF Pending
  <2>2. next # None /\ Queueing(next)
    BY <1>4, DownloadsAssumption DEF next
  <2>3. QED
    BY <2>1, <2>2 DEF Inv, TargetInv
<1>13. /\ \A s \in Requests : s # r => target'[s] = target[s] /\ slots'[s] = slots[s]
       /\ target'[r] = next
       /\ slots'[r] = Weight(next)
       /\ target[r] = None
       /\ next \in Requests /\ next # None
  BY <1>1, <1>4, DownloadsAssumption DEF Inv, TypeOK, TargetInv, next
<1>14. LaneInv'
  <2>1. Distinct(urgent)' /\ Distinct(background)'
    BY <1>6 DEF Distinct
  <2>2. \A q \in Requests : Queueing(q)' => Pending(q)'
    BY <1>7, <1>8, <1>9 DEF Inv, LaneInv, Pending, Queueing
  <2>3. ASSUME NEW q \in Requests, Pending(q)'
        PROVE  Queueing(q)' \/ \E s \in Requests : target'[s] = q
    <3>1. CASE q = next
      BY <1>13, <3>1
    <3>2. CASE q # next
      <4>1. q # r /\ Pending(q) /\ (Queueing(q) => Queueing(q)')
        BY <1>7, <1>9, <2>3, <3>2 DEF Pending
      <4>2. Queueing(q) \/ \E s \in Requests : target[s] = q
        BY <4>1 DEF Inv, LaneInv
      <4>3. q # None
        BY DownloadsAssumption
      <4>4. QED
        BY <1>13, <4>1, <4>2, <4>3
    <3>3. QED
      BY <3>1, <3>2
  <2>4. QED
    BY <2>1, <2>2, <2>3 DEF LaneInv
<1>15. TargetInv'
  <2>1. ASSUME NEW s \in Requests
        PROVE  call'[s] = "sending" <=> target'[s] # None
    <3>1. CASE s = r
      BY <1>7, <1>13, <3>1
    <3>2. CASE s = next
      <4>1. call[s] # "sending" /\ s # r /\ call'[s] # "sending"
        BY <1>4, <1>7, <1>8, <3>2 DEF next
      <4>2. QED
        BY <1>13, <4>1 DEF Inv, TargetInv
    <3>3. CASE s # r /\ s # next
      BY <1>9, <1>13, <3>3 DEF Inv, TargetInv
    <3>4. QED
      BY <3>1, <3>2, <3>3
  <2>2. ASSUME NEW s \in Requests, NEW q \in Requests, q = target'[s]
        PROVE  Pending(q)' /\ ~Queueing(q)'
    <3>1. CASE s = r
      BY <1>8, <1>13, <2>2, <3>1 DEF Pending, Queueing, next
    <3>2. CASE s # r
      <4>1. q # r /\ q # None /\ q # next /\ Pending(q) /\ ~Queueing(q)
        BY <1>12, <1>13, <2>2, <3>2, DownloadsAssumption DEF Inv, TargetInv
      <4>2. call'[q] = call[q] /\ ~Queueing(q)'
        BY <1>9, <4>1
      <4>3. QED
        BY <4>1, <4>2 DEF Pending
    <3>3. QED
      BY <3>1, <3>2
  <2>3. ASSUME NEW s \in Requests, target'[s] # None
        PROVE  Pending(target[s])' /\ ~Queueing(target[s])' /\ slots'[s] = Weight(target'[s])
    <3>1. target'[s] \in Requests
      BY <1>11, <2>3 DEF TypeOK
    <3>2. slots'[s] = Weight(target'[s])
      BY <1>13, <2>3 DEF Inv, TargetInv
    <3>3. QED
      BY <2>2, <3>1, <3>2 DEF Pending, Queueing
  <2>4. \A s, t \in Requests : target'[s] = target'[t] /\ target'[s] # None => s = t
    BY <1>12, <1>13 DEF Inv, TargetInv
  <2>5. QED
    BY <2>1, <2>3, <2>4 DEF TargetInv, Weight
<1>16. SlotInv'
  <2>1. ASSUME NEW q \in Requests
        PROVE  /\ ~Busy(q)' => slots'[q] = 0
               /\ call'[q] = "granted" => slots'[q] = Weight(q)
    <3>1. CASE q = r
      BY <1>7, <3>1 DEF Busy
    <3>2. CASE q = next
      <4>1. q # r /\ call[q] = "waiting" /\ call'[q] = "waiting"
        BY <1>4, <1>7, <1>8, <3>2 DEF next
      <4>2. QED
        BY <1>13, <4>1 DEF Inv, SlotInv, Busy
    <3>3. CASE q # r /\ q # next
      BY <1>9, <1>13, <3>3 DEF Inv, SlotInv, Busy
    <3>4. QED
      BY <3>1, <3>2, <3>3
  <2>2. QED
    BY <2>1 DEF SlotInv, Weight
<1>17. BusyInv'
  BY <1>7 DEF BusyInv, Busy
<1>18. QED
  BY <1>10, <1>11, <1>14, <1>15, <1>16, <1>17 DEF Inv

----------------------------------------------------------------------------
(***************************************************************************)
(* The theorems.                                                           *)
(***************************************************************************)
\* Every reachable state satisfies the inductive invariant.
THEOREM Invariance == Spec => []Inv
<1>1. Inv /\ [Next]_vars => Inv'
  <2> SUFFICES ASSUME Inv, [Next]_vars
               PROVE  Inv'
    OBVIOUS
  <2>1. ASSUME NEW r \in Requests, AcquireNow(r) PROVE Inv'
    BY <2>1, AcquireNowInv
  <2>2. ASSUME NEW r \in Requests, AcquireWait(r) PROVE Inv'
    BY <2>2, AcquireWaitInv
  <2>3. ASSUME NEW r \in Requests, Leave(r) PROVE Inv'
    BY <2>3, LeaveInv
  <2>4. ASSUME NEW r \in Requests, DropPermit(r) PROVE Inv'
    BY <2>4, DropPermitInv
  <2>5. ASSUME NEW r \in Requests, HandOn(r) PROVE Inv'
    BY <2>5, HandOnInv
  <2>6. ASSUME NEW r \in Requests, EndRelease(r) PROVE Inv'
    BY <2>6, EndReleaseInv
  <2>7. ASSUME NEW r \in Requests, SendOk(r) PROVE Inv'
    BY <2>7, SendOkInv
  <2>8. ASSUME NEW r \in Requests, SendFailed(r) PROVE Inv'
    BY <2>8, SendFailedInv
  <2>9. CASE UNCHANGED vars
    BY <2>9 DEF vars, Inv, TypeOK, LaneInv, TargetInv, SlotInv, BusyInv, Conservation,
                Taken, Distinct, Queueing, Pending, Busy, InLane, Weight
  <2>10. QED
    BY <2>1, <2>2, <2>3, <2>4, <2>5, <2>6, <2>7, <2>8, <2>9 DEF Next
<1>2. QED
  BY InitInv, <1>1, PTL DEF Spec

\* The free slots stay within 0 and Total, and the lanes hold calls of their kind.
THEOREM TypeCorrect == Spec => []TypeOK
<1>1. Inv => TypeOK
  BY DEF Inv
<1>2. QED
  BY Invariance, <1>1, PTL

\* No slot leaks, whoever leaves and whenever.
THEOREM SlotsConserved == Spec => []Conservation
<1>1. Inv => Conservation
  BY DEF Inv
<1>2. QED
  BY Invariance, <1>1, PTL

\* While somebody waits, somebody else still has to release.
THEOREM NobodyStranded == Spec => []NoStrandedWaiter
<1>1. Inv => NoStrandedWaiter
  <2> SUFFICES ASSUME Inv, NEW r \in Requests, call[r] = "waiting"
               PROVE  \E s \in Requests : call[s] \in {"granted", "returning", "sending"}
    BY DEF NoStrandedWaiter
  <2>1. Queueing(r) \/ \E s \in Requests : target[s] = r
    BY DEF Inv, LaneInv, Pending
  <2>2. CASE Queueing(r)
    BY <2>2 DEF Inv, BusyInv, Busy
  <2>3. CASE \E s \in Requests : target[s] = r
    BY <2>3, DownloadsAssumption DEF Inv, TargetInv
  <2>4. QED
    BY <2>1, <2>2, <2>3
<1>2. QED
  BY Invariance, <1>1, PTL

(***************************************************************************)
(* Slots are committed to r only when `acquire` finds its lane empty, and  *)
(* the urgent one too, or when `release` takes r from the front.           *)
(***************************************************************************)
LEMMA HowCommitted ==
  ASSUME Inv, Next, NEW r \in Requests, Commits(r)
  PROVE  \/ urgent = <<>> /\ (r \notin Urgent => background = <<>>)
         \/ \E lane \in {urgent, background} :
              /\ lane = OwnLane(r)
              /\ DropClosed(lane) # <<>>
              /\ r = Head(DropClosed(lane))
              /\ r \notin Urgent => DropClosed(urgent) = <<>>
<1>1. PICK q \in Requests :
        \/ AcquireNow(q) \/ AcquireWait(q) \/ Leave(q) \/ DropPermit(q)
        \/ HandOn(q) \/ EndRelease(q) \/ SendOk(q) \/ SendFailed(q)
  BY DEF Next
<1>2. CASE AcquireNow(q)
  <2>1. q = r
    BY <1>2 DEF AcquireNow, Commits, Inv, TypeOK
  <2>2. QED
    BY <1>2, <2>1 DEF AcquireNow, CanAcquire, Queued
<1>3. CASE HandOn(q)
  <2> DEFINE u == DropClosed(urgent)
             b == DropClosed(background)
  <2>1. /\ target' = [target EXCEPT ![q] = Head(NextLane(u, b))]
        /\ NextLane(u, b) # <<>>
        /\ call' = [Forget(call, u, b) EXCEPT ![q] = "sending"]
    BY <1>3 DEF HandOn, Fits
  <2>2. ~(call[r] = "idle" /\ call'[r] = "granted")
    BY <2>1, FrontsDropped
  <2>3. r = Head(NextLane(u, b))
    BY <2>1, <2>2 DEF Commits, Inv, TypeOK
  <2>4. u \in Seq(Urgent) /\ b \in Seq(Requests \ Urgent)
    BY FrontsDropped
  <2> HIDE DEF u, b
  <2>5. CASE u = <<>>
    <3>1. b # <<>> /\ r = Head(b) /\ r \notin Urgent
      BY <2>1, <2>3, <2>4, <2>5, HeadTailProperties DEF NextLane
    <3>2. QED
      BY <2>5, <3>1 DEF OwnLane, u, b
  <2>6. CASE u # <<>>
    <3>1. r = Head(u) /\ r \in Urgent
      BY <2>3, <2>4, <2>6, HeadTailProperties DEF NextLane
    <3>2. QED
      BY <2>6, <3>1 DEF OwnLane, u
  <2>7. QED
    BY <2>5, <2>6
<1>4. CASE AcquireWait(q) \/ EndRelease(q)
  <2>1. UNCHANGED target
    BY <1>4 DEF AcquireWait, EndRelease
  <2>2. call'[r] = "granted" => call[r] = "granted"
    BY <1>4 DEF AcquireWait, EndRelease, Forget, Inv, TypeOK
  <2>3. QED
    BY <2>1, <2>2 DEF Commits
<1>5. CASE Leave(q) \/ DropPermit(q)
  BY <1>5 DEF Leave, DropPermit, Commits, Inv, TypeOK
<1>6. CASE SendOk(q) \/ SendFailed(q)
  <2>1. target' = [target EXCEPT ![q] = None]
    BY <1>6 DEF SendOk, SendFailed
  <2>2. \A s \in Requests : target'[s] = r => target[s] = r
    BY <2>1, DownloadsAssumption DEF Inv, TypeOK
  <2>3. target[q] \in Requests /\ call[target[q]] # "idle"
    BY <1>6, DownloadsAssumption DEF SendOk, SendFailed, Closed, Inv, TypeOK, TargetInv
  <2>4. ~(call[r] = "idle" /\ call'[r] = "granted")
    BY <1>6, <2>3 DEF SendOk, SendFailed, Inv, TypeOK
  <2>5. QED
    BY <2>2, <2>4 DEF Commits
<1>7. QED
  BY <1>1, <1>2, <1>3, <1>4, <1>5, <1>6

\* A freed slot is never committed to background work over a waiting stream.
THEOREM StreamsGoFirst == Spec => PlaybackFirst
<1>1. Inv /\ [Next]_vars =>
        [\A r \in Requests \ Urgent :
           Commits(r) => \A u \in Urgent : InLane(u, urgent) => Closed(u)]_vars
  <2> SUFFICES ASSUME Inv, Next, NEW r \in Requests \ Urgent, Commits(r),
                      NEW u \in Urgent, InLane(u, urgent), ~Closed(u)
               PROVE  FALSE
    OBVIOUS
  <2>1. urgent = <<>> \/ DropClosed(urgent) = <<>>
    BY HowCommitted
  <2>2. Thinned(urgent, DropClosed(urgent))
    BY DropClosedThins DEF Inv, TypeOK
  <2>3. InLane(u, <<>>)
    BY <2>1, <2>2 DEF Thinned
  <2>4. QED
    BY <2>3 DEF InLane
<1>2. QED
  BY Invariance, <1>1, PTL DEF Spec, PlaybackFirst

\* Nobody is overtaken in a lane while still waiting there.
THEOREM LanesInOrder == Spec => NoOvertaking
<1>1. Inv /\ [Next]_vars =>
        [\A r, w \in Requests :
           (Commits(r) /\ w # r /\ Ahead(w, r, OwnLane(r))) => Closed(w)]_vars
  <2> SUFFICES ASSUME Inv, Next, NEW r \in Requests, NEW w \in Requests,
                      Commits(r), w # r, Ahead(w, r, OwnLane(r))
               PROVE  Closed(w)
    OBVIOUS
  <2>1. OwnLane(r) # <<>>
    BY DEF Ahead, InLane
  <2>2. PICK lane \in {urgent, background} :
          /\ lane = OwnLane(r)
          /\ DropClosed(lane) # <<>>
          /\ r = Head(DropClosed(lane))
    BY <2>1, HowCommitted DEF OwnLane
  <2> DEFINE k == ClosedFront(lane)
  <2>3. lane \in Seq(Requests) /\ Distinct(lane)
    BY <2>2, DownloadsAssumption, SeqMonotonic DEF Inv, TypeOK, LaneInv
  <2>4. /\ k < Len(lane) /\ lane[k + 1] = r /\ InLane(r, lane)
        /\ k \in 0 .. Len(lane)
        /\ \A i \in 1 .. k : Closed(lane[i])
    BY <2>2, <2>3, DropClosedThins, ClosedFrontDef
  <2> HIDE DEF k
  <2>5. PICK i, j \in DOMAIN lane : i < j /\ lane[i] = w /\ lane[j] = r
    BY <2>2, <2>4 DEF Ahead
  <2>6. DOMAIN lane = 1 .. Len(lane) /\ Len(lane) \in Nat
    BY <2>3, LenProperties
  <2>7. j = k + 1
    BY <2>3, <2>4, <2>5, <2>6 DEF Distinct
  <2>8. i \in 1 .. k
    BY <2>4, <2>5, <2>6, <2>7
  <2>9. QED
    BY <2>4, <2>5, <2>8
<1>2. QED
  BY Invariance, <1>1, PTL DEF Spec, NoOvertaking

\* Calls are admitted in turn: playback before background work, each lane in order.
THEOREM ServedInTurn == Spec => InTurn
  BY StreamsGoFirst, LanesInOrder DEF InTurn
=============================================================================
