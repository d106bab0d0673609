--------------------------- MODULE RangeMapProofs ---------------------------
(***************************************************************************)
(* Proofs about the map of ranges (RangeMap), for every number of keys, of *)
(* ranges that are kept and of calls: a lookup agrees with a map that has  *)
(* an entry for every key.                                                 *)
(***************************************************************************)
EXTENDS MCPackets, Integers, FiniteSets, SequenceTheorems, FiniteSetTheorems, TLAPS

RangeRecords == [start : Int, end : Int, value : Int]
KeySet == 0..MapKeys
n == Len(ranges)
open == ranges[n]
Within(i, k) == ranges[i].start <= k /\ k <= ranges[i].end

(* How many changes of the offset came after key k.                         *)
LaterCuts(k) == {i \in DOMAIN cuts : cuts[i] > k}
Later(k) == Cardinality(LaterCuts(k))

(* The inductive invariant.  A closed range is followed by at least as many *)
(* changes as there are ranges after it, which is why one that is pruned    *)
(* has been followed by more than the number that is kept; a key that no    *)
(* range holds is excluded.                                                 *)
MapTypes ==
  /\ highest \in KeySet /\ first \in KeySet /\ ref \in [KeySet -> Int]
  /\ cuts \in Seq(Int) /\ ranges \in Seq(RangeRecords) /\ n \in 1..(MapSize + 1)
InOrder ==
  \A i, j \in 1..n : i < j => /\ ranges[i].start <= ranges[i].end
                              /\ ranges[i].end < ranges[j].start
                              /\ ranges[i].end <= highest
OpenHolds ==
  /\ open.start <= highest + 1
  /\ \A k \in KeySet : k >= open.start => ref[k] = open.value
ClosedHold ==
  \A i \in 1..(n - 1), k \in KeySet : Within(i, k) => ref[k] = ranges[i].value
GapsExcluded ==
  \A k \in KeySet : ranges[1].start <= k /\ k < open.start =>
    ref[k] = Excluded \/ \E i \in 1..(n - 1) : Within(i, k)
RangesCounted ==
  \A i \in 1..(n - 1), k \in KeySet : k <= ranges[i].end => Later(k) >= n - i
OldPushedOut ==
  \A k \in KeySet : k < ranges[1].start =>
    k < first \/ ref[k] = Excluded \/ Later(k) > MapSize
MapInv ==
  /\ MapTypes /\ InOrder /\ OpenHolds /\ ClosedHold /\ GapsExcluded /\ RangesCounted
  /\ OldPushedOut

(* ------------------------------------------------------------------------ *)
LEMMA LaterNat ==
  ASSUME cuts \in Seq(Int), NEW k \in Int
  PROVE  IsFiniteSet(LaterCuts(k)) /\ Later(k) \in Nat
<1>1. IsFiniteSet(1..Len(cuts))  BY FS_Interval, LenProperties
<1>2. LaterCuts(k) \subseteq 1..Len(cuts)  BY LenProperties DEF LaterCuts
<1>3. IsFiniteSet(LaterCuts(k))  BY <1>1, <1>2, FS_Subset
<1> QED  BY <1>3, FS_CardinalityType DEF Later

(* A change at c counts for the keys before it.                             *)
LEMMA LaterGrows ==
  ASSUME cuts \in Seq(Int), NEW c \in Int, cuts' = Append(cuts, c), NEW k \in Int
  PROVE  Later(k)' = IF c > k THEN Later(k) + 1 ELSE Later(k)
<1> DEFINE m == Len(cuts)
<1>1. m \in Nat /\ DOMAIN cuts = 1..m /\ m + 1 \notin DOMAIN cuts
  BY LenProperties
<1>2. /\ DOMAIN cuts' = 1..(m + 1) /\ cuts'[m + 1] = c
      /\ \A i \in 1..m : cuts'[i] = cuts[i]
  BY <1>1, AppendProperties
<1>3. LaterCuts(k)' = {i \in DOMAIN cuts' : cuts'[i] > k}
  BY DEF LaterCuts
<1>4. CASE c > k
  <2>1. LaterCuts(k)' = LaterCuts(k) \cup {m + 1}
    BY <1>1, <1>2, <1>3, <1>4 DEF LaterCuts
  <2>2. m + 1 \notin LaterCuts(k)  BY <1>1 DEF LaterCuts
  <2> QED  BY <1>4, <2>1, <2>2, LaterNat, FS_AddElement DEF Later
<1>5. CASE ~ (c > k)
  <2>1. LaterCuts(k)' = LaterCuts(k)
    BY <1>1, <1>2, <1>3, <1>5 DEF LaterCuts
  <2> QED  BY <1>5, <2>1 DEF Later
<1> QED  BY <1>4, <1>5

(* The map after a reset: one open range from k.                            *)
LEMMA FreshIsRight ==
  ASSUME NEW k \in KeySet, NEW val \in Int, MapSize \in Nat,
         ranges = Map!Fresh(k, val), highest = k, first = k, cuts = <<>>,
         ref = [i \in KeySet |-> val]
  PROVE  MapInv
<1>1. KeySet \subseteq Int  BY MapBounds DEF KeySet
<1>2. ranges = <<[start |-> k, end |-> 0, value |-> val]>>  BY DEF Map!Fresh
<1>3. ranges \in Seq(RangeRecords) /\ n = 1 /\ ranges[1] = [start |-> k, end |-> 0, value |-> val]
  BY <1>1, <1>2 DEF RangeRecords, n
<1>4. MapTypes
  BY <1>1, <1>3 DEF MapTypes
<1>5. k \in Int /\ open.start = k /\ open.value = val
  BY <1>1, <1>3 DEF open
<1>6. InOrder /\ ClosedHold /\ GapsExcluded /\ RangesCounted
  BY <1>3, <1>5 DEF InOrder, ClosedHold, GapsExcluded, RangesCounted, KeySet
<1>7. OpenHolds
  BY <1>5 DEF OpenHolds
<1>8. OldPushedOut
  BY <1>3 DEF OldPushedOut
<1> QED  BY <1>4, <1>6, <1>7, <1>8 DEF MapInv

LEMMA RangeFields ==
  ASSUME MapInv
  PROVE  \A i \in 1..n : /\ ranges[i] \in RangeRecords /\ ranges[i].start \in Int
                         /\ ranges[i].end \in Int /\ ranges[i].value \in Int
<1>1. ranges \in Seq(RangeRecords)  BY DEF MapInv, MapTypes
<1>2. ASSUME NEW i \in 1..n PROVE ranges[i] \in RangeRecords
  BY <1>1, <1>2, ElementOfSeq DEF n
<1> QED  BY <1>2 DEF RangeRecords

(* A change of the offset from key s on: keys from highest + 1 up to s are  *)
(* excluded, later ones get offset val.                                     *)
Changes(s, val) ==
  /\ s \in Int /\ val \in Int /\ s > highest /\ cuts' = Append(cuts, highest + 1)
  /\ highest' \in KeySet /\ highest' >= highest /\ s <= highest' + 1 /\ first' = first
  /\ ref' \in [KeySet -> Int]
  /\ \A k \in KeySet : /\ k <= highest => ref'[k] = ref[k]
                       /\ k > highest /\ k < s => ref'[k] = Excluded
                       /\ k >= s => ref'[k] = val

LEMMA CountedOn ==
  ASSUME MapInv, NEW s, NEW val, Changes(s, val), NEW k \in KeySet
  PROVE  /\ k \in Int /\ Later(k) \in Nat /\ Later(k)' \in Nat /\ Later(k)' >= Later(k)
         /\ k <= highest => Later(k)' = Later(k) + 1
<1>1. k \in Int /\ highest \in Int /\ cuts \in Seq(Int)
  BY MapBounds DEF MapInv, MapTypes, KeySet
<1>2. Later(k) \in Nat  BY <1>1, LaterNat
<1>3. highest + 1 \in Int /\ cuts' = Append(cuts, highest + 1)  BY <1>1 DEF Changes
<1>4. Later(k)' = IF highest + 1 > k THEN Later(k) + 1 ELSE Later(k)
  BY <1>1, <1>3, LaterGrows
<1> QED  BY <1>1, <1>2, <1>4

(* What is before the first range stays pushed out.                         *)
LEMMA OldStaysOut ==
  ASSUME MapInv, NEW s, NEW val, Changes(s, val), NEW k \in KeySet, k < ranges[1].start, k <= highest
  PROVE  k < first' \/ ref'[k] = Excluded \/ Later(k)' > MapSize
<1>1. k < first \/ ref[k] = Excluded \/ Later(k) > MapSize
  BY DEF MapInv, OldPushedOut
<1>2. first' = first /\ ref'[k] = ref[k]  BY DEF Changes
<1>3. Later(k) > MapSize => Later(k)' > MapSize
  BY CountedOn, MapBounds
<1> QED  BY <1>1, <1>2, <1>3

(* The change is made in the open range when it has no key yet.             *)
LEMMA ChangedInPlace ==
  ASSUME MapInv, NEW s, NEW val, Changes(s, val), open.start = highest + 1,
         NEW e \in Int, ranges' = [ranges EXCEPT ![n] = [start |-> s, end |-> e, value |-> val]]
  PROVE  MapInv'
<1>0. /\ highest \in KeySet /\ first \in KeySet /\ ref \in [KeySet -> Int]
      /\ ranges \in Seq(RangeRecords) /\ n \in 1..(MapSize + 1) /\ n = Len(ranges)
      /\ highest \in Int /\ cuts \in Seq(Int) /\ KeySet \subseteq Int
      /\ s \in Int /\ val \in Int /\ s > highest
  BY MapBounds DEF MapInv, MapTypes, KeySet, n, Changes
<1>1. [start |-> s, end |-> e, value |-> val] \in RangeRecords
  BY <1>0 DEF RangeRecords
<1>2. /\ ranges' \in Seq(RangeRecords) /\ n' = n
      /\ \A i \in 1..n : ranges'[i] = IF i = n THEN [start |-> s, end |-> e, value |-> val] ELSE ranges[i]
  BY <1>0, <1>1, ExceptSeq DEF n
<1>3. open' = [start |-> s, end |-> e, value |-> val]
  BY <1>0, <1>2 DEF open
<1>4. \A i \in 1..n : ranges[i].start \in Int /\ ranges[i].end \in Int
  BY RangeFields
<1>5. MapTypes'
  <2>1. cuts' \in Seq(Int)  BY <1>0, AppendProperties DEF Changes
  <2>2. first' \in KeySet /\ highest' \in KeySet /\ ref' \in [KeySet -> Int]  BY <1>0 DEF Changes
  <2> QED  BY <1>0, <1>2, <2>1, <2>2 DEF MapTypes, KeySet
<1>6. InOrder'
  <2>1. ASSUME NEW i \in 1..n, NEW j \in 1..n, i < j
        PROVE  /\ ranges'[i].start <= ranges'[i].end /\ ranges'[i].end < ranges'[j].start
               /\ ranges'[i].end <= highest'
    <3>1. /\ ranges[i].start <= ranges[i].end /\ ranges[i].end < ranges[j].start
          /\ ranges[i].end <= highest
      BY <2>1 DEF MapInv, InOrder
    <3>2. i # n /\ ranges'[i] = ranges[i]  BY <1>0, <1>2, <2>1
    <3>3. ranges'[j].start = IF j = n THEN s ELSE ranges[j].start
      BY <1>2
    <3>4. highest' >= highest /\ highest' \in Int  BY <1>0 DEF Changes, KeySet
    <3> QED  BY SMTT(30), <1>0, <1>4, <3>1, <3>2, <3>3, <3>4
  <2> QED  BY <1>2, <2>1 DEF InOrder
<1>7. OpenHolds'
  BY <1>3 DEF OpenHolds, Changes, KeySet
<1>8. \A i \in 1..(n - 1), k \in KeySet : Within(i, k)' = Within(i, k) /\ (Within(i, k) => k <= highest)
  <2>1. ASSUME NEW i \in 1..(n - 1), NEW k \in KeySet
        PROVE  Within(i, k)' = Within(i, k) /\ (Within(i, k) => k <= highest)
    <3>1. i \in 1..n /\ i # n /\ n \in 1..n /\ i < n  BY SMTT(30), <1>0
    <3>2. ranges'[i] = ranges[i]  BY <1>2, <3>1
    <3>3. ranges[i].end <= highest  BY <3>1 DEF MapInv, InOrder
    <3> QED  BY SMTT(30), <1>0, <1>4, <3>1, <3>2, <3>3 DEF Within
  <2> QED  BY <2>1
<1>9. ClosedHold'
  <2>1. ASSUME NEW i \in 1..(n - 1), NEW k \in KeySet, Within(i, k)'
        PROVE  ref'[k] = ranges'[i].value
    <3>1. Within(i, k) /\ k <= highest  BY <1>8, <2>1
    <3>2. ref[k] = ranges[i].value  BY <3>1 DEF MapInv, ClosedHold
    <3>3. ranges'[i] = ranges[i]  BY <1>0, <1>2
    <3>4. ref'[k] = ref[k]  BY <3>1 DEF Changes
    <3> QED  BY <3>2, <3>3, <3>4
  <2> QED  BY <1>2, <2>1 DEF ClosedHold
<1>10. GapsExcluded'
  <2>1. ASSUME NEW k \in KeySet, ranges'[1].start <= k, k < s
        PROVE  ref'[k] = Excluded \/ \E i \in 1..(n - 1) : Within(i, k)'
    <3>1. CASE k > highest
      BY <2>1, <3>1 DEF Changes
    <3>2. CASE k <= highest
      <4>1. n # 1
        BY <1>0, <1>2, <2>1, <3>2
      <4>2. ranges'[1] = ranges[1]  BY <1>0, <1>2, <4>1
      <4>3. ref[k] = Excluded \/ \E i \in 1..(n - 1) : Within(i, k)
        BY <1>0, <2>1, <3>2, <4>2 DEF MapInv, GapsExcluded
      <4> QED  BY <1>8, <3>2, <4>3 DEF Changes
    <3> QED  BY <1>0, <3>1, <3>2
  <2> QED  BY <1>2, <1>3, <2>1 DEF GapsExcluded
<1>11. RangesCounted'
  <2>1. ASSUME NEW i \in 1..(n - 1), NEW k \in KeySet, k <= ranges'[i].end
        PROVE  Later(k)' >= n - i
    <3>1. ranges'[i] = ranges[i]  BY <1>0, <1>2
    <3>2. Later(k) >= n - i  BY <2>1, <3>1 DEF MapInv, RangesCounted
    <3> QED  BY SMTT(30), <1>0, <3>2, CountedOn
  <2> QED  BY <1>2, <2>1 DEF RangesCounted
<1>12. OldPushedOut'
  <2>1. ASSUME NEW k \in KeySet, k < ranges'[1].start
        PROVE  k < first' \/ ref'[k] = Excluded \/ Later(k)' > MapSize
    <3>1. CASE k > highest
      <4>1. k < s
        <5>1. CASE n = 1  BY <1>0, <1>2, <2>1, <5>1
        <5>2. CASE n # 1
          <6>1. 1 \in 1..n /\ n \in 1..n /\ 1 < n /\ ranges'[1] = ranges[1]  BY <1>0, <1>2, <5>2
          <6>2. ranges[1].start <= ranges[1].end /\ ranges[1].end <= highest
            BY <6>1 DEF MapInv, InOrder
          <6> QED  BY SMTT(30), <1>0, <1>4, <2>1, <3>1, <6>1, <6>2
        <5> QED  BY <5>1, <5>2
      <4> QED  BY <3>1, <4>1 DEF Changes
    <3>2. CASE k <= highest
      <4>1. k < ranges[1].start
        <5>1. CASE n = 1  BY SMTT(30), <1>0, <3>2, <5>1 DEF open
        <5>2. CASE n # 1  BY <1>0, <1>2, <2>1, <5>2
        <5> QED  BY <5>1, <5>2
      <4> QED  BY <3>2, <4>1, OldStaysOut
    <3> QED  BY <1>0, <3>1, <3>2
  <2> QED  BY <2>1 DEF OldPushedOut
<1> QED  BY <1>5, <1>6, <1>7, <1>9, <1>10, <1>11, <1>12 DEF MapInv

(* Otherwise the open range is closed and another follows it; when there    *)
(* are too many, the first one is dropped.  d says whether one is.          *)
Longer(s, val) ==
  Append([ranges EXCEPT ![n].end = highest], [start |-> s, end |-> 0, value |-> val])
Reopens(s, val, d) ==
  /\ d \in {0, 1} /\ (d = 1 => n = MapSize + 1) /\ (d = 0 => n <= MapSize)
  /\ ranges' \in Seq(RangeRecords) /\ n' = n + 1 - d
  /\ \A i \in 1..(n + 1 - d) :
       /\ i + d < n => ranges'[i] = ranges[i + d]
       /\ i + d = n => ranges'[i] = [start |-> open.start, end |-> highest, value |-> open.value]
       /\ i + d = n + 1 => ranges'[i] = [start |-> s, end |-> 0, value |-> val]

LEMMA ClosedReopens ==
  ASSUME MapInv, NEW s \in Int, NEW val \in Int,
         ranges' = Map!Closed(ranges, highest, s, val, MapSize)
  PROVE  \E d \in {0, 1} : Reopens(s, val, d)
<1> DEFINE last == [start |-> open.start, end |-> highest, value |-> open.value]
           new == [start |-> s, end |-> 0, value |-> val]
           closed == [ranges EXCEPT ![n].end = highest]
           r == Append(closed, new)
<1>0. /\ highest \in Int /\ ranges \in Seq(RangeRecords) /\ n \in 1..(MapSize + 1)
      /\ n = Len(ranges) /\ MapSize \in Nat /\ n \in Int
  BY MapBounds DEF MapInv, MapTypes, KeySet, n
<1>1. open \in RangeRecords /\ n \in 1..n  BY <1>0, RangeFields DEF open
<1>2. last \in RangeRecords /\ new \in RangeRecords  BY <1>0, <1>1 DEF RangeRecords
<1>3. [ranges[n] EXCEPT !.end = highest] = last
  BY <1>1 DEF open, RangeRecords
<1>4. closed = [ranges EXCEPT ![n] = last]  BY <1>3
<1>5. /\ closed \in Seq(RangeRecords) /\ Len(closed) = n
      /\ \A i \in 1..n : closed[i] = IF i = n THEN last ELSE ranges[i]
  <2>1. n \in 1..Len(ranges)  BY <1>0
  <2> HIDE DEF last
  <2> QED  BY SMTT(30), <1>0, <1>2, <1>4, <2>1, ExceptSeq
<1>6. /\ r \in Seq(RangeRecords) /\ Len(r) = n + 1 /\ r[n + 1] = new
      /\ \A i \in 1..n : r[i] = closed[i]
  <2> HIDE DEF closed, new
  <2> QED  BY <1>2, <1>5, AppendProperties
<1> HIDE DEF r, closed
<1>7. /\ \A i \in 1..(n - 1) : r[i] = ranges[i]
      /\ r[n] = last /\ r[n + 1] = new
  <2>1. ASSUME NEW i \in 1..(n - 1) PROVE r[i] = ranges[i]
    <3>1. i \in 1..n /\ i # n  BY <1>0
    <3> QED  BY <1>5, <1>6, <3>1
  <2>2. r[n] = closed[n] /\ closed[n] = last  BY <1>1, <1>5, <1>6
  <2> QED  BY <1>6, <2>1, <2>2
<1>8. ranges' = Map!prune(r, MapSize)  BY DEF Map!Closed, r, closed, n
<1>9. CASE n <= MapSize
  <2>1. ranges' = r  BY <1>0, <1>6, <1>8, <1>9 DEF Map!prune
  <2>2. n' = n + 1  BY <1>6, <2>1 DEF n
  <2>3. Reopens(s, val, 0)  BY SMTT(30), <1>0, <1>6, <1>7, <1>9, <2>1, <2>2 DEF Reopens
  <2> QED  BY <2>3
<1>10. CASE n = MapSize + 1
  <2>1. ranges' = SubSeq(r, 2, n + 1)
    <3>1. Len(r) > MapSize + 1 /\ Len(r) - MapSize = 2  BY <1>0, <1>6, <1>10
    <3> QED  BY <1>6, <1>8, <3>1 DEF Map!prune
  <2>2. \A i \in 2..(n + 1) : r[i] \in RangeRecords
    <3>1. ASSUME NEW i \in 2..(n + 1) PROVE r[i] \in RangeRecords
      <4>1. i \in 1..Len(r)  BY <1>0, <1>6
      <4> QED  BY <1>6, <4>1, ElementOfSeq
    <3> QED  BY <3>1
  <2>3. /\ ranges' \in Seq(RangeRecords)
        /\ Len(ranges') = IF 2 <= n + 1 THEN (n + 1) - 2 + 1 ELSE 0
        /\ \A i \in 1..((n + 1) - 2 + 1) : ranges'[i] = r[2 + i - 1]
    <3>1. n + 1 \in Int /\ 2 \in Int  BY <1>0
    <3> QED  BY <2>1, <2>2, <3>1, SubSeqProperties
  <2>4. n' = n /\ \A i \in 1..n : ranges'[i] = r[i + 1]
    <3>1. n' = n  BY <1>0, <2>3 DEF n
    <3>2. ASSUME NEW i \in 1..n PROVE ranges'[i] = r[i + 1]
      <4>1. i \in 1..((n + 1) - 2 + 1) /\ 2 + i - 1 = i + 1  BY <1>0
      <4> QED  BY <2>3, <4>1
    <3> QED  BY <3>1, <3>2
  <2>5. Reopens(s, val, 1)
    <3>1. ASSUME NEW i \in 1..n
          PROVE  /\ i + 1 < n => ranges'[i] = ranges[i + 1]
                 /\ i + 1 = n => ranges'[i] = last
                 /\ i + 1 = n + 1 => ranges'[i] = new
      <4>1. ranges'[i] = r[i + 1]  BY <2>4
      <4>2. i + 1 < n => i + 1 \in 1..(n - 1)  BY <1>0
      <4> QED  BY <1>7, <4>1, <4>2
    <3>2. n + 1 - 1 = n  BY <1>0
    <3> QED  BY SMTT(30), <1>10, <2>3, <2>4, <3>1, <3>2 DEF Reopens
  <2> QED  BY <2>5
<1> QED  BY <1>0, <1>9, <1>10

LEMMA ChangedByClosing ==
  ASSUME MapInv, NEW s, NEW val, Changes(s, val), open.start <= highest,
         NEW d, Reopens(s, val, d)
  PROVE  MapInv'
<1>0. /\ highest \in KeySet /\ first \in KeySet /\ ref \in [KeySet -> Int]
      /\ ranges \in Seq(RangeRecords) /\ n \in 1..(MapSize + 1) /\ n \in Int
      /\ highest \in Int /\ cuts \in Seq(Int) /\ KeySet \subseteq Int
      /\ s \in Int /\ val \in Int /\ s > highest /\ d \in {0, 1} /\ n' = n + 1 - d /\ n' \in Int
      /\ highest' \in Int /\ highest' >= highest /\ MapSize \in Nat
  BY MapBounds DEF MapInv, MapTypes, KeySet, n, Changes, Reopens
<1>1. \A i \in 1..n : ranges[i].start \in Int /\ ranges[i].end \in Int
  BY RangeFields
<1>2. \A i \in 1..n' :
       /\ i + d < n => ranges'[i] = ranges[i + d]
       /\ i + d = n => ranges'[i] = [start |-> open.start, end |-> highest, value |-> open.value]
       /\ i + d = n + 1 => ranges'[i] = [start |-> s, end |-> 0, value |-> val]
  BY DEF Reopens
<1>3. n \in 1..n /\ open.start \in Int /\ n' \in 1..n' /\ n' + d = n + 1
  BY SMTT(30), <1>0, <1>1 DEF open
<1>4. open' = [start |-> s, end |-> 0, value |-> val] /\ ranges'[n'].start = s
  BY <1>2, <1>3 DEF open
(* The ranges after the step, and the closed ones by their end.             *)
<1>5. ASSUME NEW i \in 1..(n' - 1)
      PROVE  /\ i \in 1..n' /\ i + d \in 1..n /\ i + d \in Int
             /\ ranges'[i].start = ranges[i + d].start /\ ranges'[i].value = ranges[i + d].value
             /\ ranges'[i].start \in Int /\ ranges'[i].end \in Int
             /\ ranges'[i].start <= ranges'[i].end /\ ranges'[i].end <= highest
             /\ i + d # n => i + d \in 1..(n - 1) /\ ranges'[i].end = ranges[i + d].end
             /\ i + d = n => ranges'[i].end = highest
  <2>1. i \in 1..n' /\ i + d \in 1..n /\ i + d \in Int  BY <1>0
  <2>2. CASE i + d = n
    <3>1. ranges'[i] = [start |-> open.start, end |-> highest, value |-> open.value]
      BY <1>2, <2>1, <2>2
    <3> QED  BY SMTT(30), <1>0, <1>3, <2>1, <2>2, <3>1 DEF open
  <2>3. CASE i + d # n
    <3>1. i + d < n /\ i + d \in 1..(n - 1)  BY <1>0, <2>1, <2>3
    <3>2. ranges'[i] = ranges[i + d]  BY <1>2, <2>1, <3>1
    <3>3. ranges[i + d].end <= highest /\ ranges[i + d].start <= ranges[i + d].end
      BY <1>3, <2>1, <3>1 DEF MapInv, InOrder
    <3> QED  BY <1>1, <2>1, <2>3, <3>1, <3>2, <3>3
  <2> QED  BY <2>2, <2>3
<1>6. MapTypes'
  <2>1. cuts' \in Seq(Int)  BY <1>0, AppendProperties DEF Changes
  <2>2. first' \in KeySet /\ highest' \in KeySet /\ ref' \in [KeySet -> Int]
    BY <1>0 DEF Changes
  <2>3. n' \in 1..(MapSize + 1)  BY <1>0 DEF Reopens
  <2> QED  BY <2>1, <2>2, <2>3 DEF MapTypes, KeySet, Reopens
<1>7. InOrder'
  <2>1. ASSUME NEW i \in 1..n', NEW j \in 1..n', i < j
        PROVE  /\ ranges'[i].start <= ranges'[i].end /\ ranges'[i].end < ranges'[j].start
               /\ ranges'[i].end <= highest'
    <3>1. i \in 1..(n' - 1)  BY <1>0, <2>1
    <3>2. ranges'[i].end <= highest /\ ranges'[i].start <= ranges'[i].end /\ ranges'[i].end \in Int
      BY <1>5, <3>1
    <3>3. CASE j = n'
      BY SMTT(30), <1>0, <1>4, <3>2, <3>3
    <3>4. CASE j # n'
      <4>1. j \in 1..(n' - 1) /\ i + d < j + d  BY <1>0, <2>1, <3>4
      <4>2. i + d \in 1..n /\ j + d \in 1..n /\ i + d \in Int /\ j + d \in Int
        BY <1>5, <3>1, <4>1
      <4>3. ranges[i + d].end < ranges[j + d].start
        BY <4>1, <4>2 DEF MapInv, InOrder
      <4>4. ranges'[j].start = ranges[j + d].start  BY <1>5, <4>1
      <4>5. i + d # n  BY <1>0, <4>1, <4>2
      <4>6. ranges'[i].end = ranges[i + d].end  BY <1>5, <3>1, <4>5
      <4> QED  BY SMTT(30), <1>0, <1>1, <3>2, <4>2, <4>3, <4>4, <4>6
    <3> QED  BY <1>0, <3>2, <3>3, <3>4
  <2> QED  BY <2>1 DEF InOrder
<1>8. OpenHolds'
  BY <1>4 DEF OpenHolds, Changes, KeySet
<1>9. ClosedHold'
  <2>1. ASSUME NEW i \in 1..(n' - 1), NEW k \in KeySet, Within(i, k)'
        PROVE  ref'[k] = ranges'[i].value
    <3>1. ranges'[i].start <= k /\ k <= ranges'[i].end  BY <2>1 DEF Within
    <3>2. /\ ranges'[i].end <= highest /\ ranges'[i].end \in Int /\ k \in Int
          /\ ranges'[i].start = ranges[i + d].start /\ ranges'[i].value = ranges[i + d].value
      BY <1>0, <1>5
    <3>3. k <= highest  BY SMTT(30), <1>0, <3>1, <3>2
    <3>6. ref'[k] = ref[k]  BY <3>3 DEF Changes
    <3>4. CASE i + d # n
      <4>1. i + d \in 1..(n - 1) /\ ranges'[i].end = ranges[i + d].end  BY <1>5, <3>4
      <4>2. Within(i + d, k)  BY <3>1, <3>2, <4>1 DEF Within
      <4>3. ref[k] = ranges[i + d].value  BY <4>1, <4>2 DEF MapInv, ClosedHold
      <4> QED  BY <3>2, <3>6, <4>3
    <3>5. CASE i + d = n
      <4>1. k >= open.start  BY <1>0, <1>3, <3>1, <3>2, <3>5 DEF open
      <4>2. ref[k] = open.value  BY <4>1 DEF MapInv, OpenHolds
      <4> QED  BY <3>2, <3>5, <3>6, <4>2 DEF open
    <3> QED  BY <3>4, <3>5
  <2> QED  BY <2>1 DEF ClosedHold
(* A key of the old ranges from the first one kept is in a range kept.      *)
<1>10. GapsExcluded'
  <2>1. ASSUME NEW k \in KeySet, ranges'[1].start <= k, k < s
        PROVE  ref'[k] = Excluded \/ \E i \in 1..(n' - 1) : Within(i, k)'
    <3>1. CASE k > highest
      BY <2>1, <3>1 DEF Changes
    <3>2. CASE k <= highest
      <4>0. 1 \in 1..n'  BY <1>0, <1>3
      <4>1. n' # 1
        BY SMTT(30), <1>0, <1>4, <2>1, <3>2
      <4>2. 1 \in 1..(n' - 1) /\ n' - 1 \in 1..(n' - 1) /\ (n' - 1) + d = n  BY <1>0, <4>1
      <4>3. CASE k >= open.start
        <5>1. PICK i \in 1..(n' - 1) : i = n' - 1  BY <4>2
        <5>2. i + d = n  BY <4>2, <5>1
        <5>3. ranges'[i].end = highest /\ ranges'[i].start = open.start
          BY <1>5, <5>2 DEF open
        <5>4. Within(i, k)'  BY <1>0, <1>3, <3>2, <4>3, <5>3 DEF Within
        <5> QED  BY <5>4
      <4>4. CASE k < open.start
        <5>1. ranges'[1].start = ranges[1 + d].start /\ 1 + d \in 1..n
          BY <1>5, <4>2
        <5>2. ranges[1].start <= k
          <6>1. CASE d = 0  BY <1>0, <2>1, <5>1, <6>1
          <6>2. CASE d = 1
            <7>1. 1 \in 1..n /\ 2 \in 1..n /\ 1 < 2  BY <1>0, <5>1, <6>2
            <7>2. ranges[1].start <= ranges[1].end /\ ranges[1].end < ranges[2].start
              BY <7>1 DEF MapInv, InOrder
            <7> QED  BY SMTT(30), <1>0, <1>1, <2>1, <5>1, <6>2, <7>1, <7>2
          <6> QED  BY <1>0, <6>1, <6>2
        <5>3. ref[k] = Excluded \/ \E i \in 1..(n - 1) : Within(i, k)
          BY <4>4, <5>2 DEF MapInv, GapsExcluded
        <5>4. ASSUME NEW i \in 1..(n - 1), Within(i, k) PROVE \E j \in 1..(n' - 1) : Within(j, k)'
          <6>1. i - d >= 1
            <7>1. CASE d = 0  BY <1>0, <7>1
            <7>2. CASE d = 1 /\ i = 1
              <8>1. 1 \in 1..n /\ 2 \in 1..n /\ 1 < 2  BY <1>0, <5>1, <7>2
              <8>2. ranges[1].end < ranges[2].start  BY <8>1 DEF MapInv, InOrder
              <8> QED  BY SMTT(30), <1>0, <1>1, <2>1, <5>1, <5>4, <7>2, <8>1, <8>2 DEF Within
            <7> QED  BY <1>0, <7>1, <7>2
          <6>2. i - d \in 1..(n' - 1) /\ (i - d) + d = i /\ i # n  BY <1>0, <6>1
          <6>3. ranges'[i - d].start = ranges[i].start /\ ranges'[i - d].end = ranges[i].end
            <7>1. (i - d) + d # n  BY <6>2
            <7>2. /\ ranges'[i - d].start = ranges[(i - d) + d].start
                  /\ ranges'[i - d].end = ranges[(i - d) + d].end
              BY <1>5, <6>2, <7>1
            <7> QED  BY <6>2, <7>2
          <6>4. Within(i - d, k)'  BY <5>4, <6>3 DEF Within
          <6> QED  BY <6>2, <6>4
        <5> QED  BY <3>2, <5>3, <5>4 DEF Changes
      <4> QED  BY SMTT(30), <1>0, <1>3, <4>3, <4>4
    <3> QED  BY <1>0, <3>1, <3>2
  <2> QED  BY <1>4, <2>1 DEF GapsExcluded
<1>11. RangesCounted'
  <2>1. ASSUME NEW i \in 1..(n' - 1), NEW k \in KeySet, k <= ranges'[i].end
        PROVE  Later(k)' >= n' - i
    <3>0. ranges'[i].end <= highest /\ ranges'[i].end \in Int /\ i + d \in Int  BY <1>5
    <3>1. k <= highest  BY SMTT(30), <1>0, <2>1, <3>0
    <3>2. Later(k)' = Later(k) + 1 /\ Later(k) \in Nat  BY <3>1, CountedOn
    <3>3. CASE i + d # n
      <4>1. i + d \in 1..(n - 1) /\ k <= ranges[i + d].end
        BY <1>5, <2>1, <3>3
      <4>2. Later(k) >= n - (i + d)  BY <4>1 DEF MapInv, RangesCounted
      <4> QED  BY SMTT(30), <1>0, <3>2, <4>2
    <3>4. CASE i + d = n  BY SMTT(30), <1>0, <3>2, <3>4
    <3> QED  BY <3>3, <3>4
  <2> QED  BY <2>1 DEF RangesCounted
<1>12. OldPushedOut'
  <2>1. ASSUME NEW k \in KeySet, k < ranges'[1].start
        PROVE  k < first' \/ ref'[k] = Excluded \/ Later(k)' > MapSize
    <3>1. CASE k > highest
      <4>1. k < s
        <5>1. CASE n' = 1  BY <1>3, <1>4, <2>1, <5>1 DEF open
        <5>2. CASE n' # 1
          <6>1. 1 \in 1..(n' - 1)  BY <1>0, <1>3, <5>2
          <6>2. /\ ranges'[1].start <= ranges'[1].end /\ ranges'[1].end <= highest
                /\ ranges'[1].start \in Int /\ ranges'[1].end \in Int
            BY <1>5, <6>1
          <6> QED  BY SMTT(30), <1>0, <2>1, <3>1, <6>2
        <5> QED  BY <5>1, <5>2
      <4> QED  BY <3>1, <4>1 DEF Changes
    <3>2. CASE k <= highest /\ k < ranges[1].start
      BY <3>2, OldStaysOut
    <3>3. CASE k <= highest /\ ~ (k < ranges[1].start)
      <4>0. Later(k)' = Later(k) + 1 /\ Later(k) \in Nat  BY <3>3, CountedOn
      <4>1. 1 \in 1..n /\ ranges[1].start <= k  BY SMTT(30), <1>0, <1>1, <3>3
      <4>2. d = 1
        <5>1. CASE d = 0
          <6>1. 1 \in 1..(n' - 1)  BY <1>0, <5>1
          <6>2. ranges'[1].start = ranges[1 + d].start /\ 1 + d = 1
            BY <1>5, <5>1, <6>1
          <6> QED  BY SMTT(30), <1>0, <1>1, <2>1, <4>1, <6>2
        <5> QED  BY <1>0, <5>1
      <4>3. n = MapSize + 1  BY <4>2 DEF Reopens
      <4>4. CASE n = 1
        BY SMTT(30), <1>0, <4>0, <4>3, <4>4
      <4>5. CASE n # 1
        <5>1. 1 \in 1..(n' - 1) /\ 2 \in 1..n /\ 1 \in 1..(n - 1)  BY <1>0, <4>2, <4>5
        <5>2. ranges'[1].start = ranges[2].start
          <6>1. ranges'[1].start = ranges[1 + d].start /\ 1 + d = 2  BY <1>5, <4>2, <5>1
          <6> QED  BY <6>1
        <5>3. \A i \in 2..(n - 1) : ranges[2].start <= ranges[i].start
          <6>1. ASSUME NEW i \in 2..(n - 1) PROVE ranges[2].start <= ranges[i].start
            <7>1. i \in 1..n  BY <1>0
            <7>2. i # 2 => ranges[2].start <= ranges[2].end /\ ranges[2].end < ranges[i].start
              BY <5>1, <7>1 DEF MapInv, InOrder
            <7> QED  BY <1>1, <5>1, <7>1, <7>2
          <6> QED  BY <6>1
        <5>4. k < open.start
          <6>1. n # 2 => ranges[2].start <= ranges[2].end /\ ranges[2].end < ranges[n].start
            BY SMTT(30), <1>0, <1>3, <5>1 DEF MapInv, InOrder
          <6>2. k < ranges[2].start  BY <2>1, <5>2
          <6>3. CASE n = 2  BY <6>2, <6>3 DEF open
          <6>4. CASE n # 2
            <7>1. ranges[2].start \in Int /\ ranges[2].end \in Int /\ k \in Int
              BY <1>0, <1>1, <5>1
            <7> QED  BY <1>3, <6>1, <6>2, <6>4, <7>1 DEF open
          <6> QED  BY <6>3, <6>4
        <5>5. ref[k] = Excluded \/ \E i \in 1..(n - 1) : Within(i, k)
          BY <4>1, <5>4 DEF MapInv, GapsExcluded
        <5>6. CASE ref[k] = Excluded
          BY <3>3, <5>6 DEF Changes
        <5>7. ASSUME NEW i \in 1..(n - 1), Within(i, k) PROVE Later(k)' > MapSize
          <6>1. i = 1
            <7>1. CASE i # 1
              <8>1. i \in 2..(n - 1) /\ i \in 1..n  BY <1>0, <7>1
              <8>2. ranges[2].start <= ranges[i].start /\ ranges[i].start <= k
                BY <5>3, <5>7, <8>1 DEF Within
              <8> QED  BY SMTT(30), <1>0, <1>1, <2>1, <5>1, <5>2, <8>1, <8>2
            <7> QED  BY <7>1
          <6>2. k <= ranges[1].end  BY <5>7, <6>1 DEF Within
          <6>3. Later(k) >= n - 1  BY <5>1, <6>2 DEF MapInv, RangesCounted
          <6> QED  BY <1>0, <4>0, <4>3, <6>3
        <5> QED  BY <5>5, <5>6, <5>7
      <4> QED  BY <4>4, <4>5
    <3> QED  BY SMTT(30), <1>0, <3>1, <3>2, <3>3
  <2> QED  BY <2>1 DEF OldPushedOut
<1> QED  BY <1>6, <1>7, <1>8, <1>9, <1>10, <1>11, <1>12 DEF MapInv

-----------------------------------------------------------------------------
(* The calls change the map as Changes says.                                *)
LEMMA LastIsOpen ==
  ASSUME MapInv PROVE Map!Last(ranges) = open
BY DEF Map!Last, open, n

LEMMA PadKeeps ==
  ASSUME MapInv, NEW num \in Nat, MapPad(num) PROVE MapInv'
<1>0. /\ highest \in KeySet /\ highest \in Int /\ KeySet \subseteq Int
      /\ ref \in [KeySet -> Int] /\ open.value \in Int /\ open.start \in Int /\ open.end \in Int
      /\ n \in 1..n /\ open \in RangeRecords /\ open.start <= highest + 1
      /\ \A k \in KeySet : k >= open.start => ref[k] = open.value
  <2>1. n \in 1..n  BY MapBounds DEF MapInv, MapTypes
  <2> QED
    BY <2>1, MapBounds, RangeFields DEF MapInv, MapTypes, KeySet, open, OpenHolds
<1> DEFINE val == open.value - num
<1>1. /\ ranges' = Map!DecValue(ranges, highest, num, MapSize)
      /\ cuts' = Append(cuts, highest + 1) /\ first' = first /\ highest' = highest
      /\ ref' = [i \in KeySet |-> IF i > highest THEN ref[i] - num ELSE ref[i]]
  BY DEF MapPad, KeySet
<1>2. ref' \in [KeySet -> Int]  BY <1>0, <1>1
<1>3. \A k \in KeySet : k <= highest => ref'[k] = ref[k]
  BY <1>0, <1>1
<1>4. \A k \in KeySet : k >= highest + 1 => ref'[k] = val
  BY SMTT(30), <1>0, <1>1
<1>5. \A k \in KeySet : ~ (k > highest /\ k < highest + 1)
  BY <1>0
<1>6. Changes(highest + 1, val)
  BY <1>0, <1>1, <1>2, <1>3, <1>4, <1>5 DEF Changes
<1>7. CASE open.start > highest
  <2>1. open.start = highest + 1  BY <1>0, <1>7
  <2>2. ranges' = [ranges EXCEPT ![n].value = open.value - num]
    BY <1>1, <1>7, LastIsOpen DEF Map!DecValue, n, open
  <2>3. [open EXCEPT !.value = open.value - num] =
          [start |-> highest + 1, end |-> open.end, value |-> val]
    BY <1>0, <2>1 DEF RangeRecords
  <2>4. ranges' = [ranges EXCEPT ![n] = [start |-> highest + 1, end |-> open.end, value |-> val]]
    BY <2>2, <2>3 DEF open
  <2> QED  BY <1>0, <1>6, <2>1, <2>4, ChangedInPlace
<1>8. CASE ~ (open.start > highest)
  <2>1. ranges' = Map!Closed(ranges, highest, highest + 1, val, MapSize)
    BY <1>1, <1>8, LastIsOpen DEF Map!DecValue
  <2>2. \E d \in {0, 1} : Reopens(highest + 1, val, d)
    BY <1>0, <2>1, ClosedReopens
  <2> QED  BY <1>0, <1>6, <1>8, <2>2, ChangedByClosing
<1> QED  BY <1>7, <1>8

LEMMA ExcludeKeeps ==
  ASSUME MapInv, NEW e \in (highest + 1)..MapKeys, MapExclude(highest + 1, e) PROVE MapInv'
<1>0. /\ highest \in KeySet /\ highest \in Int /\ KeySet \subseteq Int /\ e \in Int
      /\ ref \in [KeySet -> Int] /\ open.value \in Int /\ open.start \in Int
      /\ n \in 1..n /\ open \in RangeRecords /\ open.start <= highest + 1
      /\ \A k \in KeySet : k >= open.start => ref[k] = open.value
  <2>1. n \in 1..n  BY MapBounds DEF MapInv, MapTypes
  <2>2. highest \in Int /\ e \in Int  BY MapBounds DEF MapInv, MapTypes, KeySet
  <2> QED
    BY <2>1, <2>2, MapBounds, RangeFields DEF MapInv, MapTypes, KeySet, open, OpenHolds
<1> DEFINE val == open.value + (e - (highest + 1))
<1>1. /\ ranges' = Map!ExcludeRange(ranges, highest + 1, e, MapSize)
      /\ cuts' = Append(cuts, highest + 1) /\ first' = first /\ highest' = e - 1
      /\ Map!CanExclude(ranges, highest + 1, e)
      /\ ref' = [i \in KeySet |-> CASE i >= highest + 1 /\ i < e -> Excluded
                                    [] i >= e -> ref[i] + (e - (highest + 1))
                                    [] OTHER -> ref[i]]
  BY DEF MapExclude, KeySet
<1>2. highest + 1 < e  BY <1>1 DEF Map!CanExclude
<1>3. \A k \in KeySet : /\ k <= highest => ref'[k] = ref[k]
                        /\ k > highest /\ k < e => ref'[k] = Excluded
                        /\ k >= e => ref'[k] = val
  <2>1. ASSUME NEW k \in KeySet
        PROVE  /\ k <= highest => ref'[k] = ref[k]
               /\ k > highest /\ k < e => ref'[k] = Excluded
               /\ k >= e => ref'[k] = val
    <3>1. ref'[k] = CASE k >= highest + 1 /\ k < e -> Excluded
                      [] k >= e -> ref[k] + (e - (highest + 1))
                      [] OTHER -> ref[k]
      BY <1>1
    <3>2. CASE k <= highest
      <4>1. k \in Int /\ ~ (k >= highest + 1 /\ k < e) /\ ~ (k >= e)  BY <1>0, <1>2, <3>2
      <4>2. ref'[k] = ref[k]  BY <3>1, <4>1
      <4> QED  BY <1>0, <1>2, <3>2, <4>1, <4>2
    <3>3. CASE k > highest /\ k < e
      <4>1. k \in Int /\ k >= highest + 1 /\ k < e /\ ~ (k >= e)  BY <1>0, <3>3
      <4> QED  BY <1>0, <3>1, <3>3, <4>1
    <3>4. CASE k >= e
      <4>1. k \in Int /\ ~ (k < e) /\ k >= open.start /\ k > highest  BY <1>0, <1>2, <3>4
      <4>2. ref'[k] = ref[k] + (e - (highest + 1))  BY <3>1, <3>4, <4>1
      <4>3. ref[k] = open.value  BY <1>0, <4>1
      <4> QED  BY <1>0, <4>1, <4>2, <4>3
    <3> QED  BY <1>0, <1>2, <3>2, <3>3, <3>4
  <2> QED  BY <2>1
<1>4. ref' \in [KeySet -> Int]
  <2>1. ASSUME NEW k \in KeySet PROVE ref'[k] \in Int
    <3>1. k \in Int /\ ref[k] \in Int /\ val \in Int /\ Excluded \in Int
      BY <1>0 DEF Excluded
    <3> QED  BY <1>0, <1>3, <3>1
  <2> QED  BY <1>1, <2>1
<1>5. highest' \in KeySet /\ highest' >= highest /\ e <= highest' + 1
  BY <1>0, <1>1, <1>2, MapBounds DEF KeySet
<1>6. Changes(e, val)
  BY <1>0, <1>1, <1>2, <1>3, <1>4, <1>5 DEF Changes
<1>7. CASE open.start = highest + 1
  <2>1. ranges' = [ranges EXCEPT ![n] = [start |-> e, end |-> 0, value |-> val]]
    BY <1>1, <1>7, LastIsOpen DEF Map!ExcludeRange, n
  <2>2. 0 \in Int  OBVIOUS
  <2> HIDE DEF val
  <2> QED  BY <1>6, <1>7, <2>1, <2>2, ChangedInPlace
<1>8. CASE open.start # highest + 1
  <2>1. highest + 1 - 1 = highest /\ open.start <= highest  BY <1>0, <1>8
  <2>2. ranges' = Map!Closed(ranges, (highest + 1) - 1, e, val, MapSize)
    <3>1. Map!Last(ranges) = open  BY LastIsOpen
    <3> QED  BY <1>1, <1>8, <3>1, Zenon DEF Map!ExcludeRange
  <2>3. \E d \in {0, 1} : Reopens(e, val, d)
    BY <1>0, <2>1, <2>2, ClosedReopens
  <2> QED  BY <1>6, <2>1, <2>3, ChangedByClosing
<1> QED  BY <1>7, <1>8

LEMMA AdvanceKeeps ==
  ASSUME MapInv, NEW k \in (highest + 1)..MapKeys, MapAdvance(k) PROVE MapInv'
<1>0. highest \in Int /\ k \in Int /\ k > highest /\ k \in KeySet /\ highest' = k
      /\ ranges' = ranges /\ ref' = ref /\ first' = first /\ cuts' = cuts
  BY MapBounds DEF MapInv, MapTypes, KeySet, MapAdvance
<1>1. n' = n /\ open' = open  BY <1>0 DEF n, open
<1>2. MapTypes'  BY <1>0, <1>1 DEF MapInv, MapTypes, KeySet
<1>3. InOrder'
  <2>1. \A i \in 1..n : ranges[i].end \in Int  BY RangeFields
  <2> QED  BY <1>0, <1>1, <2>1 DEF MapInv, InOrder
<1>4. OpenHolds'
  <2>1. open.start \in Int
    <3>1. n \in 1..n  BY MapBounds DEF MapInv, MapTypes
    <3> QED  BY <3>1, RangeFields DEF open
  <2> QED  BY <1>0, <1>1, <2>1 DEF MapInv, OpenHolds, KeySet
<1>5. ClosedHold' /\ GapsExcluded'
  BY <1>0, <1>1 DEF MapInv, ClosedHold, GapsExcluded, Within, KeySet
<1>6. RangesCounted' /\ OldPushedOut'
  BY <1>0, <1>1 DEF MapInv, RangesCounted, OldPushedOut, Later, LaterCuts, KeySet
<1> QED  BY <1>2, <1>3, <1>4, <1>5, <1>6 DEF MapInv

LEMMA ResetKeeps ==
  ASSUME NEW k \in KeySet, NEW val \in Int, MapReset(k, val) PROVE MapInv'
<1>1. /\ ranges' = Map!Fresh(k, val) /\ highest' = k /\ first' = k /\ cuts' = <<>>
      /\ ref' = [i \in KeySet |-> val]
  BY DEF MapReset, KeySet
<1>2. KeySet \subseteq Int /\ MapSize \in Nat  BY MapBounds DEF KeySet
<1>3. ranges' = <<[start |-> k, end |-> 0, value |-> val]>>  BY <1>1 DEF Map!Fresh
<1>4. /\ ranges' \in Seq(RangeRecords) /\ n' = 1
      /\ ranges'[1] = [start |-> k, end |-> 0, value |-> val]
  BY <1>2, <1>3 DEF RangeRecords, n
<1>5. MapTypes'
  BY <1>1, <1>2, <1>4 DEF MapTypes, KeySet
<1>6. k \in Int /\ open'.start = k /\ open'.value = val
  BY <1>2, <1>4 DEF open
<1>7. InOrder' /\ ClosedHold' /\ GapsExcluded' /\ RangesCounted'
  BY <1>4, <1>6 DEF InOrder, ClosedHold, GapsExcluded, RangesCounted, KeySet
<1>8. OpenHolds'
  BY <1>1, <1>6 DEF OpenHolds, KeySet
<1>9. OldPushedOut'
  BY <1>1, <1>4 DEF OldPushedOut
<1> QED  BY <1>5, <1>7, <1>8, <1>9 DEF MapInv

(* Every call keeps the invariant.                                          *)
LEMMA MapPreserves ==
  ASSUME MapInv, [MapNext]_mapVars PROVE MapInv'
<1>1. ASSUME NEW k \in (highest + 1)..MapKeys, MapAdvance(k) PROVE MapInv'
  BY <1>1, AdvanceKeeps
<1>2. ASSUME NEW k \in (highest + 1)..MapKeys, MapExclude(highest + 1, k) PROVE MapInv'
  BY <1>2, ExcludeKeeps
<1>3. ASSUME NEW num \in 1..2, MapPad(num) PROVE MapInv'
  BY <1>3, PadKeeps
<1>4. ASSUME NEW k \in 0..MapKeys, MapReset(k, 2) PROVE MapInv'
  BY <1>4, ResetKeeps DEF KeySet
<1>5. CASE UNCHANGED mapVars
  <2>1. ranges' = ranges /\ highest' = highest /\ ref' = ref /\ first' = first /\ cuts' = cuts
    BY <1>5 DEF mapVars
  <2> QED
    BY <2>1
    DEF MapInv, MapTypes, InOrder, OpenHolds, ClosedHold, GapsExcluded, RangesCounted,
        OldPushedOut, Later, LaterCuts, Within, open, n, KeySet
<1> QED  BY <1>1, <1>2, <1>3, <1>4, <1>5 DEF MapNext

(* What the invariant says of a lookup.                                     *)
LEMMA LookupAgrees ==
  ASSUME MapInv PROVE MapSorted /\ LookupsAgree
<1>0. /\ n \in 1..n /\ n \in Int /\ KeySet \subseteq Int /\ n = Len(ranges) /\ 1 \in 1..n
      /\ \A i \in 1..n : ranges[i].start \in Int /\ ranges[i].end \in Int
  BY RangeFields, MapBounds DEF MapInv, MapTypes, KeySet, n
<1>1. MapSorted
  <2>1. ASSUME NEW i \in 1..(n - 1)
        PROVE  ranges[i].start <= ranges[i].end /\ ranges[i].end < ranges[i + 1].start
    <3>1. i \in 1..n /\ i + 1 \in 1..n /\ i < i + 1  BY <1>0
    <3> QED  BY <3>1 DEF MapInv, InOrder
  <2> QED  BY <2>1 DEF MapSorted, n
<1>2. ASSUME NEW k \in KeySet
      PROVE  /\ Map!GetValue(ranges, k).err = "none" => Map!GetValue(ranges, k).v = ref[k]
             /\ Map!GetValue(ranges, k).err = "excluded" => ref[k] = Excluded
             /\ Map!GetValue(ranges, k).err \notin {"none", "excluded"} =>
                  k < first \/ ref[k] = Excluded \/ Later(k) > MapSize
  <2> DEFINE In == {i \in 1..(n - 1) : Within(i, k)}
             v == Map!GetValue(ranges, k)
  <2>0. In = {i \in 1..(Len(ranges) - 1) : ranges[i].start <= k /\ k <= ranges[i].end}
    BY DEF Within, n
  <2>a. Map!Last(ranges) = open /\ open.start \in Int /\ ranges[1].start \in Int /\ k \in Int
    BY <1>0, LastIsOpen DEF open
  <2>b. ranges[1].start <= open.start
    <3>1. CASE n = 1  BY <2>a, <3>1 DEF open
    <3>2. CASE n # 1
      <4>1. 1 < n  BY <1>0, <3>2
      <4>2. ranges[1].start <= ranges[1].end /\ ranges[1].end < open.start
        BY <1>0, <4>1 DEF MapInv, InOrder, open
      <4> QED  BY <1>0, <2>a, <4>2
    <3> QED  BY <3>1, <3>2
  <2>1. CASE k >= open.start
    <3>0. ~ (k < ranges[1].start) /\ ~ (k < open.start)  BY <2>1, <2>a, <2>b
    <3>1. v = [err |-> "none", v |-> open.value]
      BY <2>1, <2>a, <3>0, Zenon DEF Map!GetValue, Map!Found
    <3>2. ref[k] = open.value  BY <2>1 DEF MapInv, OpenHolds
    <3> HIDE DEF v
    <3>3. v.err = "none" /\ v.v = ref[k]  BY <3>1, <3>2
    <3> QED  BY <3>3 DEF v
  <2>2. CASE k < ranges[1].start
    <3>0. ~ (k >= ranges[1].start) /\ ~ (k >= open.start)  BY <2>2, <2>a, <2>b
    <3>1. v = [err |-> "too old", v |-> 0]
      BY <2>2, <2>a, <3>0, Zenon DEF Map!GetValue, Map!Missed
    <3>2. k < first \/ ref[k] = Excluded \/ Later(k) > MapSize
      BY <2>2 DEF MapInv, OldPushedOut
    <3> HIDE DEF v
    <3>3. v.err # "none" /\ v.err # "excluded"  BY <3>1, Zenon
    <3> QED  BY <3>2, <3>3 DEF v
  <2>3. CASE k >= ranges[1].start /\ k < open.start
    <3>1. ~ (k >= open.start) /\ ~ (k < ranges[1].start)  BY <2>3, <2>a
    <3>2. CASE In # {}
      <4> DEFINE j == CHOOSE i \in In : TRUE
      <4>1. j \in In  BY <3>2
      <4>2. v = [err |-> "none", v |-> ranges[j].value]
        BY <2>0, <2>3, <2>a, <3>1, <3>2, Zenon DEF Map!GetValue, Map!Found
      <4>3. ref[k] = ranges[j].value
        BY <4>1 DEF MapInv, ClosedHold
      <4> HIDE DEF v
      <4>4. v.err = "none" /\ v.v = ref[k]  BY <4>2, <4>3
      <4> QED  BY <4>4 DEF v
    <3>3. CASE In = {}
      <4>1. v = [err |-> "excluded", v |-> 0]
        BY <2>0, <2>3, <2>a, <3>1, <3>3, Zenon DEF Map!GetValue, Map!Missed
      <4>2. ref[k] = Excluded
        BY <2>3, <3>3 DEF MapInv, GapsExcluded
      <4> HIDE DEF v
      <4>3. v.err = "excluded"  BY <4>1
      <4> QED  BY <4>2, <4>3 DEF v
    <3> QED  BY <3>2, <3>3
  <2> QED  BY <2>1, <2>2, <2>3, <2>a
<1>3. LookupsAgree
  <2>1. ASSUME NEW k \in 0..MapKeys
        PROVE  LET v == Map!GetValue(ranges, k)
               IN  CASE v.err = "none" -> v.v = ref[k]
                     [] v.err = "excluded" -> ref[k] = Excluded
                     [] OTHER -> \/ k < first \/ ref[k] = Excluded
                                 \/ Cardinality({i \in DOMAIN cuts : cuts[i] > k}) > MapSize
    <3>1. k \in KeySet  BY DEF KeySet
    <3>2. Later(k) = Cardinality({i \in DOMAIN cuts : cuts[i] > k})
      BY DEF Later, LaterCuts
    <3>3. CASE Map!GetValue(ranges, k).err = "none"
      <4>1. Map!GetValue(ranges, k).err # "excluded"  BY <3>3
      <4> QED  BY <1>2, <3>1, <3>3, <4>1
    <3>4. CASE Map!GetValue(ranges, k).err = "excluded"
      <4>1. Map!GetValue(ranges, k).err # "none"  BY <3>4
      <4> QED  BY <1>2, <3>1, <3>4, <4>1
    <3>5. CASE Map!GetValue(ranges, k).err \notin {"none", "excluded"}
      BY <1>2, <3>1, <3>2, <3>5
    <3> QED  BY <3>3, <3>4, <3>5
  <2> QED  BY <2>1 DEF LookupsAgree
<1> QED  BY <1>1, <1>3

LEMMA MapInitially == ASSUME MapInit PROVE MapInv
<1>1. highest \in KeySet /\ MapSize \in Nat /\ 0 \in Int  BY MapBounds DEF MapInit, KeySet
<1>2. /\ ranges = Map!Fresh(highest, 0) /\ first = highest /\ cuts = <<>>
      /\ ref = [k \in KeySet |-> 0]
  BY DEF MapInit, KeySet
<1>3. PICK k \in KeySet : k = highest  BY <1>1
<1> QED  BY <1>1, <1>2, <1>3, FreshIsRight

(* RangeMap, called as RTPMunger and the sequencer call it: the ranges stay *)
(* in order, and a lookup gives every key the offset all calls together     *)
(* give it, or says rightly that it is excluded or too old.                 *)
THEOREM RangeMapIsExact == MapSpec => [](MapSorted /\ LookupsAgree)
<1>1. MapInit => MapInv  BY MapInitially
<1>2. MapInv /\ [MapNext]_mapVars => MapInv'  BY MapPreserves
<1>3. MapInv => MapSorted /\ LookupsAgree  BY LookupAgrees
<1> QED  BY <1>1, <1>2, <1>3, PTL DEF MapSpec

(* The same for the map among the parts of the packet path.                 *)
THEOREM MapAgrees == PartsSpec => []Agrees
<1>1. PartsInit => MapInv  BY MapInitially DEF PartsInit
<1>2. MapInv /\ [TrackStep \/ MapStep \/ BufferStep]_allVars => MapInv'
  <2>1. ASSUME MapInv, [TrackStep \/ MapStep \/ BufferStep]_allVars PROVE [MapNext]_mapVars
    BY <2>1 DEF TrackStep, MapStep, BufferStep, allVars, mapVars
  <2> QED  BY <2>1, MapPreserves
<1>3. MapInv => Agrees  BY LookupAgrees DEF Agrees
<1> QED  BY <1>1, <1>2, <1>3, PTL DEF PartsSpec
=============================================================================
