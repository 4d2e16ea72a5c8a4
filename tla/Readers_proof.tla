----------------------------- MODULE Readers_proof -----------------------------
(* Theorems about parts that follow what others write: the websocket       *)
(* client of the prices (PriceFeed), the index price (Pricing), lists read *)
(* page by page (Pages), the slipstopper's picture of the placed orders    *)
(* (Slipstopper), the liquidation service (Liquidations) and the archiver  *)
(* (Archiver).                                                             *)
EXTENDS PriceFeed, Pricing, Pages, Slipstopper, Liquidations, Archiver, Sums_proof

(* The websocket client of the prices.                                     *)

(* A goroutine that dials, or has dialled, is the reason for the state     *)
(* connecting, and there is one of them at most; it has a connection once  *)
(* it has dialled.                                                         *)
Dialling(g) == feedPc[g] \in {"dial", "dialled"}

OneDials ==
    /\ \A g \in Loops : Dialling(g) => feedState = "connecting"
    /\ \A g, h \in Loops : Dialling(g) /\ Dialling(h) => g = h
    /\ \A g \in Loops : feedPc[g] = "dialled" => conn # "none"

(* The state says connected of a connection only.                          *)
ConnectedHasConn == feedState = "connected" => conn # "none"

Places == {"idle", "use", "reconnect", "dial", "dialled"}

FeedIInv ==
    /\ feedPc \in [Loops -> Places]
    /\ ConnInUse /\ OneDials /\ ConnectedHasConn

LEMMA FeedInitHolds == FeedInit => FeedIInv
BY DEF FeedInit, FeedIInv, Places, ConnInUse, OneDials, Dialling, ConnectedHasConn

(* The two goroutines, as long as they use the connection.                 *)
LEMMA UseKeeps ==
    ASSUME FeedIInv, \/ readWSData \/ handlePingsAndTimeouts \/ \E g \in Loops : Return(g)
    PROVE  FeedIInv'
<1> USE DEF FeedIInv, Places, ConnInUse, OneDials, Dialling, ConnectedHasConn, Goes, Loops
<1>1. CASE readWSData
  BY <1>1 DEF readWSData
<1>2. CASE handlePingsAndTimeouts
  BY <1>2 DEF handlePingsAndTimeouts
<1>3. CASE \E g \in Loops : Return(g)
  BY <1>3 DEF Return
<1>4. QED
  BY <1>1, <1>2, <1>3

(* Who enters the state connecting finds nobody at the connection, and     *)
(* nobody else enters it before the dials are over.                        *)
LEMMA ReplacementKeeps ==
    ASSUME FeedIInv, NEW g \in Loops, enterConnectingState(g) \/ dial(g) \/ reconnect(g)
    PROVE  FeedIInv'
<1> USE DEF FeedIInv, Places, ConnInUse, OneDials, Dialling, ConnectedHasConn, Goes, Loops
<1>1. CASE enterConnectingState(g)
  BY <1>1 DEF enterConnectingState, Refused, Unlocked
<1>2. CASE dial(g)
  BY <1>2 DEF dial, GiveUp, FeedFault, Unlocked
<1>3. CASE reconnect(g)
  BY <1>3 DEF reconnect, Unlocked
<1>4. QED
  BY <1>1, <1>2, <1>3

(* The inductive invariant.                                                *)
THEOREM FeedInvariance == FeedSpec => []FeedIInv
<1>1. FeedIInv /\ [FeedNext]_feedVars => FeedIInv'
  <2> SUFFICES ASSUME FeedIInv, [FeedNext]_feedVars PROVE FeedIInv'
    OBVIOUS
  <2>1. CASE ConnectionBreaks \/ IntervalPasses \/ UNCHANGED feedVars
    BY <2>1 DEF ConnectionBreaks, IntervalPasses, FeedFault, feedVars,
                FeedIInv, ConnInUse, OneDials, Dialling, ConnectedHasConn
  <2>2. QED
    BY <2>1, UseKeeps, ReplacementKeeps DEF FeedNext, FeedStep
<1>2. QED
  BY <1>1, FeedInitHolds, PTL DEF FeedSpec

(* No goroutine reads or writes a connection that was taken away: the read *)
(* lock and the state connecting suffice, although the dials themselves    *)
(* are made without a lock.                                                *)
THEOREM ConnStaysInUse == FeedSpec => []ConnInUse
<1>1. FeedIInv => ConnInUse
  BY DEF FeedIInv
<1>2. QED
  BY <1>1, FeedInvariance, PTL

-------------------------------------------------------------------------------
(* The index price.                                                        *)

Below(f, v) == {i \in DOMAIN f : f[i] < v}
UpTo(f, v) == {i \in DOMAIN f : f[i] <= v}

(* Ranked finds the value of a rank.                                       *)
LEMMA RankedFound ==
    ASSUME NEW D, IsFiniteSet(D), NEW f \in [D -> Nat], NEW k \in Nat, 1 <= k, k <= Cardinality(D)
    PROVE  /\ \E i \in D : Ranked(f, k) = f[i]
           /\ Cardinality(Below(f, Ranked(f, k))) < k /\ k <= Cardinality(UpTo(f, Ranked(f, k)))
<1> DEFINE T == {U \in SUBSET D : k <= Cardinality(U) /\ \E i \in D : U = UpTo(f, f[i])}
<1>1. (\A y \in Range(f) : y \in Int) /\ IsFiniteSet(Range(f))
  <2>1. f \in Surjection(D, Range(f))
    BY DEF Surjection, Range
  <2> QED
    BY <2>1, FS_Surjection DEF Range
<1>2. T # {}
  <2>1. D # {}
    BY FS_EmptySet
  <2>2. Range(f) # {}
    BY <2>1 DEF Range
  <2>3. PICK i \in D : \A y \in Range(f) : y <= f[i]
    BY <1>1, <2>2, GreatestNumber DEF Range
  <2>4. UpTo(f, f[i]) = D
    BY <2>3 DEF UpTo, Range
  <2> QED
    BY <2>4
<1>3. PICK U \in T : \A V \in T : ~(V \subseteq U /\ V # U)
  <2>1. T \in SUBSET SUBSET D
    OBVIOUS
  <2> HIDE DEF T
  <2> QED
    BY <1>2, <2>1, LeastSubset
<1>4. PICK i \in D : U = UpTo(f, f[i]) /\ k <= Cardinality(U)
  BY <1>3
<1>5. Cardinality(Below(f, f[i])) < k
  <2> SUFFICES ASSUME ~(Cardinality(Below(f, f[i])) < k) PROVE FALSE
    OBVIOUS
  <2> DEFINE B == Below(f, f[i])
             R == {f[j] : j \in B}
  <2>1. B \in SUBSET D /\ IsFiniteSet(B) /\ Cardinality(B) \in Nat /\ k <= Cardinality(B)
    <3>1. B \in SUBSET D
      BY DEF Below
    <3>2. IsFiniteSet(B) /\ Cardinality(B) \in Nat
      BY <3>1, FS_Subset, FS_CardinalityType
    <3> QED
      BY <3>1, <3>2
  <2>2. B # {}
    BY <2>1, FS_EmptySet
  <2>3. (\A y \in R : y \in Int) /\ R # {} /\ R \in SUBSET Range(f)
    BY <2>1, <2>2 DEF Range
  <2>4. IsFiniteSet(R)
    BY <1>1, <2>3, FS_Subset
  <2>5. PICK j \in B : \A y \in R : y <= f[j]
    BY <2>3, <2>4, GreatestNumber
  <2>6. f[j] < f[i] /\ f[i] \in Nat /\ f[j] \in Nat /\ \A l \in D : f[l] \in Nat
    BY <2>1, <2>5 DEF Below
  <2>7. \A l \in D : f[l] <= f[j] <=> f[l] < f[i]
    <3>1. ASSUME NEW l \in D, f[l] < f[i] PROVE f[l] <= f[j]
      <4>1. l \in B
        BY <3>1 DEF Below
      <4> QED
        BY <2>5, <4>1
    <3>2. ASSUME NEW l \in D, f[l] <= f[j] PROVE f[l] < f[i]
      BY <2>6, <3>2
    <3> QED
      BY <3>1, <3>2
  <2>8. UpTo(f, f[j]) = B
    BY <2>7 DEF UpTo, Below
  <2>9. B \in T
    BY <2>1, <2>5, <2>8
  <2>10. i \in U /\ i \notin B /\ B \subseteq U
    BY <1>4, <2>6 DEF UpTo, Below
  <2> QED
    BY <1>3, <2>9, <2>10
<1>6. f[i] \in Range(f)
  BY DEF Range
<1>7. /\ Ranked(f, k) \in Range(f)
      /\ Cardinality({j \in DOMAIN f : f[j] < Ranked(f, k)}) < k
      /\ k <= Cardinality({j \in DOMAIN f : f[j] <= Ranked(f, k)})
  BY <1>4, <1>5, <1>6 DEF Ranked, Below, UpTo
<1> QED
  BY <1>7 DEF Range, Below, UpTo

(* The value of a rank is at most one of so many values, and at least one  *)
(* of those of which all but fewer are.                                    *)
LEMMA RankedBetween ==
    ASSUME NEW D, IsFiniteSet(D), NEW f \in [D -> Nat], NEW k \in Nat, 1 <= k, k <= Cardinality(D), NEW A \in SUBSET D
    PROVE  /\ Ranked(f, k) \in Nat /\ \E i \in D : Ranked(f, k) = f[i]
           /\ k <= Cardinality(A) => \E i \in A : Ranked(f, k) <= f[i]
           /\ Cardinality(D \ A) < k => \E i \in A : f[i] <= Ranked(f, k)
<1>1. PICK r : r = Ranked(f, k)
  OBVIOUS
<1>2. /\ \E i \in D : r = f[i]
      /\ Cardinality(Below(f, r)) < k /\ k <= Cardinality(UpTo(f, r))
  BY <1>1, RankedFound
<1>3. r \in Nat /\ \A i \in D : f[i] \in Nat
  BY <1>2
<1>4. Below(f, r) \in SUBSET D /\ UpTo(f, r) \in SUBSET D /\ D \ A \in SUBSET D
  BY DEF Below, UpTo
<1>5. /\ IsFiniteSet(Below(f, r)) /\ IsFiniteSet(UpTo(f, r)) /\ IsFiniteSet(A) /\ IsFiniteSet(D \ A)
      /\ Cardinality(Below(f, r)) \in Nat /\ Cardinality(UpTo(f, r)) \in Nat
      /\ Cardinality(A) \in Nat /\ Cardinality(D \ A) \in Nat
  BY <1>4, FS_Subset, FS_CardinalityType
<1>6. ASSUME k <= Cardinality(A) PROVE \E i \in A : r <= f[i]
  <2>1. ~(A \subseteq Below(f, r))
    <3> SUFFICES ASSUME A \in SUBSET Below(f, r) PROVE FALSE
      OBVIOUS
    <3>1. Cardinality(A) <= Cardinality(Below(f, r))
      BY <1>5, FS_Subset
    <3> QED
      BY <1>2, <1>5, <1>6, <3>1
  <2>2. PICK i \in A : i \notin Below(f, r)
    BY <2>1
  <2>3. ~(f[i] < r)
    BY <2>2 DEF Below
  <2> QED
    BY <1>3, <2>3
<1>7. ASSUME Cardinality(D \ A) < k PROVE \E i \in A : f[i] <= r
  <2>1. ~(UpTo(f, r) \subseteq D \ A)
    <3> SUFFICES ASSUME UpTo(f, r) \in SUBSET (D \ A) PROVE FALSE
      OBVIOUS
    <3>1. Cardinality(UpTo(f, r)) <= Cardinality(D \ A)
      BY <1>5, FS_Subset
    <3> QED
      BY <1>2, <1>5, <1>7, <3>1
  <2> QED
    BY <2>1 DEF UpTo
<1> QED
  BY <1>1, <1>2, <1>3, <1>6, <1>7

(* A median is the mean of the two values in the middle.                   *)
LEMMA MedianFound ==
    ASSUME NEW D, IsFiniteSet(D), NEW f \in [D -> Nat], D # {}
    PROVE  \E j, l \in 1 .. Cardinality(D) :
              /\ j + l = Cardinality(D) + 1 /\ j <= l /\ l <= j + 1
              /\ median(f) = (Ranked(f, j) + Ranked(f, l)) \div 2
<1>1. PICK n \in Nat : n = Cardinality(D) /\ n # 0
  BY FS_CardinalityType, FS_EmptySet
<1>2. DOMAIN f = D
  OBVIOUS
<1>3. CASE n % 2 = 0
  <2>1. PICK h \in Nat : n = 2 * h /\ n \div 2 = h
    BY <1>1, <1>3
  <2>2. median(f) = (Ranked(f, h) + Ranked(f, h + 1)) \div 2
    BY <1>1, <1>2, <1>3, <2>1 DEF median
  <2>3. h \in 1 .. n /\ h + 1 \in 1 .. n /\ h + (h + 1) = n + 1 /\ h <= h + 1 /\ h + 1 <= h + 1
    BY <1>1, <2>1
  <2> QED
    BY <1>1, <2>2, <2>3
<1>4. CASE n % 2 # 0
  <2>1. PICK h \in Nat : n = 2 * h + 1 /\ n \div 2 = h
    BY <1>1, <1>4
  <2>2. PICK k \in Nat : k = h + 1
    OBVIOUS
  <2>3. median(f) = Ranked(f, k)
    BY <1>1, <1>2, <1>4, <2>1, <2>2 DEF median
  <2>4. k \in 1 .. n /\ k + k = n + 1 /\ k <= k /\ k <= k + 1
    BY <1>1, <2>1, <2>2
  <2>5. Ranked(f, k) \in Nat
    <3>1. 1 <= k /\ k <= Cardinality(D) /\ D \in SUBSET D
      BY <1>1, <2>4
    <3> QED
      BY <3>1, RankedBetween
  <2>6. (Ranked(f, k) + Ranked(f, k)) \div 2 = Ranked(f, k)
    BY <2>5
  <2> QED
    BY <1>1, <2>3, <2>4, <2>6
<1> QED
  BY <1>3, <1>4

(* The percentages in integers.                                            *)
LEMMA Percents ==
    ASSUME NEW v \in Nat, NEW t \in Nat
    PROVE  /\ closeEnough(v, t, 2) <=> 50 * v <= 51 * t /\ 49 * t <= 50 * v
           /\ closeEnough(v, t, 5) <=> 20 * v <= 21 * t /\ 19 * t <= 20 * v
           /\ closeEnough(v, t, 6) <=> 50 * v <= 53 * t /\ 47 * t <= 50 * v
BY DEF closeEnough, Difference

Even(f) == \A i \in DOMAIN f : f[i] % 2 = 0

(* The mean of two even values is exact.                                   *)
LEMMA MedianIsMean ==
    ASSUME NEW D, IsFiniteSet(D), NEW f \in [D -> Nat], D # {}, Even(f)
    PROVE  \E j, l \in 1 .. Cardinality(D), a, b \in Nat :
              /\ a = Ranked(f, j) /\ b = Ranked(f, l)
              /\ j + l = Cardinality(D) + 1 /\ j <= l /\ l <= j + 1
              /\ median(f) \in Nat /\ 2 * median(f) = a + b
<1>1. PICK n \in Nat : n = Cardinality(D) /\ n # 0
  BY FS_CardinalityType, FS_EmptySet
<1>2. PICK j, l \in 1 .. n : j + l = n + 1 /\ j <= l /\ l <= j + 1 /\ median(f) = (Ranked(f, j) + Ranked(f, l)) \div 2
  BY <1>1, MedianFound
<1>3. \A k \in 1 .. n : Ranked(f, k) \in Nat /\ \E i \in D : Ranked(f, k) = f[i]
  <2> SUFFICES ASSUME NEW k \in 1 .. n PROVE Ranked(f, k) \in Nat /\ \E i \in D : Ranked(f, k) = f[i]
    OBVIOUS
  <2>1. k \in Nat /\ 1 <= k /\ k <= Cardinality(D) /\ D \in SUBSET D
    BY <1>1
  <2> QED
    BY <2>1, RankedBetween
<1>4. PICK a, b \in Nat : a = Ranked(f, j) /\ b = Ranked(f, l) /\ a % 2 = 0 /\ b % 2 = 0
  BY <1>3 DEF Even
<1>5. (a + b) \div 2 \in Nat /\ 2 * ((a + b) \div 2) = a + b
  BY <1>4
<1> QED
  BY <1>1, <1>2, <1>4, <1>5

(* Two sources that agree, and two other values at most, the wrong source  *)
(* and the last price: when any two are near the median a sound one is.    *)
LEMMA SoundIsNear ==
    ASSUME NEW D, IsFiniteSet(D), NEW f \in [D -> Nat], Even(f), Consistent(f),
           NEW S \in SUBSET D, Cardinality(S) >= 2, Cardinality(D \ S) <= 2,
           \A s, t \in S : closeEnough(f[s], f[t], 2)
    PROVE  \E s \in S : closeEnough(f[s], median(f), 5)
<1> SUFFICES ASSUME \A s \in S : ~closeEnough(f[s], median(f), 5) PROVE FALSE
  OBVIOUS
<1>1. DOMAIN f = D /\ \A i \in D : f[i] \in Nat
  OBVIOUS
<1>2. PICK N : N = {i \in D : closeEnough(f[i], median(f), 5)}
  OBVIOUS
<1>3. N \in SUBSET (D \ S) /\ N \in SUBSET D /\ D \ S \in SUBSET D
  BY <1>2
<1>4. IsFiniteSet(S) /\ IsFiniteSet(D \ S) /\ IsFiniteSet(N)
  BY <1>3, FS_Subset
<1>5. PICK c, d, e, n \in Nat : c = Cardinality(S) /\ d = Cardinality(D \ S) /\ e = Cardinality(N) /\ n = Cardinality(D)
  BY <1>4, FS_CardinalityType
<1>6. n = c + d
  <2>1. S \cap (D \ S) = {} /\ S \cup (D \ S) = D
    OBVIOUS
  <2>2. Cardinality(S \cap (D \ S)) = 0
    BY <2>1, FS_EmptySet
  <2>3. Cardinality(S \cup (D \ S)) = Cardinality(S) + Cardinality(D \ S) - Cardinality(S \cap (D \ S))
    BY <1>4, FS_Union
  <2>4. Cardinality(D) = c + d - 0
    BY <1>5, <2>1, <2>2, <2>3
  <2> QED
    BY <1>5, <2>4
<1>7. c >= 2 /\ d <= 2 /\ e >= 2 /\ e <= d
  <2>1. n < 2 \/ e >= 2
    BY <1>1, <1>2, <1>5 DEF Consistent
  <2>2. e <= d
    BY <1>3, <1>4, <1>5, FS_Subset
  <2> QED
    BY <1>5, <1>6, <2>1, <2>2
<1>8. d = 2 /\ n >= 4 /\ D \ S = N
  <2>1. d = e /\ d = 2 /\ n >= 4
    BY <1>5, <1>6, <1>7
  <2>2. Cardinality(N) = Cardinality(D \ S)
    BY <1>5, <2>1
  <2>3. D \ S = N
    BY <1>3, <1>4, <2>2, FS_Subset
  <2> QED
    BY <2>1, <2>3
<1>9. D # {} /\ S # {}
  BY <1>4, <1>5, <1>7, <1>8, FS_EmptySet
<1>10. PICK j, l \in 1 .. n, a, b \in Nat :
          /\ a = Ranked(f, j) /\ b = Ranked(f, l) /\ j + l = n + 1 /\ j <= l /\ l <= j + 1
          /\ median(f) \in Nat /\ 2 * median(f) = a + b
  BY <1>5, <1>9, MedianIsMean
<1>11. PICK m \in Nat : m = median(f) /\ 2 * m = a + b
  BY <1>10
<1>12. \A i \in N : 20 * f[i] <= 21 * m /\ 19 * m <= 20 * f[i]
  BY <1>1, <1>2, <1>11, Percents
<1>13. \A s \in S : 20 * f[s] > 21 * m \/ 20 * f[s] < 19 * m
  BY <1>1, <1>11, Percents
<1>14. \A s, t \in S : 50 * f[s] <= 51 * f[t] /\ 49 * f[t] <= 50 * f[s]
  BY <1>1, Percents
<1>15. /\ j \in Nat /\ 1 <= j /\ j <= Cardinality(D) /\ l \in Nat /\ 1 <= l /\ l <= Cardinality(D)
       /\ j <= Cardinality(S) /\ l <= Cardinality(D) /\ Cardinality(D \ S) < l /\ D \in SUBSET D
  <2>1. j <= c /\ 2 < l
    BY <1>6, <1>7, <1>8, <1>10
  <2> QED
    BY <1>5, <1>8, <1>10, <2>1
<1>16. Cardinality(D \ D) < j
  <2>1. D \ D = {}
    OBVIOUS
  <2> QED
    BY <1>15, <2>1, FS_EmptySet
<1>17. PICK s \in S : TRUE
  BY <1>9
<1>18. CASE 20 * f[s] < 19 * m
  <2>1. \A t \in S : 20 * f[t] < 19 * m
    <3> SUFFICES ASSUME NEW t \in S PROVE 20 * f[t] < 19 * m
      OBVIOUS
    <3>1. f[t] \in Nat /\ f[s] \in Nat
      BY <1>1
    <3>2. 50 * f[t] <= 51 * f[s] /\ (20 * f[t] > 21 * m \/ 20 * f[t] < 19 * m)
      BY <1>13, <1>14
    <3> QED
      BY <1>11, <1>18, <3>1, <3>2
  <2>2. PICK t \in S : a <= f[t]
    BY <1>10, <1>15, RankedBetween
  <2>3. PICK i \in D : b <= f[i]
    BY <1>10, <1>15, RankedBetween
  <2>4. 20 * f[i] <= 21 * m
    BY <1>1, <1>8, <1>12, <2>1
  <2>5. 20 * f[t] < 19 * m /\ f[t] \in Nat /\ f[i] \in Nat
    BY <1>1, <2>1
  <2> QED
    BY <1>10, <1>11, <2>2, <2>3, <2>4, <2>5
<1>19. CASE 20 * f[s] > 21 * m
  <2>1. \A t \in S : 20 * f[t] > 21 * m
    <3> SUFFICES ASSUME NEW t \in S PROVE 20 * f[t] > 21 * m
      OBVIOUS
    <3>1. f[t] \in Nat /\ f[s] \in Nat
      BY <1>1
    <3>2. 50 * f[s] <= 51 * f[t] /\ (20 * f[t] > 21 * m \/ 20 * f[t] < 19 * m)
      BY <1>13, <1>14
    <3> QED
      BY <1>11, <1>19, <3>1, <3>2
  <2>2. PICK t \in S : f[t] <= b
    BY <1>10, <1>15, RankedBetween
  <2>3. PICK i \in D : f[i] <= a
    BY <1>10, <1>15, <1>16, RankedBetween
  <2>4. 19 * m <= 20 * f[i]
    <3>1. i \in N \/ i \in S
      BY <1>8
    <3> QED
      BY <1>1, <1>11, <1>12, <2>1, <3>1
  <2>5. 20 * f[t] > 21 * m /\ f[t] \in Nat /\ f[i] \in Nat
    BY <1>1, <2>1
  <2> QED
    BY <1>10, <1>11, <2>2, <2>3, <2>4, <2>5
<1> QED
  BY <1>13, <1>17, <1>18, <1>19

(* The median of values that are all near a price, of which all but one    *)
(* are sound.                                                              *)
LEMMA MedianNearSound ==
    ASSUME NEW D, IsFiniteSet(D), NEW f \in [D -> Nat], Even(f), NEW m \in Nat, \A i \in D : closeEnough(f[i], m, 5),
           NEW S \in SUBSET D, S # {}, Cardinality(D \ S) <= 1,
           \A s, t \in S : closeEnough(f[s], f[t], 2)
    PROVE  \E s \in S : closeEnough(median(f), f[s], 6)
<1>1. DOMAIN f = D /\ \A i \in D : f[i] \in Nat
  OBVIOUS
<1>2. IsFiniteSet(S) /\ IsFiniteSet(D \ S) /\ D \ S \in SUBSET D
  BY FS_Subset
<1>3. PICK c, d, n \in Nat : c = Cardinality(S) /\ d = Cardinality(D \ S) /\ n = Cardinality(D)
  BY <1>2, FS_CardinalityType
<1>4. n = c + d /\ c >= 1 /\ d <= 1
  <2>1. S \cap (D \ S) = {} /\ S \cup (D \ S) = D
    OBVIOUS
  <2>2. Cardinality(S \cap (D \ S)) = 0 /\ Cardinality(S) # 0
    BY <1>2, <2>1, FS_EmptySet
  <2>3. Cardinality(S \cup (D \ S)) = Cardinality(S) + Cardinality(D \ S) - Cardinality(S \cap (D \ S))
    BY <1>2, FS_Union
  <2> QED
    BY <1>3, <2>1, <2>2, <2>3
<1>5. PICK j, l \in 1 .. n, a, b \in Nat :
          /\ a = Ranked(f, j) /\ b = Ranked(f, l) /\ j + l = n + 1 /\ j <= l /\ l <= j + 1
          /\ median(f) \in Nat /\ 2 * median(f) = a + b
  BY <1>3, MedianIsMean
<1>6. PICK v \in Nat : v = median(f) /\ 2 * v = a + b
  BY <1>5
<1>7. \A i \in D : 20 * f[i] <= 21 * m /\ 19 * m <= 20 * f[i]
  BY <1>1, Percents
<1>8. \A s, t \in S : 50 * f[s] <= 51 * f[t] /\ 49 * f[t] <= 50 * f[s]
  BY <1>1, Percents
<1>9. PICK s \in S : TRUE
  OBVIOUS
<1>10. /\ j \in Nat /\ 1 <= j /\ j <= Cardinality(D) /\ l \in Nat /\ 1 <= l /\ l <= Cardinality(D)
       /\ D \in SUBSET D /\ Cardinality(D \ D) < j
  <2>1. D \ D = {}
    OBVIOUS
  <2> QED
    BY <1>3, <1>5, <2>1, FS_EmptySet
<1>11. CASE c = 1 /\ d = 1
  <2>1. S = {s}
    <3>1. Cardinality(S) = 1
      BY <1>3, <1>11
    <3>2. \E x : S = {x}
      BY <1>2, <3>1, FS_Singleton
    <3> QED
      BY <1>9, <3>2
  <2>2. j <= Cardinality(S) /\ Cardinality(D \ S) < l
    BY <1>3, <1>4, <1>5, <1>11
  <2>3. a <= f[s] /\ f[s] <= b
    <3>1. \E t \in S : a <= f[t]
      BY <1>5, <1>10, <2>2, RankedBetween
    <3>2. \E t \in S : f[t] <= b
      BY <1>5, <1>10, <2>2, RankedBetween
    <3> QED
      BY <2>1, <3>1, <3>2
  <2>4. PICK i \in D : f[i] <= a
    BY <1>5, <1>10, RankedBetween
  <2>5. PICK k \in D : b <= f[k]
    BY <1>5, <1>10, RankedBetween
  <2>6. PICK p, q, r \in Nat : p = f[i] /\ q = f[k] /\ r = f[s]
    BY <1>1
  <2>7. 19 * m <= 20 * p /\ 20 * q <= 21 * m /\ 19 * m <= 20 * r /\ 20 * r <= 21 * m
    BY <1>7, <2>6
  <2>8. 50 * v <= 53 * r /\ 47 * r <= 50 * v
    BY <1>5, <1>6, <2>3, <2>4, <2>5, <2>6, <2>7
  <2> QED
    BY <1>1, <1>6, <2>6, <2>8, Percents
<1>12. CASE ~(c = 1 /\ d = 1)
  <2>1. j <= Cardinality(S) /\ l <= Cardinality(S) /\ Cardinality(D \ S) < j /\ Cardinality(D \ S) < l
    <3>1. j <= c /\ l <= c /\ d < j /\ d < l
      <4>1. CASE d = 0
        BY <1>4, <1>5, <4>1
      <4>2. CASE d = 1
        <5>1. c >= 2 /\ n = c + 1
          BY <1>3, <1>4, <1>12, <4>2
        <5> QED
          BY <1>3, <1>5, <4>2, <5>1
      <4> QED
        BY <1>3, <1>4, <4>1, <4>2
    <3> QED
      BY <1>3, <3>1
  <2>2. PICK t \in S : a <= f[t]
    BY <1>5, <1>10, <2>1, RankedBetween
  <2>3. PICK u \in S : f[u] <= a
    BY <1>5, <1>10, <2>1, RankedBetween
  <2>4. PICK x \in S : b <= f[x]
    BY <1>5, <1>10, <2>1, RankedBetween
  <2>5. PICK y \in S : f[y] <= b
    BY <1>5, <1>10, <2>1, RankedBetween
  <2>6. PICK r \in Nat : r = f[s]
    BY <1>1
  <2>7. 50 * f[t] <= 51 * r /\ 49 * r <= 50 * f[u] /\ 50 * f[x] <= 51 * r /\ 49 * r <= 50 * f[y]
    BY <1>8, <2>6
  <2>8. 50 * a <= 51 * r /\ 49 * r <= 50 * a /\ 50 * b <= 51 * r /\ 49 * r <= 50 * b
    BY <1>1, <1>5, <2>2, <2>3, <2>4, <2>5, <2>6, <2>7
  <2>9. 50 * v <= 53 * r /\ 47 * r <= 50 * v
    BY <1>5, <1>6, <2>6, <2>8
  <2> QED
    BY <1>1, <1>6, <2>6, <2>9, Percents
<1> QED
  BY <1>11, <1>12

(* Prices that come in are multiples of four, so a median of them is even. *)
Fours(f) == \A i \in DOMAIN f : f[i] % 4 = 0

LEMMA MedianOfFours ==
    ASSUME NEW D, IsFiniteSet(D), NEW f \in [D -> Nat], Fours(f)
    PROVE  median(f) \in Nat /\ median(f) % 2 = 0
<1>1. CASE D = {}
  <2>1. Cardinality(DOMAIN f) = 0
    BY <1>1, FS_EmptySet
  <2>2. median(f) = 0
    BY <2>1 DEF median
  <2> QED
    BY <2>2
<1>2. CASE D # {}
  <2>1. Even(f)
    <3> SUFFICES ASSUME NEW i \in D PROVE f[i] % 2 = 0
      BY DEF Even
    <3>1. f[i] \in Nat /\ f[i] % 4 = 0
      BY DEF Fours
    <3> QED
      BY <3>1
  <2>2. PICK j, l \in 1 .. Cardinality(D), a, b \in Nat :
          /\ a = Ranked(f, j) /\ b = Ranked(f, l) /\ median(f) \in Nat /\ 2 * median(f) = a + b
    BY <1>2, <2>1, MedianIsMean
  <2>3. \A k \in 1 .. Cardinality(D) : \E i \in D : Ranked(f, k) = f[i]
    <3> SUFFICES ASSUME NEW k \in 1 .. Cardinality(D) PROVE \E i \in D : Ranked(f, k) = f[i]
      OBVIOUS
    <3>1. k \in Nat /\ 1 <= k /\ k <= Cardinality(D) /\ D \in SUBSET D
      BY FS_CardinalityType
    <3> QED
      BY <3>1, RankedBetween
  <2>4. a % 4 = 0 /\ b % 4 = 0
    BY <2>2, <2>3 DEF Fours
  <2>5. PICK v \in Nat : v = median(f) /\ 2 * v = a + b
    BY <2>2
  <2>6. v % 2 = 0
    <3>1. a = 4 * (a \div 4) /\ b = 4 * (b \div 4) /\ a \div 4 \in Nat /\ b \div 4 \in Nat
      BY <2>4
    <3>2. PICK p, q \in Nat : a = 4 * p /\ b = 4 * q
      BY <3>1
    <3>3. v = 2 * (p + q)
      BY <2>5, <3>2
    <3> QED
      BY <3>3
  <2> QED
    BY <2>5, <2>6
<1> QED
  BY <1>1, <1>2

LEMMA CombinedFollows ==
    ASSUME NEW D \in SUBSET PriceSources, D # {}, NEW f \in [D -> Nat], Fours(f),
           mostRecentPrice \in Nat, mostRecentPrice % 2 = 0,
           NEW S, S = D \cap SoundSources
    PROVE  /\ getCombinedPrice(f) \in Nat /\ getCombinedPrice(f) % 2 = 0
           /\ /\ Cardinality(S) >= 2 /\ Cardinality(D \ S) <= 1
              /\ \A s, t \in S : closeEnough(f[s], f[t], 2)
              /\ getCombinedPrice(f) # 0
              => \E s \in S : closeEnough(getCombinedPrice(f), f[s], 6)
<1>1. PICK g : g = IF Consistent(WithLast(f)) THEN WithLast(f) ELSE f
  OBVIOUS
<1>2. PICK near : near = {s \in D : closeEnough(f[s], median(g), 5)}
  OBVIOUS
<1>3. PICK h : h = [s \in near |-> f[s]]
  OBVIOUS
<1>4. IsFiniteSet(D) /\ IsFiniteSet(near) /\ near \in SUBSET D /\ S \in SUBSET D
  BY <1>2, PricingAssumption, FS_Subset
<1>5. DOMAIN f = D /\ (\A i \in D : f[i] \in Nat /\ f[i] % 4 = 0)
  BY DEF Fours
<1>6. getCombinedPrice(f) = IF Cardinality(D) = 1 THEN median(f) ELSE IF ~Consistent(g) THEN 0 ELSE median(h)
  BY <1>1, <1>2, <1>3, <1>5 DEF getCombinedPrice, Restrict
<1>7. h \in [near -> Nat] /\ Fours(h)
  BY <1>3, <1>4, <1>5 DEF Fours
<1>8. getCombinedPrice(f) \in Nat /\ getCombinedPrice(f) % 2 = 0
  <2>1. median(f) \in Nat /\ median(f) % 2 = 0
    BY <1>4, MedianOfFours
  <2>2. median(h) \in Nat /\ median(h) % 2 = 0
    BY <1>4, <1>7, MedianOfFours
  <2> QED
    BY <1>6, <2>1, <2>2
<1>9. ASSUME Cardinality(S) >= 2, Cardinality(D \ S) <= 1, \A s, t \in S : closeEnough(f[s], f[t], 2),
             getCombinedPrice(f) # 0
      PROVE  \E s \in S : closeEnough(getCombinedPrice(f), f[s], 6)
  <2>1. /\ IsFiniteSet(S) /\ IsFiniteSet(D \ S)
        /\ Cardinality(S) \in Nat /\ Cardinality(D \ S) \in Nat /\ Cardinality(D) \in Nat
        /\ Cardinality(S) <= Cardinality(D)
    BY <1>4, FS_Subset, FS_CardinalityType
  <2>2. Cardinality(D) # 1
    BY <1>9, <2>1
  <2>3. Consistent(g) /\ getCombinedPrice(f) = median(h)
    BY <1>6, <1>9, <2>2
  <2>4. PICK E : /\ g \in [E -> Nat] /\ S \in SUBSET E /\ IsFiniteSet(E) /\ Cardinality(E \ S) <= 2 /\ Even(g)
                 /\ \A s \in S : g[s] = f[s]
    <3>1. CASE g = f
      <4>1. Even(f)
        <5> SUFFICES ASSUME NEW i \in D PROVE f[i] % 2 = 0
          BY <1>5 DEF Even
        <5>1. f[i] \in Nat /\ f[i] % 4 = 0
          BY <1>5
        <5> QED
          BY <5>1
      <4>2. Cardinality(D \ S) <= 2
        BY <1>9, <2>1
      <4> QED
        BY <1>4, <3>1, <4>1, <4>2
    <3>2. CASE g # f
      <4>1. PICK E : E = D \cup {"last"}
        OBVIOUS
      <4>2. g = [s \in E |-> IF s = "last" THEN mostRecentPrice ELSE f[s]]
        BY <1>1, <1>5, <3>2, <4>1 DEF WithLast
      <4>3. "last" \notin D
        BY PricingAssumption
      <4>4. g \in [E -> Nat] /\ (\A s \in D : g[s] = f[s]) /\ g["last"] = mostRecentPrice
        BY <1>5, <4>1, <4>2, <4>3
      <4>5. Even(g)
        <5> SUFFICES ASSUME NEW i \in E PROVE g[i] % 2 = 0
          BY <4>4 DEF Even
        <5>1. CASE i = "last"
          BY <4>4, <5>1
        <5>2. CASE i \in D
          <6>1. g[i] = f[i] /\ f[i] \in Nat /\ f[i] % 4 = 0
            BY <1>5, <4>4, <5>2
          <6> QED
            BY <6>1
        <5> QED
          BY <4>1, <5>1, <5>2
      <4>6. E \ S = (D \ S) \cup {"last"}
        BY <1>4, <4>1, <4>3
      <4>7. Cardinality((D \ S) \cup {"last"}) <= 2
        <5>1. PICK d \in Nat : d = Cardinality(D \ S) /\ d <= 1
          BY <1>9, <2>1
        <5>2. Cardinality((D \ S) \cup {"last"}) \in {d, d + 1}
          BY <2>1, <5>1, FS_AddElement
        <5> QED
          BY <5>1, <5>2
      <4>8. IsFiniteSet(E) /\ S \in SUBSET E
        BY <1>4, <4>1, FS_AddElement
      <4> QED
        BY <1>4, <4>4, <4>5, <4>6, <4>7, <4>8
    <3> QED
      BY <3>1, <3>2
  <2>5. \A s, t \in S : closeEnough(g[s], g[t], 2)
    BY <1>9, <2>4
  <2>6. PICK s \in S : closeEnough(g[s], median(g), 5)
    BY <1>9, <2>3, <2>4, <2>5, SoundIsNear
  <2>7. PICK N : N = near \cap S
    OBVIOUS
  <2>8. s \in N
    BY <1>2, <1>4, <2>4, <2>6, <2>7
  <2>9. N \in SUBSET near /\ N # {} /\ near \ N \in SUBSET (D \ S)
    BY <1>4, <2>7, <2>8
  <2>10. Cardinality(near \ N) <= 1
    <3>1. Cardinality(near \ N) <= Cardinality(D \ S) /\ IsFiniteSet(near \ N)
      BY <2>1, <2>9, FS_Subset
    <3>2. Cardinality(near \ N) \in Nat
      BY <3>1, FS_CardinalityType
    <3> QED
      BY <1>9, <2>1, <3>1, <3>2
  <2>11. Even(h)
    <3> SUFFICES ASSUME NEW i \in near PROVE h[i] % 2 = 0
      BY <1>7 DEF Even
    <3>1. h[i] \in Nat /\ h[i] % 4 = 0
      BY <1>7 DEF Fours
    <3> QED
      BY <3>1
  <2>12. PICK m \in Nat : m = median(g)
    <3>1. E # {}
      BY <2>4, <2>6
    <3> QED
      BY <2>4, <3>1, MedianIsMean
  <2>13. \A i \in near : closeEnough(h[i], m, 5)
    BY <1>2, <1>3, <2>12
  <2>14. \A i \in N : h[i] = f[i] /\ i \in S
    BY <1>3, <2>7
  <2>15. \A i, t \in N : closeEnough(h[i], h[t], 2)
    BY <1>9, <2>14
  <2>16. \E i \in N : closeEnough(median(h), h[i], 6)
    BY <1>4, <1>7, <2>9, <2>10, <2>11, <2>13, <2>15, MedianNearSound
  <2> QED
    BY <2>3, <2>14, <2>16
<1> QED
  BY <1>8, <1>9

(* The inductive invariant.                                                *)
PriceRows ==
    /\ market \in PriceLevels
    /\ latestPrices \in [PriceSources -> [price : {p \in Nat : p % 4 = 0}, age : Nat]]
    /\ mostRecentPrice \in Nat /\ mostRecentPrice % 2 = 0

(* A run of rejected prices is no longer than the wait.                    *)
RunsWait ==
    /\ rejectedRunLength \in Nat /\ waited \in Nat
    /\ rejectedRunLength <= waited \/ waited > MaxRejectedRun

PriceInv == PriceRows /\ RunsWait /\ (SoundAgree => IndexFollowsSound)

LEMMA WaitGrows ==
    ASSUME NEW w \in Nat
    PROVE  Min({w + 1, MaxRejectedRun + 1}) \in Nat /\ Min({w + 1, MaxUseAge + 1}) \in Nat
           /\ (Min({w + 1, MaxRejectedRun + 1}) = w + 1 \/ Min({w + 1, MaxRejectedRun + 1}) = MaxRejectedRun + 1)
<1>1. MaxRejectedRun \in Nat /\ MaxUseAge \in Nat
  BY PricingAssumption
<1>2. ASSUME NEW a \in Int, NEW b \in Int PROVE Min({a, b}) \in {a, b}
  BY DEF Min
<1>3. Min({w + 1, MaxRejectedRun + 1}) \in {w + 1, MaxRejectedRun + 1} /\ Min({w + 1, MaxUseAge + 1}) \in {w + 1, MaxUseAge + 1}
  BY <1>1, <1>2
<1> QED
  BY <1>1, <1>3

LEMMA PriceInitHolds == PriceInit => PriceInv
<1> SUFFICES ASSUME PriceInit PROVE PriceInv
  OBVIOUS
<1>1. NoPrice \in [price : {p \in Nat : p % 4 = 0}, age : Nat]
  BY DEF NoPrice
<1>2. PriceRows
  BY <1>1 DEF PriceInit, PriceRows
<1>3. RunsWait
  BY DEF PriceInit, RunsWait
<1>4. ~SoundAgree
  <2>1. SoundUsed = {}
    BY DEF PriceInit, SoundUsed
  <2> QED
    BY <2>1, FS_EmptySet DEF SoundAgree
<1> QED
  BY <1>2, <1>3, <1>4 DEF PriceInv

(* A batch: the service's state and the index.                             *)
LEMMA BatchKeeps ==
    ASSUME PriceInv, NEW f, NEW D \in SUBSET PriceSources, D # {}, f \in [D -> Nat], Fours(f), updateModelPrice(f)
    PROVE  /\ mostRecentPrice' \in Nat /\ mostRecentPrice' % 2 = 0
           /\ RunsWait' /\ (SoundAgree => IndexFollowsSound)'
           /\ mostRecentPrice # 0 => closeEnough(mostRecentPrice', mostRecentPrice, 10) \/ waited > MaxRejectedRun
<1>1. PICK latest : latest = getCombinedPrice(f)
  OBVIOUS
<1>2. PICK S : S = D \cap SoundSources
  OBVIOUS
<1>3. mostRecentPrice \in Nat /\ mostRecentPrice % 2 = 0 /\ RunsWait
  BY DEF PriceInv, PriceRows
<1>4. /\ latest \in Nat /\ latest % 2 = 0
      /\ /\ Cardinality(S) >= 2 /\ Cardinality(D \ S) <= 1
         /\ \A s, t \in S : closeEnough(f[s], f[t], 2)
         /\ latest # 0
         => \E s \in S : closeEnough(latest, f[s], 6)
  BY <1>1, <1>2, <1>3, CombinedFollows
<1>5. MaxRejectedRun \in Nat
  BY PricingAssumption
<1>6. CASE /\ latest # 0
           /\ mostRecentPrice = 0 \/ rejectedRunLength > MaxRejectedRun \/ closeEnough(latest, mostRecentPrice, 10)
           /\ Accepted(latest) /\ UpdateIndexPrice(latest, f)
  <2>1. mostRecentPrice' = latest /\ rejectedRunLength' = 0 /\ waited' = 0
    BY <1>6 DEF Accepted
  <2>2. RunsWait'
    BY <2>1 DEF RunsWait
  <2>3. rejectedRunLength > MaxRejectedRun => waited > MaxRejectedRun
    BY <1>3, <1>5 DEF RunsWait
  <2>4. (SoundAgree => IndexFollowsSound)'
    <3>1. CASE index' = latest /\ indexFrom' = f
      <4>1. SoundUsed' = S /\ DOMAIN indexFrom' = D
        BY <1>2, <3>1 DEF SoundUsed
      <4> QED
        BY <1>4, <1>6, <3>1, <4>1 DEF SoundAgree, IndexFollowsSound
    <3>2. CASE UNCHANGED <<index, indexFrom>>
      BY <3>2 DEF PriceInv, SoundAgree, IndexFollowsSound, SoundUsed
    <3> QED
      BY <1>6, <3>1, <3>2 DEF UpdateIndexPrice
  <2> QED
    BY <1>4, <1>6, <2>1, <2>2, <2>3, <2>4
<1>7. CASE /\ rejectedRunLength' = IF latest = 0 THEN rejectedRunLength ELSE rejectedRunLength + 1
           /\ waited' = Min({waited + 1, MaxRejectedRun + 1})
           /\ UNCHANGED <<mostRecentPrice, index, indexFrom, priceFaults>>
  <2>1. RunsWait'
    <3>1. PICK w, x \in Nat : w = waited /\ x = waited'
      BY <1>3, <1>7, WaitGrows DEF RunsWait
    <3>2. x = w + 1 \/ x = MaxRejectedRun + 1
      BY <1>3, <1>7, <3>1, WaitGrows DEF RunsWait
    <3>3. PICK r, q \in Nat : r = rejectedRunLength /\ q = rejectedRunLength' /\ q <= r + 1
      <4>1. rejectedRunLength \in Nat
        BY <1>3 DEF RunsWait
      <4> QED
        BY <1>7, <4>1
    <3>4. r <= w \/ w > MaxRejectedRun
      BY <1>3, <3>1, <3>3 DEF RunsWait
    <3>5. q <= x \/ x > MaxRejectedRun
      BY <1>5, <3>2, <3>3, <3>4
    <3> QED
      BY <3>1, <3>3, <3>5 DEF RunsWait
  <2>2. (SoundAgree => IndexFollowsSound)'
    BY <1>7 DEF PriceInv, SoundAgree, IndexFollowsSound, SoundUsed
  <2>3. closeEnough(mostRecentPrice, mostRecentPrice, 10)
    BY <1>3 DEF closeEnough, Difference
  <2> QED
    BY <1>3, <1>7, <2>1, <2>2, <2>3
<1> QED
  BY <1>1, <1>6, <1>7 DEF updateModelPrice

LEMMA PriceStepKeeps ==
    ASSUME PriceInv, PriceNext
    PROVE  /\ PriceInv'
           /\ mostRecentPrice # 0 /\ mostRecentPrice' # 0 =>
                 closeEnough(mostRecentPrice', mostRecentPrice, 10) \/ waited > MaxRejectedRun
<1> DEFINE Reported == [price : {p \in Nat : p % 4 = 0}, age : Nat]
<1>1. latestPrices \in [PriceSources -> Reported] /\ market \in PriceLevels /\ mostRecentPrice \in Nat
  BY DEF PriceInv, PriceRows
<1>2. market \in Nat /\ market % 4 = 0 /\ ReportError \in Nat /\ ReportError % 4 = 0
      /\ \A p \in PriceLevels : p \in Nat /\ p % 4 = 0
  BY <1>1, PricingAssumption
<1>3. closeEnough(mostRecentPrice, mostRecentPrice, 10)
  BY <1>1 DEF closeEnough, Difference
<1>4. CASE \E s \in PriceSources : handlePriceData(s)
  <2>0. PICK s \in PriceSources : handlePriceData(s)
    BY <1>4
  <2>1. PICK price \in Reports(s), age \in ReceiptAge[s] :
          store(s, price, age) /\ unchangedService /\ UNCHANGED <<market, priceFaults>>
    BY <2>0 DEF handlePriceData
  <2>2. age \in Nat
    BY PricingAssumption
  <2>3. price \in Nat /\ price % 4 = 0
    <3>1. price \in PriceLevels \/ price = market \/ price = market + ReportError
      BY DEF Reports
    <3> QED
      BY <1>2, <3>1
  <2>4. [price |-> price, age |-> age] \in Reported
    BY <2>2, <2>3
  <2>5. latestPrices' \in [PriceSources -> Reported]
    BY <1>1, <2>1, <2>4 DEF store
  <2>6. UNCHANGED <<market, mostRecentPrice, rejectedRunLength, waited, index, indexFrom>>
    BY <2>1 DEF unchangedService
  <2>7. PriceInv'
    BY <2>5, <2>6 DEF PriceInv, PriceRows, RunsWait, SoundAgree, IndexFollowsSound, SoundUsed
  <2> QED
    BY <1>3, <2>6, <2>7
<1>5. CASE MarketMoves
  <2>1. UNCHANGED <<latestPrices, mostRecentPrice, rejectedRunLength, waited, index, indexFrom>> /\ market' \in PriceLevels
    BY <1>5 DEF MarketMoves, unchangedService
  <2>2. PriceInv'
    BY <2>1 DEF PriceInv, PriceRows, RunsWait, SoundAgree, IndexFollowsSound, SoundUsed
  <2> QED
    BY <1>3, <2>1, <2>2
<1>6. CASE Panic
  <2>1. /\ UNCHANGED <<market, index, indexFrom>> /\ mostRecentPrice' = 0 /\ rejectedRunLength' = 0 /\ waited' = 0
        /\ latestPrices' = [s \in PriceSources |-> NoPrice]
    BY <1>6 DEF Panic
  <2>2. NoPrice \in Reported
    BY DEF NoPrice
  <2>3. latestPrices' \in [PriceSources -> Reported]
    BY <2>1, <2>2
  <2>4. PriceInv'
    BY <2>1, <2>3 DEF PriceInv, PriceRows, RunsWait, SoundAgree, IndexFollowsSound, SoundUsed
  <2> QED
    BY <2>1, <2>4
<1>7. CASE sendPriceBatches
  <2>1. latestPrices' \in [PriceSources -> Reported]
    <3> SUFFICES ASSUME NEW s \in PriceSources
                 PROVE  [latestPrices[s] EXCEPT !.age = IF latestPrices[s] = NoPrice THEN 0
                                                        ELSE Min({@ + 1, MaxUseAge + 1})] \in Reported
      BY <1>7 DEF sendPriceBatches
    <3>1. PICK r \in Reported : r = latestPrices[s]
      BY <1>1
    <3>2. Min({r.age + 1, MaxUseAge + 1}) \in Nat
      BY <3>1, WaitGrows
    <3>3. PICK a \in Nat : a = IF r = NoPrice THEN 0 ELSE Min({r.age + 1, MaxUseAge + 1})
      BY <3>2
    <3>4. [r EXCEPT !.age = a] \in Reported
      OBVIOUS
    <3> QED
      BY <3>1, <3>3, <3>4
  <2>2. market' = market
    BY <1>7 DEF sendPriceBatches
  <2>3. CASE Fresh = {}
    <3>1. UNCHANGED <<mostRecentPrice, rejectedRunLength, waited, index, indexFrom>>
      BY <1>7, <2>3 DEF sendPriceBatches, unchangedService
    <3>2. PriceInv'
      BY <2>1, <2>2, <3>1 DEF PriceInv, PriceRows, RunsWait, SoundAgree, IndexFollowsSound, SoundUsed
    <3> QED
      BY <1>3, <3>1, <3>2
  <2>4. CASE Fresh # {}
    <3>1. PICK f : f = [s \in Fresh |-> latestPrices[s].price] /\ updateModelPrice(f)
      BY <1>7, <2>4 DEF sendPriceBatches
    <3>2. Fresh \in SUBSET PriceSources
      BY DEF Fresh
    <3>3. \A s \in Fresh : latestPrices[s].price \in Nat /\ latestPrices[s].price % 4 = 0
      BY <1>1, <3>2
    <3>4. f \in [Fresh -> Nat] /\ Fours(f)
      BY <3>1, <3>3 DEF Fours
    <3>5. /\ mostRecentPrice' \in Nat /\ mostRecentPrice' % 2 = 0
          /\ RunsWait' /\ (SoundAgree => IndexFollowsSound)'
          /\ mostRecentPrice # 0 => closeEnough(mostRecentPrice', mostRecentPrice, 10) \/ waited > MaxRejectedRun
      BY <2>4, <3>1, <3>2, <3>4, BatchKeeps
    <3>6. PriceRows'
      BY <1>1, <2>1, <2>2, <3>5 DEF PriceRows
    <3> QED
      BY <3>5, <3>6 DEF PriceInv
  <2> QED
    BY <2>3, <2>4
<1> QED
  BY <1>4, <1>5, <1>6, <1>7 DEF PriceNext

(* However many sources there are, one wrong one among them does not move  *)
(* the index price from the sound ones, and no price makes it jump before  *)
(* it was rejected often enough (getCombinedPrice, processInputs).         *)
THEOREM IndexStaysSound == PriceSpec => IndexResists
<1> DEFINE Waited == mostRecentPrice # 0 /\ mostRecentPrice' # 0 =>
                        closeEnough(mostRecentPrice', mostRecentPrice, 10) \/ waited > MaxRejectedRun
<1>1. PriceInv /\ [PriceNext]_priceVars => PriceInv'
  <2>1. ASSUME PriceInv, UNCHANGED priceVars PROVE PriceInv'
    BY <2>1 DEF priceVars, PriceInv, PriceRows, RunsWait, SoundAgree, IndexFollowsSound, SoundUsed
  <2> QED
    BY <2>1, PriceStepKeeps
<1>2. PriceInv /\ [PriceNext]_priceVars => [Waited]_priceVars
  BY PriceStepKeeps
<1>3. PriceInv => (SoundAgree => IndexFollowsSound)
  BY DEF PriceInv
<1> QED
  BY <1>1, <1>2, <1>3, PriceInitHolds, PTL DEF PriceSpec, IndexResists, JumpWaited

-------------------------------------------------------------------------------
(* Lists.                                                                  *)

Readings ==
    [step : {"idle", "count", "read", "done"}, order : {"ASC", "DESC"}, page : Nat, total : Nat,
     got : SUBSET ListRows, begun : SUBSET ListRows, moved : SUBSET ListRows, late : BOOLEAN,
     repeated : BOOLEAN, tied : BOOLEAN, uncounted : BOOLEAN,
     by : {"none", "short page", "total", "error"}]

ListTypes ==
    /\ reading \in Readings /\ listKey \in [ListRows -> Nat]
    /\ reading.uncounted => listKind \notin {"vaults", "holdings", "vault operations"}

(* The rows that are read before a row.                                    *)
Precedes(s, r) == IF reading.order = "ASC" THEN listKey[s] < listKey[r] ELSE listKey[s] > listKey[r]
Ahead(r) == {s \in Listed : Precedes(s, r)}

Underway == reading.step \in {"count", "read"}

(* A row that is still to come has enough rows before it.                  *)
Followed ==
    /\ ~reading.tied /\ reading.moved \subseteq Listed
    /\ reading.order = "DESC" \/ listKind # "orders" \/ reading.moved = {}
MissesNone ==
    Followed => \A r \in reading.begun \ (reading.moved \cup reading.got) :
                   /\ r \in Listed
                   /\ Underway => Offset <= Cardinality(Ahead(r))
                   /\ ~(reading.step = "done" /\ reading.by = "short page")

(* While a list grows at its end only, what was got is its beginning.      *)
Beginning(S) == S \subseteq Listed /\ \A r \in S, s \in Listed \ S : listKey[r] < listKey[s]
Steady == reading.order = "ASC" /\ ~reading.late /\ reading.moved = {} /\ ~reading.tied
GotInOrder ==
    Steady =>
       /\ Beginning(reading.begun) /\ ~reading.repeated
       /\ Underway => Beginning(reading.got) /\ Cardinality(reading.got) = Offset
       /\ reading.step = "read" /\ ~reading.uncounted => Cardinality(reading.begun) <= reading.total
       /\ reading.step = "done" /\ reading.by # "error" /\ ~reading.uncounted => reading.begun \subseteq reading.got

ListsInv == ListTypes /\ MissesNone /\ GotInOrder

LEMMA ListsInvImplies == ListsInv => PagesComplete
<1> SUFFICES ASSUME ListsInv PROVE PagesMissNothing /\ TotalIsEnough
  BY DEF PagesComplete
<1>1. PagesMissNothing
  BY DEF PagesMissNothing, ReadingAt, ListsInv, MissesNone, Followed
<1>2. TotalIsEnough
  BY DEF TotalIsEnough, ReadingAt, ListsInv, ListTypes, GotInOrder, Steady
<1> QED
  BY <1>1, <1>2

LEMMA ListsInitHold == ListsInit => ListsInv
<1> SUFFICES ASSUME ListsInit PROVE ListsInv
  OBVIOUS
<1>1. /\ NotReading \in Readings /\ NotReading.begun = {} /\ NotReading.step = "idle"
      /\ ~NotReading.repeated /\ ~NotReading.uncounted
  BY DEF NotReading, Readings
<1>2. reading = NotReading /\ listKey \in [ListRows -> ListKeys \cup {0}]
  BY DEF ListsInit
<1>3. ListTypes
  <2>1. ListKeys \cup {0} \subseteq Nat
    BY ListsAssumption
  <2>2. listKey \in [ListRows -> Nat]
    BY <1>2, <2>1
  <2> QED
    BY <1>1, <1>2, <2>2 DEF ListTypes
<1> QED
  BY <1>1, <1>2, <1>3 DEF ListsInv, MissesNone, GotInOrder, Beginning, Underway

(* Sets of rows and their numbers.                                         *)
LEMMA RowsCounted ==
    ASSUME NEW S \in SUBSET ListRows
    PROVE  /\ IsFiniteSet(S) /\ Cardinality(S) \in Nat
           /\ \A T \in SUBSET S : /\ Cardinality(T) \in Nat /\ Cardinality(T) <= Cardinality(S)
                                  /\ Cardinality(T) = Cardinality(S) => T = S
<1>1. IsFiniteSet(S)
  BY ListsAssumption, FS_Subset
<1>2. ASSUME NEW T \in SUBSET S
      PROVE  /\ Cardinality(T) \in Nat /\ Cardinality(T) <= Cardinality(S)
             /\ Cardinality(T) = Cardinality(S) => T = S
  <2>1. IsFiniteSet(T) /\ Cardinality(T) <= Cardinality(S) /\ (Cardinality(S) = Cardinality(T) => S = T)
    BY <1>1, FS_Subset
  <2>2. Cardinality(T) \in Nat
    BY <2>1, FS_CardinalityType
  <2> QED
    BY <2>1, <2>2
<1>3. Cardinality(S) \in Nat
  BY <1>1, FS_CardinalityType
<1> QED
  BY <1>1, <1>2, <1>3

LEMMA RowsAdded ==
    ASSUME NEW S \in SUBSET ListRows, NEW T \in SUBSET ListRows, S \cap T = {}
    PROVE  Cardinality(S \cup T) = Cardinality(S) + Cardinality(T)
<1>1. IsFiniteSet(S) /\ IsFiniteSet(T)
  BY RowsCounted
<1>2. Cardinality(S \cup T) = Cardinality(S) + Cardinality(T) - Cardinality(S \cap T)
  BY <1>1, FS_Union
<1>3. Cardinality({}) = 0 /\ Cardinality(S) \in Nat /\ Cardinality(T) \in Nat
  BY FS_EmptySet, RowsCounted
<1> QED
  <2>1. S \cap T = {}
    OBVIOUS
  <2>2. Cardinality(S \cap T) = 0
    BY <1>3, <2>1
  <2> QED
    BY <1>2, <1>3, <2>2

(* Of two beginnings one contains the other: the larger one.               *)
LEMMA BeginningsNest ==
    ASSUME ListTypes, NEW S, NEW T, Beginning(S), Beginning(T), Cardinality(S) <= Cardinality(T)
    PROVE  S \subseteq T
<1>1. Listed \subseteq ListRows /\ S \in SUBSET ListRows /\ T \in SUBSET ListRows
  BY DEF Listed, Beginning
<1>2. S \subseteq T \/ T \subseteq S
  <2> SUFFICES ASSUME NEW r \in S, r \notin T, NEW s \in T, s \notin S PROVE FALSE
    OBVIOUS
  <2>1. listKey[r] < listKey[s] /\ listKey[s] < listKey[r]
    BY DEF Beginning
  <2>2. listKey[r] \in Nat /\ listKey[s] \in Nat
    BY <1>1 DEF ListTypes
  <2> QED
    BY <2>1, <2>2
<1>3. ASSUME T \subseteq S PROVE S = T
  <2>1. Cardinality(T) <= Cardinality(S) /\ (Cardinality(T) = Cardinality(S) => T = S)
    BY <1>1, <1>3, RowsCounted
  <2>2. Cardinality(S) \in Nat /\ Cardinality(T) \in Nat
    BY <1>1, RowsCounted
  <2> QED
    BY <2>1, <2>2
<1> QED
  BY <1>2, <1>3

LEMMA OffsetGrows ==
    ASSUME NEW p \in Nat
    PROVE  PageLimit * p \in Nat /\ PageLimit * (p + 1) = PageLimit * p + PageLimit /\ PageLimit * 0 = 0
<1>1. PICK l \in Nat \ {0} : l = PageLimit
  BY ListsAssumption
<1>2. l * p \in Nat /\ l * (p + 1) = l * p + l /\ l * 0 = 0
  OBVIOUS
<1> QED
  BY <1>1, <1>2

(* A step that leaves what the client knows, and puts rows ahead at most.  *)
LEMMA RowArrivesKeeps ==
    ASSUME ListsInv, NEW r \in ListRows, RowArrives(r)
    PROVE  ListsInv'
<1>0. ListTypes /\ MissesNone /\ GotInOrder
  BY DEF ListsInv
<1>1. PICK k \in ListKeys : /\ listKey' = [listKey EXCEPT ![r] = k] /\ UNCHANGED listKind
                            /\ listKey[r] = 0 /\ r \notin reading.moved
                            /\ reading' = [reading EXCEPT !.late = reading.late \/ \E s \in Listed : listKey[s] >= k]
  BY DEF RowArrives
<1>2. PICK late \in BOOLEAN : late = (reading.late \/ \E s \in Listed : listKey[s] >= k)
  OBVIOUS
<1>3. /\ reading' \in Readings /\ reading'.late = late
      /\ reading'.step = reading.step /\ reading'.order = reading.order /\ reading'.page = reading.page
      /\ reading'.total = reading.total /\ reading'.got = reading.got /\ reading'.begun = reading.begun
      /\ reading'.moved = reading.moved /\ reading'.repeated = reading.repeated /\ reading'.tied = reading.tied
      /\ reading'.uncounted = reading.uncounted /\ reading'.by = reading.by
  BY <1>0, <1>1, <1>2 DEF ListTypes, Readings
<1>4. k \in Nat \ {0} /\ listKey' \in [ListRows -> Nat] /\ listKey'[r] = k
      /\ \A s \in ListRows : s # r => listKey'[s] = listKey[s]
  BY <1>0, <1>1, ListsAssumption DEF ListTypes
<1>5. Listed' = Listed \cup {r} /\ r \notin Listed /\ Listed' \subseteq ListRows
      /\ \A s \in Listed : listKey'[s] = listKey[s] /\ listKey[s] \in Nat
  <2>1. r \notin Listed
    BY <1>1 DEF Listed
  <2>2. \A s \in ListRows : s \in Listed' <=> s \in Listed \/ s = r
    BY <1>4 DEF Listed
  <2>3. Listed \subseteq ListRows /\ Listed' \subseteq ListRows
    BY DEF Listed
  <2>4. \A s \in Listed : listKey'[s] = listKey[s] /\ listKey[s] \in Nat
    BY <1>0, <1>4, <2>1, <2>3 DEF ListTypes
  <2> QED
    BY <2>1, <2>2, <2>3, <2>4
<1>6. ListTypes'
  BY <1>0, <1>1, <1>3, <1>4 DEF ListTypes
<1>7. Offset' = Offset
  BY <1>3 DEF Offset
<1>8. MissesNone'
  <2> SUFFICES ASSUME Followed', NEW q \in reading'.begun \ (reading'.moved \cup reading'.got)
               PROVE  /\ q \in Listed'
                      /\ Underway' => Offset' <= Cardinality(Ahead(q)')
                      /\ ~(reading'.step = "done" /\ reading'.by = "short page")
    BY DEF MissesNone
  <2>1. Followed
    BY <1>1, <1>3, <1>5 DEF Followed
  <2>2. q \in Listed /\ (Underway => Offset <= Cardinality(Ahead(q)))
        /\ ~(reading.step = "done" /\ reading.by = "short page")
    BY <1>0, <1>3, <2>1 DEF MissesNone
  <2>3. Ahead(q) \subseteq Ahead(q)' /\ Ahead(q)' \subseteq ListRows
    BY <1>3, <1>5, <2>2 DEF Ahead, Precedes
  <2>4. Cardinality(Ahead(q)) <= Cardinality(Ahead(q)') /\ Cardinality(Ahead(q)) \in Nat /\ Cardinality(Ahead(q)') \in Nat
    BY <2>3, RowsCounted
  <2>5. Offset \in Nat
    BY <1>0, OffsetGrows DEF Offset, ListTypes, Readings
  <2>6. Underway' => Underway
    BY <1>3 DEF Underway
  <2>7. PICK a, b, o \in Nat : a = Cardinality(Ahead(q)) /\ b = Cardinality(Ahead(q)') /\ o = Offset
    BY <2>4, <2>5
  <2>8. Underway' => o <= b
    <3>1. a <= b
      BY <2>4, <2>7
    <3>2. Underway' => o <= a
      BY <2>2, <2>6, <2>7
    <3> QED
      BY <3>1, <3>2
  <2>9. Underway' => Offset' <= Cardinality(Ahead(q)')
    BY <1>7, <2>7, <2>8
  <2> QED
    BY <1>3, <1>5, <2>2, <2>9
<1>9. GotInOrder'
  <2> SUFFICES
       ASSUME Steady'
       PROVE
       /\ Beginning(reading.begun)' /\ ~reading'.repeated
       /\ Underway' => Beginning(reading.got)' /\ Cardinality(reading'.got) = Offset'
       /\ reading'.step = "read" /\ ~reading'.uncounted => Cardinality(reading'.begun) <= reading'.total
       /\ reading'.step = "done" /\ reading'.by # "error" /\ ~reading'.uncounted => reading'.begun \subseteq reading'.got
    BY DEF GotInOrder
  <2>1. Steady /\ \A s \in Listed : listKey[s] < k
    <3>1. ~late
      BY <1>3 DEF Steady
    <3>2. \A s \in Listed : ~(listKey[s] >= k)
      BY <1>2, <3>1
    <3>3. \A s \in Listed : listKey[s] < k
      BY <1>4, <1>5, <3>2
    <3> QED
      BY <1>2, <1>3, <3>1, <3>3 DEF Steady
  <2>2. \A S : Beginning(S) => S \subseteq Listed' /\ \A p \in S, s \in Listed' \ S : listKey'[p] < listKey'[s]
    BY <1>4, <1>5, <2>1 DEF Beginning
  <2>3. Beginning(reading.begun)' /\ (Beginning(reading.got) => Beginning(reading.got)')
    BY <1>0, <1>3, <2>1, <2>2 DEF Beginning, GotInOrder
  <2>4. Underway' => Underway
    BY <1>3 DEF Underway
  <2>5. Underway => Beginning(reading.got) /\ Cardinality(reading.got) = Offset
    BY <1>0, <2>1 DEF GotInOrder
  <2>6. Underway' => Beginning(reading.got)' /\ Cardinality(reading'.got) = Offset'
    BY <1>3, <1>7, <2>3, <2>4, <2>5
  <2>7. /\ ~reading.repeated
        /\ reading.step = "read" /\ ~reading.uncounted => Cardinality(reading.begun) <= reading.total
        /\ reading.step = "done" /\ reading.by # "error" /\ ~reading.uncounted => reading.begun \subseteq reading.got
    BY <1>0, <2>1 DEF GotInOrder
  <2>8. ~reading'.repeated
    BY <1>3, <2>7
  <2> QED
    BY <1>3, <2>3, <2>6, <2>7, <2>8
<1> QED
  BY <1>6, <1>8, <1>9 DEF ListsInv

LEMMA RowMovesKeeps ==
    ASSUME ListsInv, NEW r \in ListRows, RowMoves(r)
    PROVE  ListsInv'
<1>0. ListTypes /\ MissesNone /\ GotInOrder
  BY DEF ListsInv
<1>1. /\ reading' = [reading EXCEPT !.moved = reading.moved \cup {r}] /\ UNCHANGED listKind /\ listKey[r] > 0
      /\ \/ listKind = "orders" /\ \E k \in ListKeys : k > listKey[r] /\ listKey' = [listKey EXCEPT ![r] = k]
         \/ listKey' = [listKey EXCEPT ![r] = 0]
  BY DEF RowMoves
<1>2. /\ reading' \in Readings /\ reading'.moved = reading.moved \cup {r}
      /\ reading'.step = reading.step /\ reading'.order = reading.order /\ reading'.page = reading.page
      /\ reading'.total = reading.total /\ reading'.got = reading.got /\ reading'.begun = reading.begun
      /\ reading'.tied = reading.tied /\ reading'.uncounted = reading.uncounted /\ reading'.by = reading.by
  BY <1>0, <1>1 DEF ListTypes, Readings
<1>3. PICK k \in Nat : /\ listKey' = [listKey EXCEPT ![r] = k]
                       /\ k = 0 \/ (k > listKey[r] /\ listKind = "orders")
  BY <1>1, ListsAssumption
<1>4. listKey' \in [ListRows -> Nat] /\ listKey'[r] = k /\ \A s \in ListRows : s # r => listKey'[s] = listKey[s]
  BY <1>0, <1>3 DEF ListTypes
<1>5. ListTypes'
  BY <1>0, <1>1, <1>2, <1>4 DEF ListTypes
<1>6. ~Steady'
  BY <1>2 DEF Steady
<1>7. Offset' = Offset
  BY <1>2 DEF Offset
<1>8. MissesNone'
  <2> SUFFICES ASSUME Followed', NEW q \in reading'.begun \ (reading'.moved \cup reading'.got)
               PROVE  /\ q \in Listed'
                      /\ Underway' => Offset' <= Cardinality(Ahead(q)')
                      /\ ~(reading'.step = "done" /\ reading'.by = "short page")
    BY DEF MissesNone
  <2>1. r \in Listed' /\ r \in Listed
    BY <1>1, <1>2 DEF Followed, Listed
  <2>2. k > listKey[r] /\ listKind = "orders" /\ listKey[r] \in Nat
    <3>1. listKey'[r] > 0
      BY <2>1 DEF Listed
    <3>2. k # 0
      BY <1>4, <3>1
    <3> QED
      BY <1>0, <1>3, <3>2 DEF ListTypes
  <2>3. Listed' = Listed
    BY <1>4, <2>1 DEF Listed
  <2>4. reading.order = "DESC" /\ Followed
    BY <1>1, <1>2, <2>2, <2>3 DEF Followed
  <2>5. q # r /\ q \in Listed /\ (Underway => Offset <= Cardinality(Ahead(q)))
        /\ ~(reading.step = "done" /\ reading.by = "short page")
    BY <1>0, <1>2, <2>4 DEF MissesNone
  <2>6. q \in ListRows /\ listKey'[q] = listKey[q] /\ listKey[q] \in Nat
    BY <1>0, <1>4, <2>5 DEF Listed, ListTypes
  <2>7. ASSUME NEW s \in Ahead(q) PROVE s \in Ahead(q)'
    <3>1. s \in Listed /\ s \in ListRows /\ listKey[s] > listKey[q] /\ listKey[s] \in Nat
      BY <1>0, <2>4, <2>7 DEF Ahead, Precedes, Listed, ListTypes
    <3>2. listKey'[s] > listKey[q]
      BY <1>4, <2>2, <2>6, <3>1
    <3> QED
      BY <1>2, <2>3, <2>4, <2>6, <3>1, <3>2 DEF Ahead, Precedes
  <2>8. Ahead(q) \subseteq Ahead(q)' /\ Ahead(q)' \subseteq ListRows
    BY <2>7 DEF Ahead, Listed
  <2>9. Cardinality(Ahead(q)) <= Cardinality(Ahead(q)') /\ Cardinality(Ahead(q)) \in Nat /\ Cardinality(Ahead(q)') \in Nat
    BY <2>8, RowsCounted
  <2>10. Offset \in Nat
    BY <1>0, OffsetGrows DEF Offset, ListTypes, Readings
  <2>11. Underway' => Underway
    BY <1>2 DEF Underway
  <2>12. PICK a, b, o \in Nat : a = Cardinality(Ahead(q)) /\ b = Cardinality(Ahead(q)') /\ o = Offset
    BY <2>9, <2>10
  <2>13. Underway' => o <= b
    <3>1. a <= b
      BY <2>9, <2>12
    <3>2. Underway' => o <= a
      BY <2>5, <2>11, <2>12
    <3> QED
      BY <3>1, <3>2
  <2>14. Underway' => Offset' <= Cardinality(Ahead(q)')
    BY <1>7, <2>12, <2>13
  <2> QED
    BY <1>2, <2>3, <2>5, <2>14
<1> QED
  BY <1>5, <1>6, <1>8 DEF ListsInv, GotInOrder

LEMMA ReadingBegins ==
    ASSUME ListsInv, PaginationMiddleware
    PROVE  ListsInv'
<1>0. ListTypes
  BY DEF ListsInv
<1>1. PICK order \in {"ASC", "DESC"} :
         reading' = [NotReading EXCEPT !.step = "count", !.order = order, !.begun = Listed]
  BY DEF PaginationMiddleware
<1>2. UNCHANGED <<listKind, listKey>>
  BY DEF PaginationMiddleware
<1>3. Listed' = Listed /\ Listed \subseteq ListRows
  BY <1>2 DEF Listed
<1>4. PICK L : L = Listed
  OBVIOUS
<1>5. reading' = [step |-> "count", order |-> order, page |-> 0, total |-> 0, got |-> {}, begun |-> L,
               moved |-> {}, late |-> FALSE, repeated |-> FALSE, tied |-> FALSE, uncounted |-> FALSE,
               by |-> "none"]
  BY <1>1, <1>4 DEF NotReading
<1>6. /\ reading' \in Readings /\ reading'.step = "count" /\ reading'.begun = L /\ reading'.got = {}
      /\ reading'.page = 0 /\ ~reading'.repeated /\ ~reading'.uncounted
  BY <1>3, <1>4, <1>5 DEF Readings
<1>7. Offset' = 0
  BY <1>6, OffsetGrows DEF Offset
<1>8. \A q : Ahead(q)' \subseteq ListRows
  BY DEF Ahead, Listed
<1>9. \A q : Cardinality(Ahead(q)') \in Nat
  BY <1>8, RowsCounted
<1>10. MissesNone'
  <2> HIDE DEF Ahead, Offset
  <2> QED
    BY <1>3, <1>4, <1>6, <1>7, <1>9 DEF MissesNone
<1>11. GotInOrder'
  BY <1>3, <1>4, <1>6, <1>7, FS_EmptySet DEF GotInOrder, Beginning, Underway
<1>12. ListTypes'
  BY <1>0, <1>2, <1>6 DEF ListTypes
<1> QED
  BY <1>10, <1>11, <1>12 DEF ListsInv

(* A step of the request that reads no page: rows, what was got and what is*)
(* behind stay.                                                            *)
LEMMA CountKeeps ==
    ASSUME ListsInv, UNCHANGED <<listKind, listKey>>,
           (Count(TotalZero) /\ listKind \notin {"vaults", "holdings", "vault operations"}) \/ Count(ListFails)
    PROVE  ListsInv'
<1>0. ListTypes /\ MissesNone /\ GotInOrder
  BY DEF ListsInv
<1>1. reading.step = "count"
  BY DEF Count, ReadingAt
<1>2. Listed' = Listed /\ Listed \in SUBSET ListRows
  BY DEF Listed
<1>3. PICK n \in Nat : n = Cardinality(Listed)
  BY <1>2, RowsCounted
<1>4. \/ reading' = [reading EXCEPT !.step = "read", !.total = n]
      \/ reading' = [reading EXCEPT !.step = "read", !.total = 0, !.uncounted = TRUE]
         /\ listKind \notin {"vaults", "holdings", "vault operations"}
      \/ reading' = [reading EXCEPT !.step = "done", !.by = "error"]
  BY <1>3 DEF Count, TotalZero, ListFails
<1>5. /\ reading' \in Readings
      /\ reading'.order = reading.order /\ reading'.page = reading.page
      /\ reading'.got = reading.got /\ reading'.begun = reading.begun /\ reading'.late = reading.late
      /\ reading'.moved = reading.moved /\ reading'.repeated = reading.repeated /\ reading'.tied = reading.tied
      /\ \/ reading'.step = "read" /\ reading'.uncounted = reading.uncounted /\ reading'.total = n
         \/ reading'.step = "read" /\ reading'.uncounted /\ listKind \notin {"vaults", "holdings", "vault operations"}
         \/ reading'.step = "done" /\ reading'.by = "error" /\ reading'.uncounted = reading.uncounted
  <2>1. CASE reading' = [reading EXCEPT !.step = "read", !.total = n]
    BY <1>0, <2>1 DEF ListTypes, Readings
  <2>2. CASE reading' = [reading EXCEPT !.step = "read", !.total = 0, !.uncounted = TRUE]
             /\ listKind \notin {"vaults", "holdings", "vault operations"}
    BY <1>0, <2>2 DEF ListTypes, Readings
  <2>3. CASE reading' = [reading EXCEPT !.step = "done", !.by = "error"]
    BY <1>0, <2>3 DEF ListTypes, Readings
  <2> QED
    BY <1>4, <2>1, <2>2, <2>3
<1>6. ListTypes'
  BY <1>0, <1>5 DEF ListTypes
<1>7. Offset' = Offset /\ Underway
  BY <1>1, <1>5 DEF Offset, Underway
<1>8. \A q : Ahead(q)' = Ahead(q)
  BY <1>2, <1>5 DEF Ahead, Precedes
<1>9. MissesNone'
  <2>1. Followed' => Followed
    BY <1>2, <1>5 DEF Followed
  <2> HIDE DEF Ahead, Offset, Listed
  <2> QED
    BY <1>0, <1>2, <1>5, <1>7, <1>8, <2>1 DEF MissesNone
<1>10. GotInOrder'
  <2>1. CASE Steady'
    <3>1. Steady
      BY <1>5, <2>1 DEF Steady
    <3>2. Beginning(reading.begun) /\ Beginning(reading.got) /\ Cardinality(reading.got) = Offset /\ ~reading.repeated
      BY <1>0, <1>7, <3>1 DEF GotInOrder
    <3>3. Beginning(reading.begun)' /\ Beginning(reading.got)' /\ Cardinality(reading'.got) = Offset' /\ ~reading'.repeated
      BY <1>2, <1>5, <1>7, <3>2 DEF Beginning
    <3>4. Cardinality(reading.begun) <= n
      BY <1>2, <1>3, <3>2, RowsCounted DEF Beginning
    <3> QED
      BY <1>5, <3>3, <3>4 DEF GotInOrder
  <2> QED
    BY <2>1 DEF GotInOrder
<1> QED
  BY <1>6, <1>9, <1>10 DEF ListsInv

(* A page and what is before and after it are the rows of the list, in the *)
(* order of the list when no two rows are equal.                           *)
LEMMA PageCuts ==
    ASSUME ListTypes, ~Ties, NEW page \in Pages
    PROVE  \E before, after \in SUBSET Listed :
              /\ Listed = before \cup page \cup after /\ page \subseteq Listed
              /\ before \cap page = {} /\ before \cap after = {} /\ page \cap after = {}
              /\ Cardinality(before) = Offset \/ (Cardinality(before) < Offset /\ page \cup after = {})
              /\ Cardinality(page) = PageLimit \/ (Cardinality(page) < PageLimit /\ after = {})
              /\ \A r \in before, s \in page \cup after : Precedes(r, s)
              /\ \A r \in page, s \in after : Precedes(r, s)
<1>1. page \subseteq Listed
  BY DEF Pages
<1>2. PICK before \in SUBSET (Listed \ page), after \in SUBSET Listed :
         /\ after = Listed \ (before \cup page)
         /\ Cardinality(before) = Offset \/ (Cardinality(before) < Offset /\ page \cup after = {})
         /\ Cardinality(page) = PageLimit \/ (Cardinality(page) < PageLimit /\ after = {})
         /\ \A r \in before, s \in page \cup after : NotAfter(r, s)
         /\ \A r \in page, s \in after : NotAfter(r, s)
  BY DEF Pages
<1>3. \A r, s \in Listed : r # s /\ NotAfter(r, s) => Precedes(r, s)
  <2>1. \A r \in Listed : listKey[r] \in Nat
    BY DEF ListTypes, Listed
  <2>2. \A r, s \in Listed : r # s => listKey[r] # listKey[s]
    BY DEF Ties
  <2> HIDE DEF Listed
  <2> QED
    BY <2>1, <2>2 DEF NotAfter, Precedes
<1> HIDE DEF Listed, NotAfter, Precedes, Offset
<1>4. \A r \in before, s \in page \cup after : r \in Listed /\ s \in Listed /\ r # s
  BY <1>1, <1>2
<1>5. \A r \in page, s \in after : r \in Listed /\ s \in Listed /\ r # s
  BY <1>1, <1>2
<1>6. (\A r \in before, s \in page \cup after : Precedes(r, s)) /\ \A r \in page, s \in after : Precedes(r, s)
  BY <1>2, <1>3, <1>4, <1>5
<1>7. Listed = before \cup page \cup after /\ before \cap page = {} /\ before \cap after = {} /\ page \cap after = {}
  BY <1>1, <1>2
<1>8. before \in SUBSET Listed
  BY <1>2
<1> QED
  BY <1>1, <1>2, <1>6, <1>7, <1>8

(* A row that is still to come and is not in this page comes after it.     *)
LEMMA RowComesLater ==
    ASSUME ListTypes, ~Ties, NEW page \in Pages, NEW q \in Listed, q \notin page,
           Offset <= Cardinality(Ahead(q))
    PROVE  Cardinality(page) = PageLimit /\ Offset + PageLimit <= Cardinality(Ahead(q))
<1>1. PICK before, after \in SUBSET Listed :
         /\ Listed = before \cup page \cup after /\ page \subseteq Listed
         /\ before \cap page = {} /\ before \cap after = {} /\ page \cap after = {}
         /\ Cardinality(before) = Offset \/ (Cardinality(before) < Offset /\ page \cup after = {})
         /\ Cardinality(page) = PageLimit \/ (Cardinality(page) < PageLimit /\ after = {})
         /\ \A r \in before, s \in page \cup after : Precedes(r, s)
         /\ \A r \in page, s \in after : Precedes(r, s)
  BY PageCuts
<1>2. Listed \subseteq ListRows /\ \A r, s \in Listed : Precedes(r, s) => ~Precedes(s, r) /\ r # s
  <2>1. Listed \subseteq ListRows /\ \A r \in Listed : listKey[r] \in Nat
    BY DEF Listed, ListTypes
  <2> HIDE DEF Listed
  <2> QED
    BY <2>1 DEF Precedes
<1>3. Ahead(q) = {s \in Listed : Precedes(s, q)}
  BY DEF Ahead
<1>4. Offset \in Nat /\ PageLimit \in Nat
  BY OffsetGrows, ListsAssumption DEF Offset, ListTypes, Readings
<1> HIDE DEF Listed, Precedes, Offset, Ahead
<1>5. before \in SUBSET ListRows /\ page \in SUBSET ListRows /\ Ahead(q) \in SUBSET ListRows
  BY <1>1, <1>2, <1>3
<1>6. PICK b, p, a \in Nat : b = Cardinality(before) /\ p = Cardinality(page) /\ a = Cardinality(Ahead(q))
  BY <1>5, RowsCounted
<1>7. q \notin before
  <2> SUFFICES ASSUME q \in before PROVE FALSE
    OBVIOUS
  <2>1. Ahead(q) \subseteq before \ {q}
    BY <1>1, <1>2, <1>3
  <2>2. Cardinality(Ahead(q)) <= Cardinality(before \ {q}) /\ IsFiniteSet(before)
    BY <1>5, <2>1, RowsCounted
  <2>3. Cardinality(before \ {q}) = b - 1
    BY <1>6, <2>2, FS_RemoveElement
  <2>4. a <= b - 1 /\ b <= Offset
    BY <1>1, <1>4, <1>6, <2>2, <2>3
  <2> QED
    BY <1>4, <1>6, <2>4
<1>8. q \in after
  BY <1>1, <1>7
<1>9. before \cup page \subseteq Ahead(q)
  BY <1>1, <1>2, <1>3, <1>8
<1>10. Cardinality(before \cup page) = b + p
  BY <1>1, <1>5, <1>6, RowsAdded
<1>11. Cardinality(before \cup page) <= Cardinality(Ahead(q))
  BY <1>5, <1>9, RowsCounted
<1>12. b = Offset /\ p = PageLimit
  BY <1>1, <1>6, <1>8
<1> QED
  BY <1>4, <1>6, <1>10, <1>11, <1>12

(* A client that has the beginning of the list gets what follows.          *)
LEMMA PageFollows ==
    ASSUME ListTypes, ~Ties, NEW page \in Pages, Beginning(reading.got), Cardinality(reading.got) = Offset,
           reading.order = "ASC"
    PROVE  /\ page \subseteq Listed /\ page \cap reading.got = {} /\ Beginning(reading.got \cup page)
           /\ Cardinality(reading.got \cup page) = Offset + Cardinality(page)
           /\ Cardinality(page) = PageLimit \/ (Cardinality(page) < PageLimit /\ reading.got \cup page = Listed)
<1>1. PICK before, after \in SUBSET Listed :
         /\ Listed = before \cup page \cup after /\ page \subseteq Listed
         /\ before \cap page = {} /\ before \cap after = {} /\ page \cap after = {}
         /\ Cardinality(before) = Offset \/ (Cardinality(before) < Offset /\ page \cup after = {})
         /\ Cardinality(page) = PageLimit \/ (Cardinality(page) < PageLimit /\ after = {})
         /\ \A r \in before, s \in page \cup after : Precedes(r, s)
         /\ \A r \in page, s \in after : Precedes(r, s)
  BY PageCuts
<1>2. Listed \subseteq ListRows /\ \A r, s : Precedes(r, s) => listKey[r] < listKey[s]
  BY DEF Precedes, Listed
<1>3. Offset \in Nat
  BY OffsetGrows DEF Offset, ListTypes, Readings
<1> HIDE DEF Listed, Precedes, Offset
<1>4. PICK got : got = reading.got /\ got \subseteq Listed
  BY DEF Beginning
<1>5. before \in SUBSET ListRows /\ page \in SUBSET ListRows /\ got \in SUBSET ListRows
  BY <1>1, <1>2, <1>4
<1>6. Cardinality(before) = Offset
  <2> SUFFICES ASSUME Cardinality(before) < Offset, page \cup after = {} PROVE FALSE
    BY <1>1
  <2>1. Listed = before
    BY <1>1
  <2>2. Cardinality(got) <= Cardinality(before) /\ Cardinality(got) \in Nat /\ Cardinality(before) \in Nat
    BY <1>4, <1>5, <2>1, RowsCounted
  <2> QED
    BY <1>3, <1>4, <2>2
<1>7. Beginning(before)
  <2>1. \A r \in before, s \in Listed \ before : Precedes(r, s)
    BY <1>1
  <2> QED
    BY <1>2, <2>1 DEF Beginning
<1>8. before = got
  <2>1. Cardinality(before) <= Cardinality(got) /\ Cardinality(got) <= Cardinality(before)
    BY <1>3, <1>4, <1>6
  <2>2. before \subseteq got
    BY <1>4, <1>7, <2>1, BeginningsNest
  <2>3. got \subseteq before
    BY <1>4, <1>7, <2>1, BeginningsNest
  <2> QED
    BY <2>2, <2>3
<1>9. Beginning(before \cup page)
  <2>1. \A r \in before \cup page, s \in Listed \ (before \cup page) : Precedes(r, s)
    BY <1>1
  <2> QED
    BY <1>1, <1>2, <2>1 DEF Beginning
<1>10. Cardinality(before \cup page) = Offset + Cardinality(page)
  BY <1>1, <1>5, <1>6, RowsAdded
<1>11. after = {} => before \cup page = Listed
  BY <1>1
<1> QED
  BY <1>1, <1>4, <1>8, <1>9, <1>10, <1>11

LEMMA ReadFails ==
    ASSUME ListsInv, UNCHANGED <<listKind, listKey>>, reading.step = "read", reading' = ListFails
    PROVE  ListsInv'
<1>0. ListTypes /\ MissesNone /\ GotInOrder
  BY DEF ListsInv
<1>1. Listed' = Listed
  BY DEF Listed
<1>2. /\ reading' \in Readings /\ reading'.step = "done" /\ reading'.by = "error"
      /\ reading'.order = reading.order
      /\ reading'.got = reading.got /\ reading'.begun = reading.begun /\ reading'.late = reading.late
      /\ reading'.moved = reading.moved /\ reading'.repeated = reading.repeated /\ reading'.tied = reading.tied
      /\ reading'.uncounted = reading.uncounted
  BY <1>0 DEF ListTypes, Readings, ListFails
<1>3. ListTypes'
  BY <1>0, <1>2 DEF ListTypes
<1>4. (Followed' => Followed) /\ ~Underway'
  BY <1>1, <1>2 DEF Followed, Underway
<1>5. MissesNone'
  BY <1>0, <1>1, <1>2, <1>4 DEF MissesNone
<1>6. GotInOrder'
  <2>1. CASE Steady'
    <3>1. Steady
      BY <1>2, <2>1 DEF Steady
    <3>2. Beginning(reading.begun) /\ ~reading.repeated
      BY <1>0, <3>1 DEF GotInOrder
    <3>3. Beginning(reading.begun)' /\ ~reading'.repeated
      BY <1>1, <1>2, <3>2 DEF Beginning
    <3> QED
      BY <1>2, <1>4, <3>3 DEF GotInOrder
  <2> QED
    BY <2>1 DEF GotInOrder
<1> QED
  BY <1>3, <1>5, <1>6 DEF ListsInv

LEMMA PageIsRead ==
    ASSUME ListsInv, UNCHANGED <<listKind, listKey>>, reading.step = "read",
           NEW page \in Pages, SuccessResponsePaginated(page)
    PROVE  ListsInv'
<1>0. ListTypes /\ MissesNone /\ GotInOrder
  BY DEF ListsInv
<1>1. Listed' = Listed /\ Listed \subseteq ListRows /\ page \subseteq Listed /\ Ties \in BOOLEAN
  BY DEF Listed, Pages, Ties
<1>2. PICK repeated, tied \in BOOLEAN :
         repeated = (reading.repeated \/ page \cap reading.got # {}) /\ tied = (reading.tied \/ Ties)
  OBVIOUS
<1>3. PICK read : read = [reading EXCEPT !.got = reading.got \cup page, !.repeated = repeated, !.tied = tied]
  OBVIOUS
<1>4. /\ read \in Readings /\ read.step = "read" /\ read.order = reading.order /\ read.page = reading.page
      /\ read.total = reading.total /\ read.got = reading.got \cup page /\ read.begun = reading.begun
      /\ read.moved = reading.moved /\ read.late = reading.late /\ read.repeated = repeated /\ read.tied = tied
      /\ read.uncounted = reading.uncounted
  BY <1>0, <1>1, <1>3 DEF ListTypes, Readings
<1>5. \/ Cardinality(page) < PageLimit /\ reading' = [read EXCEPT !.step = "done", !.by = "short page"]
      \/ PageLimit * (reading.page + 1) >= reading.total /\ reading' = [read EXCEPT !.step = "done", !.by = "total"]
      \/ Cardinality(page) = PageLimit /\ reading' = [read EXCEPT !.step = "count", !.page = read.page + 1]
  BY <1>2, <1>3 DEF SuccessResponsePaginated
<1>6. /\ reading' \in Readings /\ reading'.order = reading.order
      /\ reading'.total = reading.total /\ reading'.got = reading.got \cup page /\ reading'.begun = reading.begun
      /\ reading'.moved = reading.moved /\ reading'.late = reading.late /\ reading'.repeated = repeated
      /\ reading'.tied = tied /\ reading'.uncounted = reading.uncounted
      /\ \/ Cardinality(page) < PageLimit /\ reading'.step = "done" /\ reading'.by = "short page"
         \/ PageLimit * (reading.page + 1) >= reading.total /\ reading'.step = "done" /\ reading'.by = "total"
         \/ Cardinality(page) = PageLimit /\ reading'.step = "count" /\ reading'.page = reading.page + 1
  <2>1. CASE Cardinality(page) < PageLimit /\ reading' = [read EXCEPT !.step = "done", !.by = "short page"]
    BY <1>4, <2>1 DEF Readings
  <2>2. CASE PageLimit * (reading.page + 1) >= reading.total /\ reading' = [read EXCEPT !.step = "done", !.by = "total"]
    BY <1>4, <2>2 DEF Readings
  <2>3. CASE Cardinality(page) = PageLimit /\ reading' = [read EXCEPT !.step = "count", !.page = read.page + 1]
    <3>1. PICK n \in Nat : n = read.page + 1 /\ n = reading.page + 1
      <4>1. reading.page \in Nat /\ read.page = reading.page
        BY <1>0, <1>4 DEF ListTypes, Readings
      <4>2. reading.page + 1 \in Nat
        BY <4>1
      <4> QED
        BY <4>1, <4>2
    <3>2. reading' = [read EXCEPT !.step = "count", !.page = n]
      BY <2>3, <3>1
    <3>3. /\ reading' \in Readings /\ reading'.order = read.order /\ reading'.step = "count" /\ reading'.page = n
          /\ reading'.total = read.total /\ reading'.got = read.got /\ reading'.begun = read.begun
          /\ reading'.moved = read.moved /\ reading'.late = read.late /\ reading'.repeated = read.repeated
          /\ reading'.tied = read.tied /\ reading'.uncounted = read.uncounted
      BY <1>4, <3>2 DEF Readings
    <3> QED
      BY <1>4, <2>3, <3>1, <3>3
  <2> QED
    BY <1>5, <2>1, <2>2, <2>3
<1>7. ListTypes'
  BY <1>0, <1>6 DEF ListTypes
<1>8. /\ Offset \in Nat /\ PageLimit \in Nat \ {0} /\ PageLimit * (reading.page + 1) = Offset + PageLimit
      /\ Underway' => Offset' = Offset + PageLimit
  <2>1. reading.page \in Nat
    BY <1>0 DEF ListTypes, Readings
  <2>2. Offset \in Nat /\ PageLimit * (reading.page + 1) = Offset + PageLimit /\ PageLimit \in Nat \ {0}
    BY <2>1, OffsetGrows, ListsAssumption DEF Offset
  <2>3. Underway' => reading'.page = reading.page + 1
    BY <1>6 DEF Underway
  <2>4. Underway' => Offset' = PageLimit * (reading.page + 1)
    BY <2>3 DEF Offset
  <2> QED
    BY <2>2, <2>4
<1>9. tied' = tied /\ (~tied => ~reading.tied /\ ~Ties) /\ (~repeated => ~reading.repeated)
  BY <1>2
<1>10. MissesNone'
  <2> SUFFICES ASSUME Followed', NEW q \in reading'.begun \ (reading'.moved \cup reading'.got)
               PROVE  /\ q \in Listed'
                      /\ Underway' => Offset' <= Cardinality(Ahead(q)')
                      /\ ~(reading'.step = "done" /\ reading'.by = "short page")
    BY DEF MissesNone
  <2>1. Followed /\ ~Ties
    BY <1>1, <1>6, <1>9 DEF Followed
  <2>2. q \in Listed /\ q \notin page /\ Offset <= Cardinality(Ahead(q))
    BY <1>0, <1>6, <2>1 DEF MissesNone, Underway
  <2>3. Cardinality(page) = PageLimit /\ Offset + PageLimit <= Cardinality(Ahead(q))
    BY <1>0, <2>1, <2>2, RowComesLater
  <2>4. Ahead(q)' = Ahead(q)
    BY <1>1, <1>6 DEF Ahead, Precedes
  <2>5. ~(reading'.step = "done" /\ reading'.by = "short page")
    <3>1. ~(Cardinality(page) < PageLimit)
      BY <1>8, <2>3
    <3> QED
      BY <1>6, <3>1
  <2>6. Underway' => Offset' <= Cardinality(Ahead(q)')
    BY <1>8, <2>3, <2>4
  <2> QED
    BY <1>1, <2>2, <2>5, <2>6
<1>11. GotInOrder'
  <2>1. CASE Steady'
    <3>1. Steady /\ ~Ties /\ reading.order = "ASC"
      BY <1>6, <1>9, <2>1 DEF Steady
    <3>2. /\ Beginning(reading.begun) /\ ~reading.repeated
          /\ Beginning(reading.got) /\ Cardinality(reading.got) = Offset
          /\ ~reading.uncounted => Cardinality(reading.begun) <= reading.total
      BY <1>0, <3>1 DEF GotInOrder, Underway
    <3>3. PICK got : got = reading.got \cup page
      OBVIOUS
    <3>4. /\ page \cap reading.got = {} /\ Beginning(got)
          /\ Cardinality(got) = Offset + Cardinality(page)
          /\ Cardinality(page) = PageLimit \/ (Cardinality(page) < PageLimit /\ got = Listed)
      BY <1>0, <3>1, <3>2, <3>3, PageFollows
    <3>5. ~reading'.repeated
      BY <1>2, <1>6, <3>2, <3>4
    <3>6. Beginning(reading.begun)' /\ Beginning(reading.got)'
      BY <1>1, <1>6, <3>2, <3>3, <3>4 DEF Beginning
    <3>7. Underway' => Cardinality(reading'.got) = Offset'
      BY <1>6, <1>8, <3>3, <3>4 DEF Underway
    <3>8. ASSUME reading'.step = "done", ~reading'.uncounted PROVE reading'.begun \subseteq reading'.got
      <4>1. CASE Cardinality(page) < PageLimit /\ got = Listed
        BY <1>6, <3>2, <3>3, <4>1 DEF Beginning
      <4>2. CASE Cardinality(page) = PageLimit
        <5>1. PageLimit * (reading.page + 1) >= reading.total
          <6>1. ~(Cardinality(page) < PageLimit)
            BY <1>8, <4>2
          <6> QED
            BY <1>6, <3>8, <6>1
        <5>2. PICK b, g, n \in Nat : b = Cardinality(reading.begun) /\ g = Cardinality(got) /\ n = reading.total
          <6>1. reading.begun \in SUBSET ListRows /\ got \in SUBSET ListRows /\ reading.total \in Nat
            BY <1>0, <1>1, <3>4 DEF Beginning, ListTypes, Readings
          <6> QED
            BY <6>1, RowsCounted
        <5>3. b <= n /\ n <= Offset + PageLimit /\ g = Offset + PageLimit
          BY <1>6, <1>8, <3>2, <3>4, <3>8, <4>2, <5>1, <5>2
        <5>4. Cardinality(reading.begun) <= Cardinality(got)
          BY <1>8, <5>2, <5>3
        <5>5. reading.begun \subseteq got
          BY <1>0, <3>2, <3>4, <5>4, BeginningsNest
        <5> QED
          BY <1>6, <3>3, <5>5
      <4> QED
        BY <3>4, <4>1, <4>2
    <3>9. reading'.step # "read"
      BY <1>6
    <3> QED
      BY <3>5, <3>6, <3>7, <3>8, <3>9 DEF GotInOrder
  <2> QED
    BY <2>1 DEF GotInOrder
<1> QED
  BY <1>7, <1>10, <1>11 DEF ListsInv

(* However long a list, its pages and the changes in between, a client that*)
(* reads newest first up to a short page has all that stayed, and one that *)
(* reads oldest first may stop at the total (HandleOrdersList and the      *)
(* other lists).                                                           *)
THEOREM ListsReadWhole == ListsSpec => []PagesComplete
<1>1. ListsInit => ListsInv
  BY ListsInitHold
<1>2. ListsInv /\ [ListsNext]_listVars => ListsInv'
  <2> SUFFICES ASSUME ListsInv, [ListsNext]_listVars PROVE ListsInv'
    OBVIOUS
  <2>1. CASE \E r \in ListRows : RowArrives(r) \/ RowMoves(r)
    BY <2>1, RowArrivesKeeps, RowMovesKeeps
  <2>2. CASE PaginationMiddleware
    BY <2>2, ReadingBegins
  <2>3. CASE HandleOrdersList \/ HandleFillsList \/ HandleBalanceOpsList \/ HandleFundingRateList
             \/ HandleVault \/ HandleVaultHoldings \/ HandleVaultBalanceOperations
    <3>1. CASE ReadPage
      <4>1. UNCHANGED <<listKind, listKey>> /\ reading.step = "read"
            /\ ((\E page \in Pages : SuccessResponsePaginated(page)) \/ reading' = ListFails)
        BY <3>1 DEF ReadPage, ReadingAt
      <4> QED
        BY <4>1, PageIsRead, ReadFails
    <3>2. CASE (Count(TotalZero) /\ listKind \notin {"vaults", "holdings", "vault operations"}) \/ Count(ListFails)
      BY <3>2, CountKeeps DEF Count
    <3> QED
      BY <2>3, <3>1, <3>2 DEF HandleOrdersList, HandleFillsList, HandleBalanceOpsList, HandleFundingRateList,
         HandleVault, HandleVaultHoldings, HandleVaultBalanceOperations
  <2>4. CASE UNCHANGED listVars
    <3>1. UNCHANGED <<listKind, listKey, reading>>
      BY <2>4 DEF listVars
    <3> QED
      BY <3>1 DEF ListsInv, ListTypes, MissesNone, GotInOrder, Followed, Steady, Underway, Beginning, Listed,
                  Ahead, Precedes, Offset
  <2> QED
    BY <2>1, <2>2, <2>3, <2>4 DEF ListsNext
<1>3. ListsInv => PagesComplete
  BY ListsInvImplies
<1> QED
  BY <1>1, <1>2, <1>3, PTL DEF ListsSpec

-------------------------------------------------------------------------------
(* The slipstopper.                                                        *)

Nodes == [key : Nat, orders : SUBSET SlipOrders, live : BOOLEAN]

(* Nodes N and pointers P of a tree, but for the pointers of some orders,  *)
(* which are in no node.                                                   *)
TreeBut(N, P, loose) ==
    /\ N \in [NodeIds -> Nodes] /\ P \in [SlipOrders -> NodeIds \cup {0}]
    /\ \A n \in NodeIds : N[n].live => N[n].key \in SlipPrices
    /\ \A n, m \in NodeIds : N[n].live /\ N[m].live /\ N[n].key = N[m].key => n = m
    /\ \A o \in SlipOrders, n \in NodeIds :
          IF o \in loose THEN ~(N[n].live /\ o \in N[n].orders)
          ELSE P[o] = n <=> N[n].live /\ o \in N[n].orders

OrderAt(N, o, key) == \E n \in NodeIds : N[n].live /\ N[n].key = key /\ o \in N[n].orders

LEMMA NodesNumbered == 0 \notin NodeIds /\ NodeIds \subseteq Nat
BY SlipAssumption DEF NodeIds

(* A new node is found for a price that has none.                          *)
LEMMA NodeIsFound ==
    ASSUME NEW s, NEW loose, TreeBut(s.nodes, s.nodeOf, loose), NEW key \in SlipPrices, NodeAt(s, key) = {}
    PROVE  Unused(s) # {}
<1>1. PICK N, P : N = s.nodes /\ P = s.nodeOf
  OBVIOUS
<1>2. TreeBut(N, P, loose)
  BY <1>1
<1>3. PICK L : L = {n \in NodeIds : N[n].live}
  OBVIOUS
<1>4. PICK R : R = {P[o] : o \in SlipOrders}
  OBVIOUS
<1>5. PICK f : f = [n \in L |-> N[n].key]
  OBVIOUS
<1>6. \A n \in L : N[n].key # key
  BY <1>1, <1>3 DEF NodeAt, LiveNodes
<1>7. f \in Injection(L, SlipPrices \ {key})
  <2>1. f \in [L -> SlipPrices \ {key}]
    BY <1>2, <1>3, <1>5, <1>6 DEF TreeBut
  <2>2. \A a, b \in L : f[a] = f[b] => a = b
    BY <1>2, <1>3, <1>5 DEF TreeBut
  <2> QED
    BY <2>1, <2>2 DEF Injection, IsInjective
<1>8. IsFiniteSet(SlipPrices \ {key}) /\ Cardinality(SlipPrices \ {key}) = Cardinality(SlipPrices) - 1
  BY SlipAssumption, FS_RemoveElement
<1>9. IsFiniteSet(L) /\ Cardinality(L) <= Cardinality(SlipPrices) - 1
  BY <1>7, <1>8, FS_Injection
<1>10. P \in Surjection(SlipOrders, R)
  BY <1>2, <1>4 DEF TreeBut, Surjection
<1>11. IsFiniteSet(R) /\ Cardinality(R) <= Cardinality(SlipOrders)
  BY <1>10, SlipAssumption, FS_Surjection
<1>12. IsFiniteSet(L \cup R) /\ Cardinality(L \cup R) = Cardinality(L) + Cardinality(R) - Cardinality(L \cap R)
  BY <1>9, <1>11, FS_Union
<1>13. L \cap R \subseteq L
  OBVIOUS
<1>14. IsFiniteSet(L \cap R)
  BY <1>9, <1>13, FS_Subset
<1>15. PICK l, r, b, p, o \in Nat : /\ l = Cardinality(L) /\ r = Cardinality(R) /\ b = Cardinality(L \cap R)
                                    /\ p = Cardinality(SlipPrices) /\ o = Cardinality(SlipOrders)
  BY <1>9, <1>11, <1>14, SlipAssumption, FS_CardinalityType
<1>16. Cardinality(L \cup R) < MaxSlipNodes
  <2>1. l <= p - 1 /\ r <= o /\ o + p <= MaxSlipNodes
    BY <1>9, <1>11, <1>15, SlipAssumption
  <2>2. Cardinality(L \cup R) = l + r - b
    BY <1>12, <1>15
  <2> QED
    BY <1>15, <2>1, <2>2, SlipAssumption
<1>17. Cardinality(NodeIds) = MaxSlipNodes
  BY SlipAssumption, FS_Interval DEF NodeIds
<1>18. ~(NodeIds \subseteq L \cup R)
  <2> SUFFICES ASSUME NodeIds \subseteq L \cup R PROVE FALSE
    OBVIOUS
  <2>1. Cardinality(NodeIds) <= Cardinality(L \cup R)
    BY <1>12, FS_Subset
  <2>2. Cardinality(L \cup R) \in Nat /\ MaxSlipNodes \in Nat
    BY <1>12, FS_CardinalityType, SlipAssumption
  <2> QED
    BY <1>16, <1>17, <2>1, <2>2
<1>19. PICK n \in NodeIds : n \notin L /\ n \notin R
  BY <1>18
<1>20. n \in Unused(s)
  BY <1>1, <1>3, <1>4, <1>19 DEF Unused
<1> QED
  BY <1>20

(* Orders that are put in the tree are watched at their price, the others  *)
(* where they were.                                                        *)
LEMMA Inserted ==
    ASSUME NEW s, NEW key \in SlipPrices, NEW orders \in SUBSET SlipOrders, TreeBut(s.nodes, s.nodeOf, orders),
           s = [nodes |-> s.nodes, nodeOf |-> s.nodeOf, moved |-> s.moved],
           NEW t, t = InsertAll(s, key, orders)
    PROVE  /\ TreeBut(t.nodes, t.nodeOf, {}) /\ t.moved = s.moved
           /\ \A o \in SlipOrders, k \in SlipPrices :
                 OrderAt(t.nodes, o, k) <=> IF o \in orders THEN k = key ELSE OrderAt(s.nodes, o, k)
<1>1. PICK N, P, mv : N = s.nodes /\ P = s.nodeOf /\ mv = s.moved
  OBVIOUS
<1>2. TreeBut(N, P, orders) /\ s = [nodes |-> N, nodeOf |-> P, moved |-> mv]
  BY <1>1
<1>3. CASE orders = {}
  <2>1. t = s
    BY <1>3 DEF InsertAll
  <2> QED
    BY <1>1, <1>2, <1>3, <2>1
<1>4. CASE orders # {}
  <2>1. PICK n, old : /\ n = CHOOSE c \in IF NodeAt(s, key) # {} THEN NodeAt(s, key) ELSE Unused(s) : TRUE
                      /\ old = IF NodeAt(s, key) # {} THEN s.nodes[n].orders ELSE {}
    OBVIOUS
  <2>2. t = [nodes |-> [s.nodes EXCEPT ![n] = [key |-> key, orders |-> old \cup orders, live |-> TRUE]],
             nodeOf |-> [o \in SlipOrders |-> IF o \in orders THEN n ELSE s.nodeOf[o]],
             moved |-> s.moved]
    BY <1>4, <2>1 DEF InsertAll
  <2>3. PICK new : new = [key |-> key, orders |-> old \cup orders, live |-> TRUE]
    OBVIOUS
  <2>4. PICK M, Q : M = [N EXCEPT ![n] = new] /\ Q = [o \in SlipOrders |-> IF o \in orders THEN n ELSE P[o]]
    OBVIOUS
  <2>5. t = [nodes |-> M, nodeOf |-> Q, moved |-> mv]
    BY <1>1, <2>2, <2>3, <2>4
  <2>6. t.nodes = M /\ t.nodeOf = Q /\ t.moved = mv
    BY <2>5
  <2>7. /\ n \in NodeIds /\ old \in SUBSET SlipOrders
        /\ \/ N[n].live /\ N[n].key = key /\ old = N[n].orders
           \/ /\ ~N[n].live /\ old = {} /\ (\A o \in SlipOrders : P[o] # n)
              /\ \A m \in NodeIds : N[m].live => N[m].key # key
    <3>1. CASE NodeAt(s, key) # {}
      <4>1. n \in NodeAt(s, key) /\ old = N[n].orders
        BY <1>1, <2>1, <3>1
      <4>2. n \in NodeIds /\ N[n].live /\ N[n].key = key
        BY <1>1, <4>1 DEF NodeAt, LiveNodes
      <4> QED
        BY <1>2, <4>1, <4>2 DEF TreeBut, Nodes
    <3>2. CASE NodeAt(s, key) = {}
      <4>1. Unused(s) # {}
        BY <3>2, NodeIsFound
      <4>2. n \in Unused(s) /\ old = {}
        BY <2>1, <3>2, <4>1
      <4>3. n \in NodeIds /\ ~N[n].live /\ \A o \in SlipOrders : P[o] # n
        BY <1>1, <4>2 DEF Unused
      <4>4. \A m \in NodeIds : N[m].live => N[m].key # key
        BY <1>1, <3>2 DEF NodeAt, LiveNodes
      <4> QED
        BY <4>2, <4>3, <4>4
    <3> QED
      BY <3>1, <3>2
  <2>8. new \in Nodes /\ new.key = key /\ new.live /\ new.orders = old \cup orders
    BY <2>3, <2>7, SlipAssumption DEF Nodes
  <2>9. /\ M \in [NodeIds -> Nodes] /\ Q \in [SlipOrders -> NodeIds \cup {0}] /\ M[n] = new
        /\ \A m \in NodeIds : m # n => M[m] = N[m]
        /\ \A o \in SlipOrders : Q[o] = IF o \in orders THEN n ELSE P[o]
    BY <1>2, <2>4, <2>7, <2>8 DEF TreeBut
  <2>10. \A m \in NodeIds : M[m].live => M[m].key \in SlipPrices
    BY <1>2, <2>8, <2>9 DEF TreeBut
  <2>11. \A m, l \in NodeIds : M[m].live /\ M[l].live /\ M[m].key = M[l].key => m = l
    <3>1. \A m \in NodeIds : m # n /\ N[m].live => N[m].key # key
      BY <1>2, <2>7 DEF TreeBut
    <3> QED
      BY <1>2, <2>8, <2>9, <3>1 DEF TreeBut
  <2>12. ASSUME NEW o \in SlipOrders, NEW m \in NodeIds
         PROVE  Q[o] = m <=> M[m].live /\ o \in M[m].orders
    <3>1. CASE o \in orders
      <4>1. ~(N[m].live /\ o \in N[m].orders)
        BY <1>2, <3>1 DEF TreeBut
      <4> QED
        BY <2>8, <2>9, <3>1, <4>1
    <3>2. CASE o \notin orders
      <4>1. P[o] = m <=> N[m].live /\ o \in N[m].orders
        BY <1>2, <3>2 DEF TreeBut
      <4> QED
        BY <2>7, <2>8, <2>9, <3>2, <4>1
    <3> QED
      BY <3>1, <3>2
  <2>13. ASSUME NEW o \in SlipOrders, NEW k \in SlipPrices
         PROVE  OrderAt(M, o, k) <=> IF o \in orders THEN k = key ELSE OrderAt(N, o, k)
    <3>1. CASE o \in orders
      <4>1. \A m \in NodeIds : M[m].live /\ o \in M[m].orders <=> m = n
        BY <2>9, <2>12, <3>1, <2>7
      <4> QED
        BY <2>7, <2>8, <2>9, <3>1, <4>1 DEF OrderAt
    <3>2. CASE o \notin orders
      <4>1. \A m \in NodeIds : M[m].live /\ M[m].key = k /\ o \in M[m].orders
                               <=> N[m].live /\ N[m].key = k /\ o \in N[m].orders
        BY <2>7, <2>8, <2>9, <3>2
      <4> QED
        BY <3>2, <4>1 DEF OrderAt
    <3> QED
      BY <3>1, <3>2
  <2>14. TreeBut(M, Q, {})
    BY <2>9, <2>10, <2>11, <2>12 DEF TreeBut
  <2> QED
    BY <1>1, <2>6, <2>13, <2>14
<1> QED
  BY <1>3, <1>4

(* A price and its node, and what deleting it makes of the tree.           *)
LEMMA Removed ==
    ASSUME NEW s, TreeBut(s.nodes, s.nodeOf, {}), s = [nodes |-> s.nodes, nodeOf |-> s.nodeOf, moved |-> s.moved],
           NEW o \in SlipOrders, s.nodeOf[o] # 0, NEW u \in RemovePrice(s, o), ~u.moved
    PROVE  /\ TreeBut(u.nodes, u.nodeOf, {}) /\ u.moved = s.moved
           /\ u = [nodes |-> u.nodes, nodeOf |-> u.nodeOf, moved |-> u.moved]
           /\ \A q \in SlipOrders, k \in SlipPrices : OrderAt(u.nodes, q, k) <=> q # o /\ OrderAt(s.nodes, q, k)
<1>1. PICK N, P, mv, p, old : /\ N = s.nodes /\ P = s.nodeOf /\ mv = s.moved /\ p = P[o] /\ old = N[p]
  OBVIOUS
<1>2. TreeBut(N, P, {}) /\ s = [nodes |-> N, nodeOf |-> P, moved |-> mv]
  BY <1>1
<1>3. /\ p \in NodeIds /\ old \in Nodes /\ old.live /\ o \in old.orders /\ old.key \in SlipPrices
      /\ old.orders \subseteq SlipOrders /\ 0 \notin NodeIds
  <2>1. p \in NodeIds /\ 0 \notin NodeIds
    BY <1>1, <1>2, NodesNumbered DEF TreeBut
  <2>2. N[p].live /\ o \in N[p].orders /\ N[p] \in Nodes /\ N[p].key \in SlipPrices
    BY <1>1, <1>2, <2>1 DEF TreeBut
  <2> QED
    BY <1>1, <2>1, <2>2 DEF Nodes
<1>4. NodeAt(s, old.key) = {p}
  BY <1>1, <1>2, <1>3 DEF NodeAt, LiveNodes, TreeBut
<1>5. PICK t \in Delete(s, old.key) :
         u = InsertAll([t EXCEPT !.nodeOf[o] = 0], old.key, old.orders \ {o})
  BY <1>1 DEF RemovePrice
<1>6. PICK d : d = [old EXCEPT !.live = FALSE]
  OBVIOUS
<1>7. d \in Nodes /\ ~d.live
  BY <1>3, <1>6 DEF Nodes
<1>8. PICK M : M = [N EXCEPT ![p] = d]
  OBVIOUS
<1>9. \/ t = [nodes |-> M, nodeOf |-> P, moved |-> mv]
      \/ \E L : t = [nodes |-> L, nodeOf |-> P, moved |-> TRUE]
  <2>1. (CHOOSE n \in NodeAt(s, old.key) : TRUE) = p
    BY <1>4
  <2>2. \/ t = [s EXCEPT !.nodes[p].live = FALSE]
        \/ \E b : t = [s EXCEPT !.nodes = [@ EXCEPT ![p] = s.nodes[b], ![b].live = FALSE], !.moved = TRUE]
    BY <1>4, <1>5, <2>1 DEF Delete
  <2>3. CASE t = [s EXCEPT !.nodes[p].live = FALSE]
    BY <1>1, <1>2, <1>6, <1>8, <2>3
  <2>4. CASE \E b : t = [s EXCEPT !.nodes = [@ EXCEPT ![p] = s.nodes[b], ![b].live = FALSE], !.moved = TRUE]
    <3>1. PICK b, L : /\ L = [N EXCEPT ![p] = N[b], ![b].live = FALSE]
                      /\ t = [s EXCEPT !.nodes = L, !.moved = TRUE]
      BY <1>1, <2>4
    <3>2. t = [nodes |-> L, nodeOf |-> P, moved |-> TRUE]
      BY <1>2, <3>1
    <3> QED
      BY <3>2
  <2> QED
    BY <2>2, <2>3, <2>4
<1>10. PICK Q : Q = [P EXCEPT ![o] = 0]
  OBVIOUS
<1>11. PICK x : x = [t EXCEPT !.nodeOf[o] = 0]
  OBVIOUS
<1>12. \/ x = [nodes |-> M, nodeOf |-> Q, moved |-> mv]
       \/ \E L : x = [nodes |-> L, nodeOf |-> Q, moved |-> TRUE]
  <2>1. ASSUME NEW L, NEW b, t = [nodes |-> L, nodeOf |-> P, moved |-> b]
        PROVE  x = [nodes |-> L, nodeOf |-> Q, moved |-> b]
    BY <1>10, <1>11, <2>1
  <2>2. CASE t = [nodes |-> M, nodeOf |-> P, moved |-> mv]
    BY <2>1, <2>2
  <2>3. CASE \E L : t = [nodes |-> L, nodeOf |-> P, moved |-> TRUE]
    BY <2>1, <2>3
  <2> QED
    BY <1>9, <2>2, <2>3
<1>13. u = InsertAll(x, old.key, old.orders \ {o})
  BY <1>5, <1>11
<1>14. x = [nodes |-> M, nodeOf |-> Q, moved |-> mv]
  <2> SUFFICES ASSUME NEW L, x = [nodes |-> L, nodeOf |-> Q, moved |-> TRUE] PROVE FALSE
    BY <1>12
  <2>1. x.moved
    OBVIOUS
  <2>2. u.moved = x.moved
    BY <1>13 DEF InsertAll
  <2> QED
    BY <2>1, <2>2
<1>15. x.nodes = M /\ x.nodeOf = Q /\ x.moved = mv
  BY <1>14
<1>16. PICK loose : loose = old.orders \ {o}
  OBVIOUS
<1>17. /\ M \in [NodeIds -> Nodes] /\ Q \in [SlipOrders -> NodeIds \cup {0}]
       /\ M[p] = d /\ (\A m \in NodeIds : m # p => M[m] = N[m])
       /\ Q[o] = 0 /\ (\A q \in SlipOrders : q # o => Q[q] = P[q])
  BY <1>2, <1>3, <1>7, <1>8, <1>10 DEF TreeBut
<1>18. TreeBut(M, Q, loose)
  <2>1. \A m \in NodeIds : M[m].live => m # p /\ N[m].live /\ M[m] = N[m] /\ M[m].key \in SlipPrices
    BY <1>2, <1>7, <1>17 DEF TreeBut
  <2>2. \A m, l \in NodeIds : M[m].live /\ M[l].live /\ M[m].key = M[l].key => m = l
    BY <1>2, <2>1 DEF TreeBut
  <2>3. ASSUME NEW q \in SlipOrders, NEW m \in NodeIds
        PROVE  IF q \in loose THEN ~(M[m].live /\ q \in M[m].orders)
               ELSE Q[q] = m <=> M[m].live /\ q \in M[m].orders
    <3>1. P[q] = m <=> N[m].live /\ q \in N[m].orders
      BY <1>2 DEF TreeBut
    <3>2. P[q] = p <=> q \in old.orders
      BY <1>1, <1>2, <1>3 DEF TreeBut
    <3>3. CASE m = p
      BY <1>1, <1>3, <1>7, <1>16, <1>17, <3>2, <3>3
    <3>4. CASE m # p
      BY <1>1, <1>3, <1>16, <1>17, <3>1, <3>2, <3>4
    <3> QED
      BY <3>3, <3>4
  <2> QED
    BY <1>17, <2>1, <2>2, <2>3 DEF TreeBut
<1>19. loose \in SUBSET SlipOrders
  BY <1>3, <1>16
<1>20. /\ TreeBut(u.nodes, u.nodeOf, {}) /\ u.moved = mv
       /\ \A q \in SlipOrders, k \in SlipPrices :
             OrderAt(u.nodes, q, k) <=> IF q \in loose THEN k = old.key ELSE OrderAt(M, q, k)
  <2>1. TreeBut(x.nodes, x.nodeOf, loose) /\ x = [nodes |-> x.nodes, nodeOf |-> x.nodeOf, moved |-> x.moved]
    BY <1>14, <1>15, <1>18
  <2>2. u = InsertAll(x, old.key, loose)
    BY <1>13, <1>16
  <2> QED
    BY <1>3, <1>15, <1>19, <2>1, <2>2, Inserted
<1>21. ASSUME NEW q \in SlipOrders, NEW k \in SlipPrices
       PROVE  OrderAt(u.nodes, q, k) <=> q # o /\ OrderAt(N, q, k)
  <2>1. \A m \in NodeIds : P[q] = m <=> N[m].live /\ q \in N[m].orders
    BY <1>2 DEF TreeBut
  <2>2. CASE q \in loose
    <3>1. P[q] = p /\ q # o
      BY <1>1, <1>3, <1>16, <2>1, <2>2
    <3>2. OrderAt(N, q, k) <=> k = old.key
      BY <1>1, <1>3, <2>1, <3>1 DEF OrderAt
    <3> QED
      BY <1>20, <2>2, <3>1, <3>2
  <2>3. CASE q = o
    <3>1. \A m \in NodeIds : ~(M[m].live /\ o \in M[m].orders)
      BY <1>1, <1>7, <1>17, <2>1, <2>3
    <3> QED
      BY <1>16, <1>20, <2>3, <3>1 DEF OrderAt
  <2>4. CASE q # o /\ q \notin loose
    <3>1. q \notin old.orders
      BY <1>16, <2>4
    <3>2. \A m \in NodeIds : M[m].live /\ M[m].key = k /\ q \in M[m].orders <=> N[m].live /\ N[m].key = k /\ q \in N[m].orders
      BY <1>1, <1>3, <1>7, <1>17, <3>1
    <3> QED
      BY <1>20, <2>4, <3>2 DEF OrderAt
  <2> QED
    BY <2>2, <2>3, <2>4
<1>22. u = [nodes |-> u.nodes, nodeOf |-> u.nodeOf, moved |-> u.moved]
  <2>1. PICK a, b, c : u = x \/ u = [nodes |-> a, nodeOf |-> b, moved |-> c]
    BY <1>13 DEF InsertAll
  <2> QED
    BY <1>14, <2>1
<1> QED
  BY <1>1, <1>20, <1>21, <1>22

(* A publication changes its order only.                                   *)
LEMMA Updated ==
    ASSUME NEW s, TreeBut(s.nodes, s.nodeOf, {}), s = [nodes |-> s.nodes, nodeOf |-> s.nodeOf, moved |-> s.moved],
           NEW m, m.order \in SlipOrders, m.key \in SlipPrices, m.placed \in BOOLEAN,
           NEW u \in Update(s, m), ~u.moved
    PROVE  /\ TreeBut(u.nodes, u.nodeOf, {}) /\ u.moved = s.moved
           /\ \A q \in SlipOrders, k \in SlipPrices :
                 OrderAt(u.nodes, q, k) <=> IF q = m.order THEN m.placed /\ k = m.key ELSE OrderAt(s.nodes, q, k)
<1>1. PICK o : o = m.order /\ o \in SlipOrders
  OBVIOUS
<1>2. PICK t : /\ t \in IF s.nodeOf[o] # 0 THEN RemovePrice(s, o) ELSE {s}
               /\ u = IF m.placed THEN InsertAll(t, m.key, {o}) ELSE t
  BY <1>1 DEF Update
<1>3. m.placed => u.moved = t.moved
  BY <1>2 DEF InsertAll
<1>4. ~t.moved
  BY <1>2, <1>3
<1>5. /\ TreeBut(t.nodes, t.nodeOf, {}) /\ t.moved = s.moved
      /\ t = [nodes |-> t.nodes, nodeOf |-> t.nodeOf, moved |-> t.moved]
      /\ \A q \in SlipOrders, k \in SlipPrices : OrderAt(t.nodes, q, k) <=> q # o /\ OrderAt(s.nodes, q, k)
  <2>1. CASE s.nodeOf[o] # 0
    BY <1>1, <1>2, <1>4, <2>1, Removed
  <2>2. CASE s.nodeOf[o] = 0
    <3>1. t = s
      BY <1>2, <2>2
    <3>2. \A n \in NodeIds : ~(s.nodes[n].live /\ o \in s.nodes[n].orders)
      BY <1>1, <2>2, NodesNumbered DEF TreeBut
    <3>3. \A k : ~OrderAt(s.nodes, o, k)
      BY <3>2 DEF OrderAt
    <3> QED
      BY <3>1, <3>3
  <2> QED
    BY <2>1, <2>2
<1>6. CASE ~m.placed
  BY <1>1, <1>2, <1>5, <1>6
<1>7. CASE m.placed
  <2>1. TreeBut(t.nodes, t.nodeOf, {o})
    <3>1. PICK N, P : N = t.nodes /\ P = t.nodeOf
      OBVIOUS
    <3>2. TreeBut(N, P, {}) /\ \A k \in SlipPrices : ~OrderAt(N, o, k)
      BY <1>1, <1>5, <3>1
    <3>3. \A n \in NodeIds : ~(N[n].live /\ o \in N[n].orders)
      BY <3>2 DEF OrderAt, TreeBut
    <3>4. TreeBut(N, P, {o})
      BY <3>2, <3>3 DEF TreeBut
    <3> QED
      BY <3>1, <3>4
  <2>2. u = InsertAll(t, m.key, {o}) /\ {o} \in SUBSET SlipOrders
    BY <1>1, <1>2, <1>7
  <2>3. /\ TreeBut(u.nodes, u.nodeOf, {}) /\ u.moved = t.moved
        /\ \A q \in SlipOrders, k \in SlipPrices :
              OrderAt(u.nodes, q, k) <=> IF q \in {o} THEN k = m.key ELSE OrderAt(t.nodes, q, k)
    BY <1>5, <2>1, <2>2, Inserted
  <2> QED
    BY <1>1, <1>5, <1>7, <2>3
<1> QED
  BY <1>6, <1>7

(* The nodes of the trigger prices of the first answer.                    *)
LEMMA NodePerPrice ==
    /\ \A key \in SlipPrices : FirstNode(key) \in NodeIds
    /\ \A key, other \in SlipPrices : FirstNode(key) = FirstNode(other) => key = other
<1> DEFINE Lower(key) == {k \in SlipPrices : k <= key}
<1>1. ASSUME NEW key \in SlipPrices
      PROVE  /\ IsFiniteSet(Lower(key)) /\ Cardinality(Lower(key)) \in Nat
             /\ Cardinality(Lower(key)) <= Cardinality(SlipPrices) /\ Cardinality(Lower(key)) # 0
  <2>1. Lower(key) \subseteq SlipPrices /\ key \in Lower(key)
    BY SlipAssumption
  <2>2. IsFiniteSet(Lower(key)) /\ Cardinality(Lower(key)) <= Cardinality(SlipPrices)
    BY <2>1, SlipAssumption, FS_Subset
  <2> QED
    BY <2>1, <2>2, FS_CardinalityType, FS_EmptySet
<1>2. ASSUME NEW key \in SlipPrices, NEW other \in SlipPrices, Cardinality(Lower(key)) = Cardinality(Lower(other)),
             key <= other
      PROVE  key = other
  <2>1. Lower(key) \subseteq Lower(other) /\ other \in Lower(other)
    <3>1. key \in Nat /\ other \in Nat /\ \A k \in SlipPrices : k \in Nat
      BY SlipAssumption
    <3>2. \A k \in SlipPrices : k <= key => k <= other
      BY <1>2, <3>1
    <3>3. other <= other
      BY <3>1
    <3> QED
      BY <3>2, <3>3
  <2>2. Lower(key) = Lower(other)
    BY <1>1, <1>2, <2>1, FS_Subset
  <2>3. other <= key
    BY <2>1, <2>2
  <2> QED
    BY <1>2, <2>3, SlipAssumption
<1>3. ASSUME NEW key \in SlipPrices PROVE FirstNode(key) \in NodeIds
  <2>1. PICK c, p, o \in Nat : c = Cardinality(Lower(key)) /\ p = Cardinality(SlipPrices) /\ o = Cardinality(SlipOrders)
    BY <1>1, SlipAssumption, FS_CardinalityType
  <2>2. 1 <= c /\ c <= p /\ o + p <= MaxSlipNodes /\ MaxSlipNodes \in Nat
    BY <1>1, <2>1, SlipAssumption
  <2>3. c \in NodeIds
    BY <2>2 DEF NodeIds
  <2> QED
    BY <2>1, <2>3 DEF FirstNode
<1>4. ASSUME NEW key \in SlipPrices, NEW other \in SlipPrices, FirstNode(key) = FirstNode(other) PROVE key = other
  <2>1. Cardinality(Lower(key)) = Cardinality(Lower(other)) /\ (key <= other \/ other <= key)
    BY <1>4, SlipAssumption DEF FirstNode
  <2> QED
    BY <1>2, <2>1
<1> QED
  BY <1>3, <1>4

OneKey(orders) == \A o, k, l : <<o, k>> \in orders /\ <<o, l>> \in orders => k = l

(* The tree that is started holds the orders of the answer.                *)
LEMMA StartedHolds ==
    ASSUME NEW orders \in SUBSET (SlipOrders \X SlipPrices), OneKey(orders), NEW u, u = Started(orders)
    PROVE  /\ TreeBut(u.nodes, u.nodeOf, {}) /\ u.moved = FALSE
           /\ \A o \in SlipOrders, k \in SlipPrices : OrderAt(u.nodes, o, k) <=> <<o, k>> \in orders
<1> DEFINE At(key) == {o \in SlipOrders : <<o, key>> \in orders}
           Keys(n) == {key \in SlipPrices : FirstNode(key) = n /\ At(key) # {}}
           Key(n) == CHOOSE key \in Keys(n) : TRUE
           Node(n) == IF Keys(n) = {} THEN NoNode ELSE [key |-> Key(n), orders |-> At(Key(n)), live |-> TRUE]
           Pointer(o) == IF \E key \in SlipPrices : o \in At(key)
                         THEN FirstNode(CHOOSE key \in SlipPrices : o \in At(key)) ELSE 0
<1>1. PICK N, P : N = [n \in NodeIds |-> Node(n)] /\ P = [o \in SlipOrders |-> Pointer(o)]
  OBVIOUS
<1>2. u = [nodes |-> N, nodeOf |-> P, moved |-> FALSE]
  BY <1>1 DEF Started
<1>3. ASSUME NEW n \in NodeIds
      PROVE  /\ N[n] \in Nodes
             /\ N[n].live => N[n].key \in SlipPrices /\ FirstNode(N[n].key) = n /\ N[n].orders = At(N[n].key)
             /\ \A key \in SlipPrices : FirstNode(key) = n /\ At(key) # {} => N[n].live /\ N[n].key = key
  <2>1. N[n] = Node(n)
    BY <1>1
  <2>2. CASE Keys(n) = {}
    <3>1. N[n] = [key |-> 0, orders |-> {}, live |-> FALSE]
      BY <2>1, <2>2 DEF NoNode
    <3>2. N[n] \in Nodes /\ ~N[n].live
      BY <3>1 DEF Nodes
    <3> QED
      BY <2>2, <3>2
  <2>3. CASE Keys(n) # {}
    <3>1. PICK key : key = Key(n) /\ key \in Keys(n)
      BY <2>3
    <3>2. N[n] = [key |-> key, orders |-> At(key), live |-> TRUE]
      BY <2>1, <2>3, <3>1
    <3>3. key \in SlipPrices /\ FirstNode(key) = n
      BY <3>1
    <3>4. At(key) \in SUBSET SlipOrders /\ key \in Nat
      BY <3>3, SlipAssumption
    <3>5. N[n].live /\ N[n].key = key /\ N[n].orders = At(key)
      BY <3>2
    <3>6. N[n] \in Nodes
      BY <3>2, <3>4 DEF Nodes
    <3>7. \A other \in SlipPrices : FirstNode(other) = n => other = key
      BY <3>3, NodePerPrice
    <3> HIDE DEF At
    <3> QED
      BY <3>3, <3>5, <3>6, <3>7
  <2> QED
    BY <2>2, <2>3
<1>4. \A o \in SlipOrders, k \in SlipPrices : o \in At(k) <=> <<o, k>> \in orders
  OBVIOUS
<1>5. \A o \in SlipOrders, k, l \in SlipPrices : o \in At(k) /\ o \in At(l) => k = l
  BY <1>4 DEF OneKey
<1>6. ASSUME NEW o \in SlipOrders
      PROVE  /\ P[o] \in NodeIds \cup {0}
             /\ \A k \in SlipPrices : o \in At(k) => P[o] = FirstNode(k)
             /\ P[o] # 0 => \E k \in SlipPrices : o \in At(k) /\ P[o] = FirstNode(k)
  <2>1. P[o] = Pointer(o)
    BY <1>1
  <2> HIDE DEF At
  <2>2. CASE \E key \in SlipPrices : o \in At(key)
    <3>1. PICK k \in SlipPrices : o \in At(k) /\ k = CHOOSE key \in SlipPrices : o \in At(key)
      BY <2>2
    <3>2. P[o] = FirstNode(k)
      BY <2>1, <2>2, <3>1
    <3>3. \A l \in SlipPrices : o \in At(l) => l = k
      BY <1>5, <3>1
    <3> QED
      BY <3>1, <3>2, <3>3, NodePerPrice
  <2>3. CASE ~\E key \in SlipPrices : o \in At(key)
    BY <2>1, <2>3
  <2> QED
    BY <2>2, <2>3
<1> HIDE DEF At
<1>7. ASSUME NEW o \in SlipOrders, NEW n \in NodeIds
      PROVE  P[o] = n <=> N[n].live /\ o \in N[n].orders
  <2>1. ASSUME P[o] = n PROVE N[n].live /\ o \in N[n].orders
    <3>1. PICK k \in SlipPrices : o \in At(k) /\ n = FirstNode(k)
      BY <1>6, <2>1, NodesNumbered
    <3>2. N[n].live /\ N[n].key = k
      BY <1>3, <3>1
    <3> QED
      BY <1>3, <3>1, <3>2
  <2>2. ASSUME N[n].live, o \in N[n].orders PROVE P[o] = n
    BY <1>3, <1>6, <2>2
  <2> QED
    BY <2>1, <2>2
<1>8. N \in [NodeIds -> Nodes] /\ P \in [SlipOrders -> NodeIds \cup {0}]
  <2>1. N \in [NodeIds -> Nodes]
    BY <1>1, <1>3
  <2>2. P \in [SlipOrders -> NodeIds \cup {0}]
    BY <1>1, <1>6
  <2> QED
    BY <2>1, <2>2
<1>9. TreeBut(N, P, {})
  BY <1>3, <1>7, <1>8 DEF TreeBut
<1>10. ASSUME NEW o \in SlipOrders, NEW k \in SlipPrices
       PROVE  OrderAt(N, o, k) <=> <<o, k>> \in orders
  <2>1. ASSUME OrderAt(N, o, k) PROVE o \in At(k)
    BY <1>3, <2>1 DEF OrderAt
  <2>2. ASSUME o \in At(k) PROVE OrderAt(N, o, k)
    <3>1. PICK n \in NodeIds : n = FirstNode(k)
      BY NodePerPrice
    <3>2. N[n].live /\ N[n].key = k
      BY <1>3, <2>2, <3>1
    <3>3. o \in N[n].orders
      BY <1>3, <2>2, <3>2
    <3> QED
      BY <3>2, <3>3 DEF OrderAt
  <2> QED
    BY <1>4, <2>1, <2>2
<1> QED
  BY <1>2, <1>9, <1>10

(* A copied successor is remembered.                                       *)
LEMMA MovedStays ==
    ASSUME NEW s, NEW mv, s = [nodes |-> s.nodes, nodeOf |-> s.nodeOf, moved |-> mv], NEW m, NEW u \in Update(s, m)
    PROVE  u.moved \in {mv, TRUE}
<1>1. \A t, key, orders : InsertAll(t, key, orders).moved = t.moved
  BY DEF InsertAll
<1>2. PICK N, P : N = s.nodes /\ P = s.nodeOf /\ s = [nodes |-> N, nodeOf |-> P, moved |-> mv]
  OBVIOUS
<1>3. s.moved = mv
  BY <1>2
<1>4. ASSUME NEW t \in RemovePrice(s, m.order) PROVE t.moved \in {mv, TRUE}
  <2>1. PICK old : old = s.nodes[s.nodeOf[m.order]]
    OBVIOUS
  <2>2. PICK d \in Delete(s, old.key) : t = InsertAll([d EXCEPT !.nodeOf[m.order] = 0], old.key, old.orders \ {m.order})
    BY <1>4, <2>1 DEF RemovePrice
  <2>3. PICK L, b : d = [nodes |-> L, nodeOf |-> P, moved |-> b] /\ b \in {mv, TRUE}
    <3>1. PICK n : n = CHOOSE c \in NodeAt(s, old.key) : TRUE
      OBVIOUS
    <3>2. \/ d = s \/ d = [s EXCEPT !.nodes[n].live = FALSE]
          \/ \E b : d = [s EXCEPT !.nodes = [@ EXCEPT ![n] = s.nodes[b], ![b].live = FALSE], !.moved = TRUE]
      BY <2>2, <3>1 DEF Delete
    <3>3. CASE d = s
      BY <1>2, <3>3
    <3>4. CASE d = [s EXCEPT !.nodes[n].live = FALSE]
      <4>1. PICK L : L = [s.nodes EXCEPT ![n].live = FALSE]
        OBVIOUS
      <4>2. d = [s EXCEPT !.nodes = L]
        BY <3>4, <4>1
      <4>3. d = [nodes |-> L, nodeOf |-> P, moved |-> mv]
        BY <1>2, <4>2
      <4> QED
        BY <4>3
    <3>5. CASE \E b : d = [s EXCEPT !.nodes = [@ EXCEPT ![n] = s.nodes[b], ![b].live = FALSE], !.moved = TRUE]
      <4>1. PICK b, L : /\ L = [s.nodes EXCEPT ![n] = s.nodes[b], ![b].live = FALSE]
                        /\ d = [s EXCEPT !.nodes = L, !.moved = TRUE]
        BY <3>5
      <4>2. d = [nodes |-> L, nodeOf |-> P, moved |-> TRUE]
        BY <1>2, <4>1
      <4> QED
        BY <4>2
    <3> QED
      BY <3>2, <3>3, <3>4, <3>5
  <2>4. PICK x : x = [d EXCEPT !.nodeOf[m.order] = 0]
    OBVIOUS
  <2>5. x.moved = b
    BY <2>3, <2>4
  <2> QED
    BY <1>1, <2>2, <2>3, <2>4, <2>5
<1>5. PICK t : /\ t = s \/ t \in RemovePrice(s, m.order)
               /\ u = t \/ u = InsertAll(t, m.key, {m.order})
  BY DEF Update
<1>6. t.moved \in {mv, TRUE}
  BY <1>3, <1>4, <1>5
<1> QED
  BY <1>1, <1>5, <1>6

(* The inductive invariant: the last publication of an order tells what    *)
(* the engine has of it; the orders no publication is under way of are in  *)
(* the tree as they are at the engine, or in the answer that is awaited.   *)
SlipMessages == [order : SlipOrders, key : SlipPrices, placed : BOOLEAN]

SlipTypes ==
    /\ slipPlaced \in SUBSET (SlipOrders \X SlipPrices) /\ snapshot \in SUBSET (SlipOrders \X SlipPrices)
    /\ OneKey(slipPlaced) /\ OneKey(snapshot)
    /\ slipChannel \in Seq(SlipMessages)
    /\ slipConn \in {"off", "asked", "on"}
    /\ moved \in BOOLEAN /\ gap \in BOOLEAN

Silent(o) == \A i \in 1 .. Len(slipChannel) : slipChannel[i].order # o

LastTells ==
    \A i \in 1 .. Len(slipChannel), k \in SlipPrices :
        (\A j \in 1 .. Len(slipChannel) : j > i => slipChannel[j].order # slipChannel[i].order) =>
            (<<slipChannel[i].order, k>> \in slipPlaced <=> slipChannel[i].placed /\ k = slipChannel[i].key)

AnswerFits ==
    slipConn = "asked" =>
        \A o \in SlipOrders, k \in SlipPrices : Silent(o) => (<<o, k>> \in snapshot <=> <<o, k>> \in slipPlaced)

TreeFits ==
    /\ ~moved => TreeBut(nodes, nodeOf, {})
    /\ slipConn = "on" /\ ~gap /\ ~moved =>
          \A o \in SlipOrders, k \in SlipPrices : Silent(o) => (OrderAt(nodes, o, k) <=> <<o, k>> \in slipPlaced)

SlipInv == SlipTypes /\ LastTells /\ AnswerFits /\ TreeFits

LEMMA SlipInitHolds == SlipInit => SlipInv
<1> SUFFICES ASSUME SlipInit PROVE SlipInv
  OBVIOUS
<1>1. SlipTypes
  <2>1. <<>> \in Seq(SlipMessages)
    OBVIOUS
  <2>2. slipPlaced = {} /\ snapshot = {} /\ slipChannel = <<>> /\ slipConn = "off" /\ moved = FALSE /\ gap = FALSE
    BY DEF SlipInit
  <2> QED
    BY <2>1, <2>2 DEF SlipTypes, OneKey
<1>2. Len(slipChannel) = 0 /\ slipConn = "off"
  BY DEF SlipInit
<1>3. LastTells /\ AnswerFits
  BY <1>2 DEF LastTells, AnswerFits
<1>4. TreeBut(nodes, nodeOf, {})
  <2>1. NoNode \in Nodes /\ NoNode.live = FALSE
    BY DEF NoNode, Nodes
  <2>2. /\ nodes \in [NodeIds -> Nodes] /\ nodeOf \in [SlipOrders -> NodeIds \cup {0}]
        /\ \A n \in NodeIds : ~nodes[n].live
        /\ \A o \in SlipOrders : nodeOf[o] = 0
    BY <2>1 DEF SlipInit
  <2> QED
    BY <2>2, NodesNumbered DEF TreeBut
<1> QED
  BY <1>1, <1>2, <1>3, <1>4 DEF SlipInv, TreeFits

(* The engine places, amends or ends an order and says so.                 *)
LEMMA EngineTells ==
    ASSUME SlipInv, NEW o \in SlipOrders, NEW key \in SlipPrices, NEW placed \in BOOLEAN, Publish(o, key, placed),
           slipPlaced' = WithoutOrder(o) \cup (IF placed THEN {<<o, key>>} ELSE {}),
           UNCHANGED <<slipConn, snapshot, slipClient, gap>>
    PROVE  SlipInv'
<1>1. PICK m \in SlipMessages : m.order = o /\ m.key = key /\ m.placed = placed /\ slipChannel' = Append(slipChannel, m)
  <2>1. PICK m : m = [order |-> o, key |-> key, placed |-> placed]
    OBVIOUS
  <2>2. m \in SlipMessages /\ m.order = o /\ m.key = key /\ m.placed = placed
    BY <2>1 DEF SlipMessages
  <2> QED
    BY <2>1, <2>2 DEF Publish
<1>2. PICK c, n : c = slipChannel /\ n = Len(c) /\ c \in Seq(SlipMessages) /\ n \in Nat
  BY DEF SlipInv, SlipTypes
<1>3. PICK d : d = slipChannel' /\ d = Append(c, m)
  BY <1>1, <1>2
<1>4. /\ d \in Seq(SlipMessages) /\ Len(d) = n + 1 /\ d[n + 1] = m
      /\ \A i \in 1 .. n : d[i] = c[i]
  BY <1>2, <1>3
<1>5. /\ slipPlaced' \in SUBSET (SlipOrders \X SlipPrices)
      /\ \A q, k : <<q, k>> \in slipPlaced' <=> IF q = o THEN placed /\ k = key ELSE <<q, k>> \in slipPlaced
  <2>1. slipPlaced \in SUBSET (SlipOrders \X SlipPrices) /\ <<o, key>> \in SlipOrders \X SlipPrices
    BY DEF SlipInv, SlipTypes
  <2>2. \A q, k : <<q, k>> \in WithoutOrder(o) <=> q # o /\ <<q, k>> \in slipPlaced
    BY <2>1 DEF WithoutOrder
  <2>3. WithoutOrder(o) \in SUBSET (SlipOrders \X SlipPrices)
    BY <2>1 DEF WithoutOrder
  <2>4. CASE placed
    <3>1. slipPlaced' = WithoutOrder(o) \cup {<<o, key>>}
      BY <2>4
    <3> QED
      BY <2>1, <2>2, <2>3, <2>4, <3>1
  <2>5. CASE ~placed
    <3>1. slipPlaced' = WithoutOrder(o)
      BY <2>5
    <3> QED
      BY <2>2, <2>3, <2>5, <3>1
  <2> QED
    BY <2>4, <2>5
<1>6. /\ slipConn' = slipConn /\ snapshot' = snapshot /\ nodes' = nodes /\ nodeOf' = nodeOf /\ moved' = moved
      /\ gap' = gap
  BY DEF slipClient
<1>7. SlipTypes'
  <2>1. OneKey(slipPlaced)'
    BY <1>5 DEF SlipInv, SlipTypes, OneKey
  <2> QED
    BY <1>3, <1>4, <1>5, <1>6, <2>1 DEF SlipInv, SlipTypes, OneKey
<1>8. \A q \in SlipOrders : Silent(q)' => Silent(q) /\ q # o
  <2> SUFFICES ASSUME NEW q \in SlipOrders, \A i \in 1 .. n + 1 : d[i].order # q
               PROVE  q # o /\ \A i \in 1 .. n : c[i].order # q
    BY <1>2, <1>3, <1>4 DEF Silent
  <2>1. n + 1 \in 1 .. n + 1 /\ \A i \in 1 .. n : i \in 1 .. n + 1
    BY <1>2
  <2> QED
    BY <1>1, <1>4, <2>1
<1>9. AnswerFits' /\ TreeFits'
  <2>1. AnswerFits'
    BY <1>5, <1>6, <1>8 DEF SlipInv, AnswerFits
  <2>2. TreeFits'
    BY <1>5, <1>6, <1>8 DEF SlipInv, TreeFits
  <2> QED
    BY <2>1, <2>2
<1>10. LastTells'
  <2> SUFFICES ASSUME NEW i \in 1 .. n + 1, NEW k \in SlipPrices, \A j \in 1 .. n + 1 : j > i => d[j].order # d[i].order
               PROVE  <<d[i].order, k>> \in slipPlaced' <=> d[i].placed /\ k = d[i].key
    BY <1>3, <1>4 DEF LastTells
  <2>1. CASE i = n + 1
    BY <1>1, <1>4, <1>5, <2>1
  <2>2. CASE i # n + 1
    <3>1. i \in 1 .. n /\ n + 1 \in 1 .. n + 1 /\ n + 1 > i /\ \A j \in 1 .. n : j \in 1 .. n + 1
      BY <1>2, <2>2
    <3>2. c[i].order # o /\ d[i] = c[i] /\ \A j \in 1 .. n : j > i => c[j].order # c[i].order
      BY <1>1, <1>4, <3>1
    <3>3. <<c[i].order, k>> \in slipPlaced <=> c[i].placed /\ k = c[i].key
      BY <1>2, <3>1, <3>2 DEF SlipInv, LastTells
    <3> QED
      BY <1>5, <3>2, <3>3
  <2> QED
    BY <2>1, <2>2
<1> QED
  BY <1>7, <1>9, <1>10 DEF SlipInv

LEMMA PublicationKeeps ==
    ASSUME SlipInv, OnPublication
    PROVE  SlipInv'
<1>1. PICK c, n : c = slipChannel /\ n = Len(c) /\ c \in Seq(SlipMessages) /\ n \in Nat
  BY DEF SlipInv, SlipTypes
<1>2. PICK m, d : m = Head(c) /\ d = Tail(c) /\ d = slipChannel'
  BY <1>1 DEF OnPublication
<1>3. /\ c # <<>> /\ n > 0 /\ m = c[1] /\ m \in SlipMessages /\ d \in Seq(SlipMessages) /\ Len(d) = n - 1
      /\ \A i \in 1 .. n - 1 : d[i] = c[i + 1]
  BY <1>1, <1>2 DEF OnPublication
<1>4. PICK u \in Update(Matcher, m) : nodes' = u.nodes /\ nodeOf' = u.nodeOf /\ moved' = u.moved
  BY <1>1, <1>2 DEF OnPublication, SetMatcher
<1>5. slipConn = "on" /\ slipConn' = "on" /\ slipPlaced' = slipPlaced /\ snapshot' = snapshot /\ gap' = gap
  BY DEF OnPublication, slipEngine
<1>6. /\ Matcher.nodes = nodes /\ Matcher.nodeOf = nodeOf /\ Matcher.moved = moved
      /\ Matcher = [nodes |-> Matcher.nodes, nodeOf |-> Matcher.nodeOf, moved |-> Matcher.moved]
  BY DEF Matcher
<1>7. u.moved \in {moved, TRUE}
  <2>1. Matcher = [nodes |-> Matcher.nodes, nodeOf |-> Matcher.nodeOf, moved |-> moved]
    BY <1>6
  <2> QED
    BY <2>1, MovedStays
<1>8. ASSUME ~moved'
      PROVE  /\ ~moved /\ TreeBut(nodes', nodeOf', {})
             /\ \A q \in SlipOrders, k \in SlipPrices :
                   OrderAt(nodes', q, k) <=> IF q = m.order THEN m.placed /\ k = m.key ELSE OrderAt(nodes, q, k)
  <2>1. ~moved
    BY <1>4, <1>8, <1>7
  <2>2. TreeBut(Matcher.nodes, Matcher.nodeOf, {})
    BY <1>6, <2>1 DEF SlipInv, TreeFits
  <2>3. m.order \in SlipOrders /\ m.key \in SlipPrices /\ m.placed \in BOOLEAN
    BY <1>3 DEF SlipMessages
  <2>4. ~u.moved
    BY <1>4, <1>8
  <2>5. /\ TreeBut(u.nodes, u.nodeOf, {})
        /\ \A q \in SlipOrders, k \in SlipPrices :
              OrderAt(u.nodes, q, k) <=> IF q = m.order THEN m.placed /\ k = m.key ELSE OrderAt(Matcher.nodes, q, k)
    BY <1>6, <2>2, <2>3, <2>4, Updated
  <2> QED
    BY <1>4, <1>6, <2>1, <2>5
<1>9. ASSUME NEW i \in 1 .. n, \A j \in 1 .. n : j > i => c[j].order # c[i].order, NEW k \in SlipPrices
      PROVE  <<c[i].order, k>> \in slipPlaced <=> c[i].placed /\ k = c[i].key
  BY <1>1, <1>9 DEF SlipInv, LastTells
<1>10. ASSUME NEW q \in SlipOrders, Silent(q)'
      PROVE  \A j \in 1 .. n : j > 1 => c[j].order # q
  <2> SUFFICES ASSUME NEW j \in 1 .. n, j > 1 PROVE c[j].order # q
    OBVIOUS
  <2>1. PICK i \in 1 .. n - 1 : j = i + 1
    <3>1. j - 1 \in 1 .. n - 1 /\ j = (j - 1) + 1
      BY <1>1
    <3> QED
      BY <3>1
  <2>2. d[i].order # q
    BY <1>2, <1>3, <1>10 DEF Silent
  <2> QED
    BY <1>3, <2>1, <2>2
<1>11. SlipTypes'
  <2>1. moved' \in BOOLEAN
    BY <1>4, <1>7 DEF SlipInv, SlipTypes
  <2> QED
    BY <1>2, <1>3, <1>5, <2>1 DEF SlipInv, SlipTypes
<1>12. LastTells'
  <2>1. slipChannel' = d /\ Len(slipChannel') = n - 1 /\ slipPlaced' = slipPlaced
    BY <1>2, <1>3, <1>5
  <2> SUFFICES ASSUME NEW i \in 1 .. n - 1, NEW k \in SlipPrices, \A j \in 1 .. n - 1 : j > i => d[j].order # d[i].order
               PROVE  <<d[i].order, k>> \in slipPlaced <=> d[i].placed /\ k = d[i].key
    BY <2>1 DEF LastTells
  <2>2. i + 1 \in 1 .. n /\ d[i] = c[i + 1]
    BY <1>1, <1>3
  <2>3. ASSUME NEW j \in 1 .. n, j > i + 1 PROVE c[j].order # c[i + 1].order
    <3>1. PICK l \in 1 .. n - 1 : j = l + 1 /\ l > i
      <4>1. j - 1 \in 1 .. n - 1 /\ j = (j - 1) + 1 /\ j - 1 > i
        BY <1>1, <2>3
      <4> QED
        BY <4>1
    <3>2. d[l].order # d[i].order /\ d[l] = c[j]
      BY <1>3, <3>1
    <3> QED
      BY <2>2, <3>2
  <2> QED
    BY <1>9, <2>2, <2>3
<1>13. AnswerFits'
  BY <1>5 DEF AnswerFits
<1>14. TreeFits'
  <2>1. ~moved' => TreeBut(nodes, nodeOf, {})'
    BY <1>8
  <2> SUFFICES ASSUME ~gap, ~moved', NEW q \in SlipOrders, NEW k \in SlipPrices, Silent(q)'
               PROVE  OrderAt(nodes', q, k) <=> <<q, k>> \in slipPlaced
    BY <1>5, <2>1 DEF TreeFits
  <2>2. \A j \in 1 .. n : j > 1 => c[j].order # q
    BY <1>10
  <2>3. CASE q = m.order
    <3>1. 1 \in 1 .. n /\ c[1] = m
      BY <1>1, <1>3
    <3>2. <<q, k>> \in slipPlaced <=> m.placed /\ k = m.key
      BY <1>9, <2>2, <2>3, <3>1
    <3> QED
      BY <1>8, <2>3, <3>2
  <2>4. CASE q # m.order
    <3>1. \A j \in 1 .. n : j = 1 \/ j > 1
      BY <1>1
    <3>2. Silent(q)
      BY <1>1, <1>3, <2>2, <2>4, <3>1 DEF Silent
    <3>3. OrderAt(nodes, q, k) <=> <<q, k>> \in slipPlaced
      BY <1>5, <1>8, <3>2 DEF SlipInv, TreeFits
    <3> QED
      BY <1>8, <2>4, <3>3
  <2> QED
    BY <2>3, <2>4
<1> QED
  BY <1>11, <1>12, <1>13, <1>14 DEF SlipInv

LEMMA SubscriptionKeeps ==
    ASSUME SlipInv, OnSubscribed
    PROVE  SlipInv'
<1>1. PICK u : u = Started(snapshot) /\ nodes' = u.nodes /\ nodeOf' = u.nodeOf /\ moved' = u.moved
  BY DEF OnSubscribed, SetMatcher
<1>2. /\ TreeBut(u.nodes, u.nodeOf, {}) /\ u.moved = FALSE
      /\ \A o \in SlipOrders, k \in SlipPrices : OrderAt(u.nodes, o, k) <=> <<o, k>> \in snapshot
  <2>1. snapshot \in SUBSET (SlipOrders \X SlipPrices) /\ OneKey(snapshot)
    BY DEF SlipInv, SlipTypes
  <2> QED
    BY <1>1, <2>1, StartedHolds
<1>3. slipConn = "asked" /\ slipConn' = "on" /\ slipPlaced' = slipPlaced /\ snapshot' = {}
  BY DEF OnSubscribed, slipEngine
<1>4. \/ gap' = FALSE /\ slipChannel' = slipChannel
      \/ gap' = (snapshot # slipPlaced) /\ slipChannel' = <<>>
  BY DEF OnSubscribed
<1>5. SlipTypes'
  <2>1. gap' \in BOOLEAN /\ moved' \in BOOLEAN
    BY <1>1, <1>2, <1>4
  <2>2. slipChannel' \in Seq(SlipMessages)
    <3>1. slipChannel \in Seq(SlipMessages) /\ <<>> \in Seq(SlipMessages)
      BY DEF SlipInv, SlipTypes
    <3> QED
      BY <1>4, <3>1
  <2> QED
    BY <1>3, <2>1, <2>2 DEF SlipInv, SlipTypes, OneKey
<1>6. LastTells'
  <2>1. CASE slipChannel' = slipChannel
    BY <1>3, <2>1 DEF SlipInv, LastTells
  <2>2. CASE slipChannel' = <<>>
    <3>1. Len(slipChannel') = 0
      BY <2>2
    <3> QED
      BY <3>1 DEF LastTells
  <2> QED
    BY <1>4, <2>1, <2>2
<1>7. AnswerFits'
  BY <1>3 DEF AnswerFits
<1>8. ASSUME ~gap', NEW o \in SlipOrders, NEW k \in SlipPrices, Silent(o)'
      PROVE  <<o, k>> \in snapshot <=> <<o, k>> \in slipPlaced
  <2>1. CASE slipChannel' = slipChannel
    <3>1. Silent(o)
      BY <1>8, <2>1 DEF Silent
    <3> QED
      BY <1>3, <3>1 DEF SlipInv, AnswerFits
  <2>2. CASE gap' = (snapshot # slipPlaced)
    BY <1>8, <2>2
  <2> QED
    BY <1>4, <2>1, <2>2
<1>9. TreeFits'
  BY <1>1, <1>2, <1>3, <1>8 DEF TreeFits
<1> QED
  BY <1>5, <1>6, <1>7, <1>9 DEF SlipInv

(* Through any number of amendments, executions and lost connections, the  *)
(* slipstopper watches the placed orders of the engine (OnSubscribed,      *)
(* OnPublication), unless a publication is missed or a successor copied.   *)
THEOREM PlacedStayWatched == SlipSpec => []PlacedAreWatched
<1>1. SlipInv /\ [SlipNext]_slipVars => SlipInv'
  <2> SUFFICES ASSUME SlipInv, [SlipNext]_slipVars PROVE SlipInv'
    OBVIOUS
  <2>1. CASE send_conditional_order
    <3>1. PICK o \in SlipOrders, key \in SlipPrices : slipPlaced' = WithoutOrder(o) \cup {<<o, key>>} /\ Publish(o, key, TRUE)
      BY <2>1 DEF send_conditional_order
    <3>2. UNCHANGED <<slipConn, snapshot, slipClient, gap>>
      BY <2>1 DEF send_conditional_order
    <3>3. slipPlaced' = WithoutOrder(o) \cup (IF TRUE THEN {<<o, key>>} ELSE {})
      BY <3>1
    <3> QED
      BY <3>1, <3>2, <3>3, EngineTells
  <2>2. ASSUME NEW o, NEW key, Ends(o, key) PROVE SlipInv'
    <3>1. o \in SlipOrders /\ key \in SlipPrices /\ slipPlaced' = WithoutOrder(o) /\ Publish(o, key, FALSE)
      BY <2>2 DEF Ends, SlipInv, SlipTypes
    <3>2. UNCHANGED <<slipConn, snapshot, slipClient, gap>>
      BY <2>2 DEF Ends
    <3>3. slipPlaced' = WithoutOrder(o) \cup (IF FALSE THEN {<<o, key>>} ELSE {})
      BY <3>1
    <3> QED
      BY <3>1, <3>2, <3>3, EngineTells
  <2>3. CASE OrderCanceled \/ OnPriceUpdate
    BY <2>2, <2>3 DEF OrderCanceled, OnPriceUpdate
  <2>4. CASE RunProxy \/ Disconnected \/ UNCHANGED slipVars
    <3>1. /\ UNCHANGED <<slipPlaced, slipChannel, nodes, nodeOf, moved, gap>>
          /\ \/ slipConn' = "asked" /\ snapshot' = slipPlaced
             \/ slipConn' = "off" /\ snapshot' = {}
             \/ slipConn' = slipConn /\ snapshot' = snapshot
      BY <2>4 DEF RunProxy, Disconnected, slipVars, slipEngine, slipClient
    <3>2. SlipTypes'
      BY <3>1 DEF SlipInv, SlipTypes, OneKey
    <3>3. LastTells'
      BY <3>1 DEF SlipInv, LastTells
    <3>4. \A o : Silent(o)' = Silent(o)
      BY <3>1 DEF Silent
    <3>5. AnswerFits'
      BY <3>1, <3>4 DEF SlipInv, AnswerFits
    <3>6. TreeFits'
      BY <3>1, <3>4 DEF SlipInv, TreeFits
    <3> QED
      BY <3>2, <3>3, <3>5, <3>6 DEF SlipInv
  <2> QED
    BY <2>1, <2>3, <2>4, PublicationKeeps, SubscriptionKeeps DEF SlipNext
<1>2. SlipInv => PlacedAreWatched
  <2> SUFFICES ASSUME SlipInv, slipConn = "on", slipChannel = <<>>, ~gap, ~moved
               PROVE  /\ Watched = slipPlaced
                      /\ \A o \in SlipOrders : nodeOf[o] # 0 => nodes[nodeOf[o]].live /\ o \in nodes[nodeOf[o]].orders
    BY DEF PlacedAreWatched
  <2>1. \A o : Silent(o)
    BY DEF Silent
  <2>2. \A o \in SlipOrders, k \in SlipPrices : OrderAt(nodes, o, k) <=> <<o, k>> \in slipPlaced
    BY <2>1 DEF SlipInv, TreeFits
  <2>3. \A o \in SlipOrders, k \in SlipPrices : OrderAt(nodes, o, k) <=> <<o, k>> \in Watched
    BY DEF OrderAt, Watched, LiveNodes, Matcher
  <2>4. Watched \in SUBSET (SlipOrders \X SlipPrices) /\ slipPlaced \in SUBSET (SlipOrders \X SlipPrices)
    BY DEF Watched, SlipInv, SlipTypes
  <2>5. Watched = slipPlaced
    <3>1. \A o \in SlipOrders, k \in SlipPrices : <<o, k>> \in slipPlaced <=> <<o, k>> \in Watched
      BY <2>2, <2>3
    <3>2. \A p \in SlipOrders \X SlipPrices : p \in slipPlaced <=> p \in Watched
      BY <3>1
    <3> QED
      BY <2>4, <3>2
  <2>6. TreeBut(nodes, nodeOf, {})
    BY DEF SlipInv, TreeFits
  <2> QED
    BY <2>5, <2>6, NodesNumbered DEF TreeBut
<1> QED
  BY <1>1, <1>2, SlipInitHolds, PTL DEF SlipSpec

-------------------------------------------------------------------------------
(* The liquidation service.                                                *)

(* A task of the queue that trades the position of t, and one that cancels *)
(* the orders of t.                                                        *)
Trades(task, t) == task.trader = t /\ task.kind # "cancelall"
Cancels(task, t) == task.trader = t /\ task.kind = "cancelall"

LiqTasks == {task \in [kind : {"cancelall", "sell", "takeover"}, trader : Debtors, size : Nat] :
                task.kind = "cancelall" => task.size = 0}

NoTradeIn(q, t) == \A i \in DOMAIN q : ~Trades(q[i], t)
NoCancelIn(q, t) == \A i \in DOMAIN q : ~Cancels(q[i], t)

(* A queue holds one trade of a trader at most, and that before a          *)
(* cancelall.                                                              *)
QueueFits(q, t) ==
    /\ \A i, j \in DOMAIN q : Trades(q[i], t) /\ Trades(q[j], t) => i = j
    /\ \A i, j \in DOMAIN q : Trades(q[i], t) /\ Cancels(q[j], t) => i < j

SizesOf(q, t) == [i \in DOMAIN q |-> IF q[i].trader = t THEN q[i].size ELSE 0]

LEMMA SizesSum ==
    ASSUME NEW q \in Seq(LiqTasks), NEW t
    PROVE  /\ QueuedIn(q, t) = SumFunctionOnSet(SizesOf(q, t), DOMAIN q)
           /\ IsFiniteSet(DOMAIN q)
           /\ \A i \in DOMAIN q : SizesOf(q, t)[i] \in Nat
<1>1. DOMAIN q = 1 .. Len(q) /\ Len(q) \in Nat /\ \A i \in DOMAIN q : q[i] \in LiqTasks
  OBVIOUS
<1>2. IsFiniteSet(DOMAIN q)
  BY <1>1, FS_Interval
<1>3. \A i \in DOMAIN q : q[i].size \in Nat
  BY <1>1 DEF LiqTasks
<1> QED
  BY <1>2, <1>3 DEF QueuedIn, SizesOf

(* Without a trade nothing is queued.                                      *)
LEMMA QueuedNone ==
    ASSUME NEW q \in Seq(LiqTasks), NEW t, NoTradeIn(q, t)
    PROVE  QueuedIn(q, t) = 0
<1>1. \A i \in DOMAIN q : SizesOf(q, t)[i] = 0
  <2> SUFFICES ASSUME NEW i \in DOMAIN q PROVE SizesOf(q, t)[i] = 0
    OBVIOUS
  <2>1. q[i] \in LiqTasks
    OBVIOUS
  <2> QED
    BY <2>1 DEF SizesOf, LiqTasks, NoTradeIn, Trades
<1> QED
  BY <1>1, SizesSum, SumZero

(* With one trade, its size is.                                            *)
LEMMA QueuedOne ==
    ASSUME NEW q \in Seq(LiqTasks), NEW t, QueueFits(q, t), NEW i \in DOMAIN q, Trades(q[i], t)
    PROVE  QueuedIn(q, t) = q[i].size
<1>1. \A j \in DOMAIN q \ {i} : SizesOf(q, t)[j] = 0
  <2> SUFFICES ASSUME NEW j \in DOMAIN q \ {i} PROVE SizesOf(q, t)[j] = 0
    OBVIOUS
  <2>1. q[j] \in LiqTasks
    OBVIOUS
  <2>2. ~Trades(q[j], t)
    BY DEF QueueFits
  <2> QED
    BY <2>1, <2>2 DEF SizesOf, LiqTasks, Trades
<1>2. IsFiniteSet(DOMAIN q \ {i})
  BY SizesSum, FS_Subset
<1>3. SumFunctionOnSet(SizesOf(q, t), DOMAIN q \ {i}) = 0
  BY <1>1, <1>2, SumZero
<1>4. SumFunctionOnSet(SizesOf(q, t), DOMAIN q)
        = SizesOf(q, t)[i] + SumFunctionOnSet(SizesOf(q, t), DOMAIN q \ {i})
  <2>1. IsFiniteSet(DOMAIN q) /\ \A j \in DOMAIN q : SizesOf(q, t)[j] \in Int
    BY SizesSum
  <2> QED
    BY <2>1, SumSplit
<1>5. SizesOf(q, t)[i] = q[i].size /\ q[i].size \in Nat
  <2>1. q[i] \in LiqTasks
    OBVIOUS
  <2> QED
    BY <2>1 DEF SizesOf, Trades, LiqTasks
<1> QED
  BY <1>3, <1>4, <1>5, SizesSum

LEMMA QueuedNat ==
    ASSUME NEW q \in Seq(LiqTasks), NEW t
    PROVE  QueuedIn(q, t) \in Nat
  BY SizesSum, SumNat

(* What taking the first task does.                                        *)
LEMMA TakenTask ==
    ASSUME NEW q \in Seq(LiqTasks), q # <<>>, NEW t, QueueFits(q, t)
    PROVE  /\ Tail(q) \in Seq(LiqTasks) /\ Head(q) \in LiqTasks
           /\ QueueFits(Tail(q), t)
           /\ NoTradeIn(q, t) => NoTradeIn(Tail(q), t)
           /\ NoCancelIn(q, t) => NoCancelIn(Tail(q), t)
           /\ ~NoCancelIn(q, t) => ~NoCancelIn(Tail(q), t) \/ Cancels(Head(q), t)
           /\ Trades(Head(q), t) => /\ QueuedIn(q, t) = Head(q).size
                                    /\ NoTradeIn(Tail(q), t) /\ QueuedIn(Tail(q), t) = 0
           /\ Cancels(Head(q), t) => NoTradeIn(Tail(q), t)
           /\ ~Trades(Head(q), t) => QueuedIn(Tail(q), t) = QueuedIn(q, t)
<1> DEFINE r == Tail(q)
<1>1. /\ r \in Seq(LiqTasks) /\ Head(q) \in LiqTasks /\ Head(q) = q[1] /\ 1 \in DOMAIN q
      /\ DOMAIN q = 1 .. Len(q) /\ DOMAIN r = 1 .. Len(q) - 1 /\ Len(q) \in Nat \ {0}
      /\ \A i \in DOMAIN r : r[i] = q[i + 1] /\ i + 1 \in DOMAIN q /\ i \in Nat
  OBVIOUS
<1>2. \A j \in DOMAIN q : j # 1 => j - 1 \in DOMAIN r /\ q[j] = r[j - 1]
  <2> SUFFICES ASSUME NEW j \in DOMAIN q, j # 1 PROVE j - 1 \in DOMAIN r /\ q[j] = r[j - 1]
    OBVIOUS
  <2>1. j - 1 \in DOMAIN r /\ (j - 1) + 1 = j
    BY <1>1
  <2> QED
    BY <1>1, <2>1
<1> HIDE DEF r
<1>3. QueueFits(r, t)
  <2> USE DEF QueueFits
  <2>1. ASSUME NEW i \in DOMAIN r, NEW j \in DOMAIN r, Trades(r[i], t)
        PROVE  (Trades(r[j], t) => i = j) /\ (Cancels(r[j], t) => i < j)
    <3>1. i + 1 \in DOMAIN q /\ j + 1 \in DOMAIN q /\ r[i] = q[i + 1] /\ r[j] = q[j + 1] /\ i \in Nat /\ j \in Nat
      BY <1>1
    <3>2. Trades(q[i + 1], t)
      BY <2>1, <3>1
    <3>3. (Trades(q[j + 1], t) => i + 1 = j + 1) /\ (Cancels(q[j + 1], t) => i + 1 < j + 1)
      BY <3>1, <3>2
    <3> QED
      BY <3>1, <3>3
  <2> QED
    BY <2>1
<1>4. NoTradeIn(q, t) => NoTradeIn(r, t)
  BY <1>1 DEF NoTradeIn
<1>5. NoCancelIn(q, t) => NoCancelIn(r, t)
  BY <1>1 DEF NoCancelIn
<1>6. ~NoCancelIn(q, t) => ~NoCancelIn(r, t) \/ Cancels(Head(q), t)
  BY <1>1, <1>2 DEF NoCancelIn
<1>7. ASSUME Trades(Head(q), t)
      PROVE  QueuedIn(q, t) = Head(q).size /\ NoTradeIn(r, t) /\ QueuedIn(r, t) = 0
  <2>1. NoTradeIn(r, t)
    <3> SUFFICES ASSUME NEW i \in DOMAIN r, Trades(r[i], t) PROVE FALSE
      BY DEF NoTradeIn
    <3>1. i + 1 \in DOMAIN q /\ Trades(q[i + 1], t) /\ i + 1 # 1
      BY <1>1
    <3> QED
      BY <1>1, <1>7, <3>1 DEF QueueFits
  <2> QED
    BY <1>1, <1>7, <2>1, QueuedOne, QueuedNone
<1>8. ASSUME Cancels(Head(q), t) PROVE NoTradeIn(r, t)
  <2> SUFFICES ASSUME NEW i \in DOMAIN r, Trades(r[i], t) PROVE FALSE
    BY DEF NoTradeIn
  <2>1. i + 1 \in DOMAIN q /\ Trades(q[i + 1], t) /\ ~(i + 1 < 1)
    BY <1>1
  <2> QED
    BY <1>1, <1>8, <2>1 DEF QueueFits
<1>9. ASSUME ~Trades(Head(q), t) PROVE QueuedIn(r, t) = QueuedIn(q, t)
  <2>1. CASE NoTradeIn(q, t)
    BY <1>1, <1>4, <2>1, QueuedNone
  <2>2. CASE ~NoTradeIn(q, t)
    <3>1. PICK j \in DOMAIN q : Trades(q[j], t)
      BY <2>2 DEF NoTradeIn
    <3>2. j # 1
      BY <1>1, <1>9, <3>1
    <3>3. j - 1 \in DOMAIN r /\ q[j] = r[j - 1]
      BY <1>2, <3>2
    <3>4. QueuedIn(q, t) = q[j].size
      BY <3>1, QueuedOne
    <3>5. QueuedIn(r, t) = r[j - 1].size
      BY <1>1, <1>3, <3>1, <3>3, QueuedOne
    <3> QED
      BY <3>3, <3>4, <3>5
  <2> QED
    BY <2>1, <2>2
<1> QED
  BY <1>1, <1>3, <1>4, <1>5, <1>6, <1>7, <1>8, <1>9 DEF r

(* What a queued task does: a cancelall can come at any time, a trade only *)
(* when there is neither a trade nor a cancelall of its trader.            *)
LEMMA QueuedTask ==
    ASSUME NEW q \in Seq(LiqTasks), NEW a \in LiqTasks, NEW t, QueueFits(q, t),
           Trades(a, t) => NoTradeIn(q, t) /\ NoCancelIn(q, t)
    PROVE  /\ Append(q, a) \in Seq(LiqTasks)
           /\ QueueFits(Append(q, a), t)
           /\ Trades(a, t) => QueuedIn(Append(q, a), t) = a.size
           /\ ~Trades(a, t) => /\ QueuedIn(Append(q, a), t) = QueuedIn(q, t)
                               /\ NoTradeIn(q, t) => NoTradeIn(Append(q, a), t)
           /\ ~NoCancelIn(q, t) \/ Cancels(a, t) => ~NoCancelIn(Append(q, a), t)
<1> DEFINE r == Append(q, a)
           n == Len(q) + 1
<1>1. /\ r \in Seq(LiqTasks) /\ r[n] = a /\ n \in DOMAIN r /\ n \in Nat
      /\ DOMAIN q = 1 .. Len(q) /\ DOMAIN r = 1 .. n /\ Len(q) \in Nat
      /\ \A i \in DOMAIN q : r[i] = q[i] /\ i \in DOMAIN r /\ i < n
      /\ \A i \in DOMAIN r : i # n => i \in DOMAIN q /\ r[i] = q[i]
  OBVIOUS
<1> HIDE DEF r, n
<1>2. QueueFits(r, t)
  <2>1. ASSUME NEW i \in DOMAIN r, NEW j \in DOMAIN r, Trades(r[i], t)
        PROVE  (Trades(r[j], t) => i = j) /\ (Cancels(r[j], t) => i < j)
    <3>1. CASE i = n /\ j = n
      BY <1>1, <2>1, <3>1 DEF Trades, Cancels
    <3>2. CASE i = n /\ j # n
      BY <1>1, <2>1, <3>2 DEF NoTradeIn, NoCancelIn
    <3>3. CASE i # n /\ j = n
      BY <1>1, <2>1, <3>3 DEF NoTradeIn, NoCancelIn
    <3>4. CASE i # n /\ j # n
      BY <1>1, <2>1, <3>4 DEF QueueFits
    <3> QED
      BY <3>1, <3>2, <3>3, <3>4
  <2> QED
    BY <2>1 DEF QueueFits
<1>3. ASSUME Trades(a, t) PROVE QueuedIn(r, t) = a.size
  BY <1>1, <1>2, <1>3, QueuedOne
<1>4. ASSUME ~Trades(a, t), NoTradeIn(q, t) PROVE NoTradeIn(r, t)
  BY <1>1, <1>4 DEF NoTradeIn
<1>5. ASSUME ~Trades(a, t) PROVE QueuedIn(r, t) = QueuedIn(q, t)
  <2>1. CASE NoTradeIn(q, t)
    BY <1>1, <1>4, <1>5, <2>1, QueuedNone
  <2>2. CASE ~NoTradeIn(q, t)
    <3>1. PICK j \in DOMAIN q : Trades(q[j], t)
      BY <2>2 DEF NoTradeIn
    <3>2. j \in DOMAIN r /\ r[j] = q[j]
      BY <1>1
    <3> QED
      BY <1>1, <1>2, <3>1, <3>2, QueuedOne
  <2> QED
    BY <2>1, <2>2
<1>6. ~NoCancelIn(q, t) \/ Cancels(a, t) => ~NoCancelIn(r, t)
  BY <1>1 DEF NoCancelIn
<1> QED
  BY <1>1, <1>2, <1>3, <1>4, <1>5, <1>6 DEF r

-------------------------------------------------------------------------------
LiqRows == [id : Debtors, margin : Int, recent : BOOLEAN]

LiqTypes ==
    /\ margin \in [Debtors -> Int] /\ known \in [Debtors -> Int]
    /\ held \in [Debtors -> Int] /\ resting \in [Debtors -> Int]
    /\ liqStatus \in [Debtors -> {"active", "liquidating"}]
    /\ cacheRow \in [Debtors -> [status : {"active", "liquidating"}, margin : Int]]
    /\ urgent \in Seq(LiqTasks)
    /\ round \in [pc : {"batch", "next", "waiting", "acting"}, last : Nat,
                  batch : SUBSET LiqRows, size : Nat]

(* Nothing of a trader's liquidation is in the book or in the queue.       *)
Cleared(t) == resting[t] = 0 /\ NoTradeIn(urgent, t)

TraderInv(t) ==
    /\ QueueFits(urgent, t)
    /\ t \notin disturbed => LiquidationWithinPosition(t)

(* Behind the cancelall of the round nothing is left of a trader's earlier *)
(* liquidation, and the positions that were read still hold, unless an     *)
(* order of the trader's own came in between.                              *)
RoundInv ==
    /\ round.pc # "batch" => round.batch # {}
    /\ round.pc = "waiting" => ~NoCancelIn(urgent, Current.id) \/ Cleared(Current.id)
    /\ round.pc = "acting" => /\ Cleared(Current.id) /\ NoCancelIn(urgent, Current.id)
                              /\ Current.id \in disturbed \/ round.size = Abs(held[Current.id])

LiqInv == LiqTypes /\ (\A t \in Debtors : TraderInv(t)) /\ RoundInv

LEMMA CurrentRow ==
    ASSUME LiqTypes, round.batch # {}
    PROVE  Current \in round.batch /\ Current.id \in Debtors
<1> DEFINE S == {row.id : row \in round.batch}
<1>1. round.batch \in SUBSET LiqRows
  BY DEF LiqTypes
<1>2. S \in SUBSET Nat /\ S # {}
  <2>1. \A row \in round.batch : row.id \in Nat
    BY <1>1, LiquidationsAssumption DEF LiqRows
  <2> QED
    BY <2>1
<1>3. Min(S) \in S /\ \A y \in S : Min(S) <= y
  <2> HIDE DEF S
  <2> QED
    BY <1>2, LeastNumber
<1>4. \E row \in round.batch : \A other \in round.batch : row.id <= other.id
  BY <1>3
<1>5. Current \in round.batch
  BY <1>4 DEF Current
<1> QED
  BY <1>1, <1>5 DEF LiqRows

LEMMA LiqInitHolds == LiqInit => LiqInv
<1> SUFFICES ASSUME LiqInit PROVE LiqInv
  OBVIOUS
<1>1. urgent = <<>> /\ urgent \in Seq(LiqTasks) /\ DOMAIN urgent = {}
  BY DEF LiqInit
<1>2. LiqTypes
  <2>1. NoRound \in [pc : {"batch", "next", "waiting", "acting"}, last : Nat,
                     batch : SUBSET LiqRows, size : Nat]
    BY DEF NoRound
  <2> QED
    BY <1>1, <2>1, LiquidationsAssumption DEF LiqInit, LiqTypes, NoNotional
<1>3. ASSUME NEW t \in Debtors PROVE TraderInv(t)
  <2>1. QueueFits(urgent, t) /\ NoTradeIn(urgent, t)
    BY <1>1 DEF QueueFits, NoTradeIn
  <2>2. Queued(t) = 0
    BY <1>1, <2>1, QueuedNone DEF Queued
  <2>3. resting[t] = 0 /\ held[t] \in Nat
    BY LiquidationsAssumption DEF LiqInit
  <2> QED
    BY <2>1, <2>2, <2>3 DEF TraderInv, LiquidationWithinPosition, Abs
<1>4. RoundInv
  BY DEF LiqInit, NoRound, RoundInv
<1> QED
  BY <1>2, <1>3, <1>4 DEF LiqInv

(* A step of the engine for one trader.                                    *)
LEMMA OneTraderMoves ==
    ASSUME LiqInv, UNCHANGED round, LiqTypes', NEW t \in Debtors,
           \A u \in Debtors : /\ QueueFits(urgent', u)
                              /\ NoTradeIn(urgent, u) => NoTradeIn(urgent', u)
                              /\ NoCancelIn(urgent, u) => NoCancelIn(urgent', u),
           \A u \in Debtors \ {t} :
              /\ held'[u] = held[u] /\ resting'[u] = resting[u]
              /\ u \in disturbed' <=> u \in disturbed
              /\ QueuedIn(urgent', u) = QueuedIn(urgent, u)
              /\ ~NoCancelIn(urgent, u) => ~NoCancelIn(urgent', u),
           t \notin disturbed' => LiquidationWithinPosition(t)',
           NoCancelIn(urgent', t) => NoCancelIn(urgent, t) \/ Cleared(t)',
           Cleared(t) => Cleared(t)' /\ (t \in disturbed' \/ (t \notin disturbed /\ held'[t] = held[t]))
    PROVE  LiqInv'
<1>1. ASSUME NEW u \in Debtors PROVE TraderInv(u)'
  <2>1. QueueFits(urgent', u)
    OBVIOUS
  <2>2. CASE u = t
    BY <2>1, <2>2 DEF TraderInv
  <2>3. CASE u # t
    <3>1. TraderInv(u)
      BY DEF LiqInv
    <3> QED
      BY <2>1, <2>3, <3>1 DEF TraderInv, LiquidationWithinPosition, Queued
  <2> QED
    BY <2>2, <2>3
<1>2. RoundInv'
  <2>1. CASE round.pc = "batch" \/ round.pc = "next"
    BY <2>1 DEF LiqInv, RoundInv
  <2>2. PICK u : u = Current.id
    OBVIOUS
  <2>4. Current.id' = u
    BY <2>2 DEF Current
  <2>3. CASE round.pc \in {"waiting", "acting"}
    <3>1. u \in Debtors /\ round.batch # {}
      BY <2>2, <2>3, CurrentRow DEF LiqInv, RoundInv
    <3>2. Cleared(u) => Cleared(u)'
      BY <3>1 DEF Cleared
    <3>3. ~NoCancelIn(urgent, u) => ~NoCancelIn(urgent', u) \/ Cleared(u)'
      BY <3>1
    <3>4. Cleared(u) => \/ u \in disturbed'
                        \/ u \notin disturbed /\ held'[u] = held[u]
      BY <3>1
    <3>5. round.pc = "waiting" => ~NoCancelIn(urgent, u) \/ Cleared(u)
      BY <2>2 DEF LiqInv, RoundInv
    <3>6. round.pc = "acting" => /\ Cleared(u) /\ NoCancelIn(urgent, u)
                                 /\ u \in disturbed \/ round.size = Abs(held[u])
      BY <2>2 DEF LiqInv, RoundInv
    <3>7. round.pc = "waiting" => ~NoCancelIn(urgent', u) \/ Cleared(u)'
      BY <3>2, <3>3, <3>5
    <3>8. round.pc = "acting" => /\ Cleared(u)' /\ NoCancelIn(urgent', u)
                                 /\ u \in disturbed' \/ round.size = Abs(held'[u])
      BY <3>1, <3>2, <3>4, <3>6
    <3> QED
      BY <2>4, <3>1, <3>7, <3>8 DEF RoundInv
  <2> QED
    BY <2>1, <2>3 DEF LiqInv, LiqTypes
<1> QED
  BY <1>1, <1>2 DEF LiqInv

(* What the other variables do leaves the positions alone.                 *)
LEMMA OthersMove ==
    ASSUME LiqInv, LiqTypes', UNCHANGED <<held, resting, urgent, disturbed, round>>
    PROVE  LiqInv'
<1>1. ASSUME NEW t \in Debtors PROVE TraderInv(t)'
  <2>1. TraderInv(t)
    BY DEF LiqInv
  <2> QED
    BY <2>1 DEF TraderInv, LiquidationWithinPosition, Queued
<1>2. RoundInv'
  <2>1. Current' = Current
    BY DEF Current
  <2> QED
    BY <2>1 DEF LiqInv, RoundInv, Cleared
<1> QED
  BY <1>1, <1>2 DEF LiqInv

-------------------------------------------------------------------------------
(* A fill closes a part of the position that the liquidation may trade.    *)
LEMMA FillWithin ==
    ASSUME NEW h \in Int, NEW r \in Int, NEW n \in Nat, r # 0, Abs(r) + n <= Abs(h), Side(r) = Side(h)
    PROVE  /\ Abs(r - Side(r)) + n <= Abs(h - Side(r))
           /\ r - Side(r) = 0 \/ Side(r - Side(r)) = Side(h - Side(r))
  BY DEF Abs, Side

LEMMA SellWithin ==
    ASSUME NEW h \in Int, NEW r \in Int, NEW n \in Nat, Abs(r) + n <= Abs(h), r = 0 \/ Side(r) = Side(h)
    PROVE  /\ Abs(r + Side(h) * n) <= Abs(h)
           /\ r + Side(h) * n = 0 \/ Side(r + Side(h) * n) = Side(h)
  BY DEF Abs, Side

LEMMA TakeoverWithin ==
    ASSUME NEW h \in Int, NEW r \in Int, NEW n \in Nat, Abs(r) + n <= Abs(h), r = 0 \/ Side(r) = Side(h)
    PROVE  /\ Abs(r) <= Abs(h - Side(h) * n)
           /\ r = 0 \/ Side(r) = Side(h - Side(h) * n)
  BY DEF Abs, Side

LEMMA SellTypes ==
    ASSUME LiqTypes, NEW t \in Debtors, NEW n \in Int, Sell(t, n)
    PROVE  /\ margin' \in [Debtors -> Int] /\ held' \in [Debtors -> Int]
           /\ held'[t] = held[t] - n
           /\ \A u \in Debtors \ {t} : held'[u] = held[u]
<1>1. held[t] - n \in Int
  BY DEF LiqTypes
<1>2. held' = [held EXCEPT ![t] = held[t] - n]
  BY DEF Sell
<1>3. held' \in [Debtors -> Int] /\ held'[t] = held[t] - n /\ \A u \in Debtors \ {t} : held'[u] = held[u]
  BY <1>1, <1>2 DEF LiqTypes
<1>4. margin' \in [Debtors -> Int]
  BY DEF Sell, LiqTypes, NoNotional
<1> QED
  BY <1>3, <1>4

LEMMA OwnOrderKeeps ==
    ASSUME LiqInv, NEW t \in Debtors, HandleOwnOrder(t)
    PROVE  LiqInv'
<1>1. /\ UNCHANGED <<urgent, resting, known, liqStatus, cacheRow, round>>
      /\ disturbed' = disturbed \cup {t} /\ Sell(t, 1)
  BY DEF HandleOwnOrder, serviceVars
<1>2. LiqTypes'
  BY <1>1, SellTypes DEF LiqInv, LiqTypes
<1>3. /\ \A u \in Debtors \ {t} : held'[u] = held[u]
      /\ Cleared(t) => Cleared(t)'
  BY <1>1, SellTypes DEF LiqInv, Cleared
<1>4. \A u \in Debtors : QueueFits(urgent', u)
  BY <1>1 DEF LiqInv, TraderInv
<1>5. t \in disturbed' /\ \A u \in Debtors \ {t} : u \in disturbed' <=> u \in disturbed
  BY <1>1
<1> QED
  BY <1>1, <1>2, <1>3, <1>4, <1>5, OneTraderMoves

LEMMA FillKeeps ==
    ASSUME LiqInv, NEW t \in Debtors, FillResting(t)
    PROVE  LiqInv'
<1>1. /\ UNCHANGED <<urgent, known, liqStatus, cacheRow, round, disturbed>>
      /\ resting[t] # 0 /\ resting' = [resting EXCEPT ![t] = resting[t] - Side(resting[t])]
      /\ Sell(t, Side(resting[t]))
  BY DEF FillResting, serviceVars
<1>2. resting[t] \in Int /\ held[t] \in Int /\ Side(resting[t]) \in Int
  BY DEF LiqInv, LiqTypes, Side
<1>3. /\ resting' \in [Debtors -> Int] /\ resting'[t] = resting[t] - Side(resting[t])
      /\ \A u \in Debtors \ {t} : resting'[u] = resting[u]
  BY <1>1, <1>2 DEF LiqInv, LiqTypes
<1>4. /\ margin' \in [Debtors -> Int] /\ held' \in [Debtors -> Int]
      /\ held'[t] = held[t] - Side(resting[t])
      /\ \A u \in Debtors \ {t} : held'[u] = held[u]
  BY <1>1, <1>2, SellTypes DEF LiqInv
<1>5. LiqTypes'
  BY <1>1, <1>3, <1>4 DEF LiqInv, LiqTypes
<1>6. ASSUME t \notin disturbed PROVE LiquidationWithinPosition(t)'
  <2>1. LiquidationWithinPosition(t)
    BY <1>6 DEF LiqInv, TraderInv
  <2>2. Queued(t) \in Nat /\ Queued(t)' = Queued(t)
    BY <1>1, QueuedNat DEF Queued, LiqInv, LiqTypes
  <2>3. /\ Abs(resting[t] - Side(resting[t])) + Queued(t) <= Abs(held[t] - Side(resting[t]))
        /\ \/ resting[t] - Side(resting[t]) = 0
           \/ Side(resting[t] - Side(resting[t])) = Side(held[t] - Side(resting[t]))
    BY <1>1, <1>2, <2>1, <2>2, FillWithin DEF LiquidationWithinPosition
  <2> QED
    BY <1>3, <1>4, <2>2, <2>3 DEF LiquidationWithinPosition
<1>7. ~Cleared(t)
  BY <1>1 DEF Cleared
<1>8. \A u \in Debtors : QueueFits(urgent', u)
  BY <1>1 DEF LiqInv, TraderInv
<1> QED
  BY <1>1, <1>3, <1>4, <1>5, <1>6, <1>7, <1>8, OneTraderMoves

LEMMA UrgentKeeps ==
    ASSUME LiqInv, HandleUrgent
    PROVE  LiqInv'
<1>1. PICK task : task = Head(urgent)
  OBVIOUS
<1>2. PICK t : t = task.trader
  OBVIOUS
<1>3. /\ urgent # <<>> /\ urgent' = Tail(urgent) /\ urgent \in Seq(LiqTasks)
      /\ UNCHANGED <<known, liqStatus, cacheRow, round, disturbed>>
  BY DEF HandleUrgent, LiqInv, LiqTypes, serviceVars
<1>4. PICK q \in Seq(LiqTasks) : q = urgent
  BY <1>3
<1>5. task \in LiqTasks /\ urgent' = Tail(q) /\ q # <<>> /\ task = Head(q) /\ urgent' \in Seq(LiqTasks)
  BY <1>1, <1>3, <1>4
<1>6. t \in Debtors /\ task.size \in Nat /\ task.kind \in {"cancelall", "sell", "takeover"}
  BY <1>2, <1>5 DEF LiqTasks
<1>7. \A u \in Debtors : QueueFits(q, u)
  BY <1>4 DEF LiqInv, TraderInv
<1>8. \A u \in Debtors : /\ QueueFits(urgent', u)
                         /\ NoTradeIn(urgent, u) => NoTradeIn(urgent', u)
                         /\ NoCancelIn(urgent, u) => NoCancelIn(urgent', u)
  BY <1>4, <1>5, <1>7, TakenTask
<1>9. \A u \in Debtors \ {t} : /\ QueuedIn(urgent', u) = QueuedIn(urgent, u)
                               /\ ~NoCancelIn(urgent, u) => ~NoCancelIn(urgent', u)
  <2>1. \A u \in Debtors \ {t} : ~Trades(task, u) /\ ~Cancels(task, u)
    BY <1>2 DEF Trades, Cancels
  <2> QED
    BY <1>4, <1>5, <1>7, <2>1, TakenTask
<1>10. held[t] \in Int /\ resting[t] \in Int /\ Side(held[t]) \in Int
  BY <1>6 DEF LiqInv, LiqTypes, Side
<1>11. CASE task.kind = "cancelall"
  <2>1. /\ resting' = [resting EXCEPT ![t] = 0] /\ UNCHANGED <<held, margin>>
    BY <1>1, <1>2, <1>11 DEF HandleUrgent
  <2>2. LiqTypes'
    <3>1. resting' \in [Debtors -> Int]
      <4>1. resting \in [Debtors -> Int] /\ 0 \in Int
        BY DEF LiqInv, LiqTypes
      <4> QED
        BY <2>1, <4>1
    <3> QED
      BY <1>3, <1>5, <2>1, <3>1 DEF LiqInv, LiqTypes
  <2>3. resting'[t] = 0 /\ \A u \in Debtors \ {t} : resting'[u] = resting[u]
    BY <1>6, <2>1 DEF LiqInv, LiqTypes
  <2>4. Cancels(task, t)
    BY <1>2, <1>11 DEF Cancels
  <2>5. Cleared(t)' /\ QueuedIn(urgent', t) = 0
    <3>1. NoTradeIn(urgent', t)
      BY <1>4, <1>5, <1>6, <1>7, <2>4, TakenTask
    <3> QED
      BY <1>5, <2>3, <3>1, QueuedNone DEF Cleared
  <2>6. LiquidationWithinPosition(t)'
    BY <2>1, <2>3, <2>5, <1>10 DEF LiquidationWithinPosition, Queued, Abs
  <2>7. Cleared(t) => Cleared(t)' /\ (t \in disturbed' \/ (t \notin disturbed /\ held'[t] = held[t]))
    BY <1>3, <2>1, <2>5
  <2> QED
    BY <1>3, <1>6, <1>8, <1>9, <2>1, <2>2, <2>3, <2>5, <2>6, <2>7, OneTraderMoves
<1>12. ASSUME task.kind # "cancelall"
       PROVE  /\ QueuedIn(urgent, t) = task.size /\ QueuedIn(urgent', t) = 0
              /\ ~NoCancelIn(urgent, t) => ~NoCancelIn(urgent', t)
              /\ ~Cleared(t)
  <2>1. Trades(task, t) /\ ~Cancels(task, t)
    BY <1>2, <1>12 DEF Trades, Cancels
  <2>2. ~NoTradeIn(q, t)
    BY <1>5, <2>1 DEF NoTradeIn
  <2> QED
    BY <1>4, <1>5, <1>6, <1>7, <2>1, <2>2, TakenTask DEF Cleared
<1>13. CASE task.kind = "sell"
  <2>1. /\ resting' = [resting EXCEPT ![t] = resting[t] + Side(held[t]) * task.size]
        /\ UNCHANGED <<held, margin>>
    BY <1>1, <1>2, <1>13 DEF HandleUrgent
  <2>2. resting[t] + Side(held[t]) * task.size \in Int
    BY <1>6, <1>10
  <2>3. LiqTypes'
    <3>1. resting' \in [Debtors -> Int]
      BY <1>6, <2>1, <2>2 DEF LiqInv, LiqTypes
    <3> QED
      BY <1>3, <1>5, <2>1, <3>1 DEF LiqInv, LiqTypes
  <2>4. /\ resting'[t] = resting[t] + Side(held[t]) * task.size
        /\ \A u \in Debtors \ {t} : resting'[u] = resting[u]
    BY <1>6, <2>1 DEF LiqInv, LiqTypes
  <2>5. ASSUME t \notin disturbed PROVE LiquidationWithinPosition(t)'
    <3>1. LiquidationWithinPosition(t)
      BY <1>6, <2>5 DEF LiqInv, TraderInv
    <3>2. /\ Abs(resting[t]) + task.size <= Abs(held[t])
          /\ resting[t] = 0 \/ Side(resting[t]) = Side(held[t])
      BY <1>12, <1>13, <3>1 DEF LiquidationWithinPosition, Queued
    <3>3. /\ Abs(resting'[t]) <= Abs(held[t])
          /\ resting'[t] = 0 \/ Side(resting'[t]) = Side(held[t])
      BY <1>6, <1>10, <2>4, <3>2, SellWithin
    <3>4. Abs(resting'[t]) \in Int
      BY <2>2, <2>4 DEF Abs
    <3> QED
      BY <1>12, <1>13, <2>1, <3>3, <3>4 DEF LiquidationWithinPosition, Queued
  <2> QED
    BY <1>3, <1>6, <1>8, <1>9, <1>12, <1>13, <2>1, <2>3, <2>4, <2>5, OneTraderMoves
<1>14. CASE task.kind = "takeover"
  <2>1. /\ UNCHANGED resting /\ Sell(t, Side(held[t]) * task.size)
    BY <1>1, <1>2, <1>14 DEF HandleUrgent
  <2>2. Side(held[t]) * task.size \in Int
    BY <1>6, <1>10
  <2>3. /\ margin' \in [Debtors -> Int] /\ held' \in [Debtors -> Int]
        /\ held'[t] = held[t] - Side(held[t]) * task.size
        /\ \A u \in Debtors \ {t} : held'[u] = held[u]
    BY <1>6, <2>1, <2>2, SellTypes DEF LiqInv
  <2>4. LiqTypes'
    BY <1>3, <1>5, <2>1, <2>3 DEF LiqInv, LiqTypes
  <2>5. ASSUME t \notin disturbed PROVE LiquidationWithinPosition(t)'
    <3>1. LiquidationWithinPosition(t)
      BY <1>6, <2>5 DEF LiqInv, TraderInv
    <3>2. /\ Abs(resting[t]) + task.size <= Abs(held[t])
          /\ resting[t] = 0 \/ Side(resting[t]) = Side(held[t])
      BY <1>12, <1>14, <3>1 DEF LiquidationWithinPosition, Queued
    <3>3. /\ Abs(resting[t]) <= Abs(held'[t])
          /\ resting[t] = 0 \/ Side(resting[t]) = Side(held'[t])
      BY <1>6, <1>10, <2>3, <3>2, TakeoverWithin
    <3>4. Abs(resting[t]) \in Int
      BY <1>10 DEF Abs
    <3> QED
      BY <1>12, <1>14, <2>1, <3>3, <3>4 DEF LiquidationWithinPosition, Queued
  <2> QED
    BY <1>3, <1>6, <1>8, <1>9, <1>12, <1>14, <2>1, <2>3, <2>4, <2>5, OneTraderMoves
<1> QED
  BY <1>6, <1>11, <1>13, <1>14

-------------------------------------------------------------------------------
(* The periodics service and the margins.                                  *)
LEMMA PeriodicsKeeps ==
    ASSUME LiqInv,
           \/ Periodics \/ PeriodicsRestart
           \/ \E t \in Debtors : MarginMoves(t) \/ PlaceOwnOrder(t) \/ MarginReady(t) \/ InvalidateCache(t)
    PROVE  /\ LiqInv'
           /\ \A t \in Debtors : liqStatus'[t] = "active" => liqStatus[t] = "active"
<1>1. UNCHANGED <<held, resting, urgent, disturbed, round>>
  BY DEF Periodics, GetUpdatedProfilesMeta, UpdateProfilesCachesMetas, PeriodicsRestart, MarginMoves,
         PlaceOwnOrder, MarginReady, InvalidateCache, serviceVars, queueVars
<1> USE DEF LiqInv, LiqTypes
<1> DEFINE Moved == /\ margin' \in [Debtors -> Int] /\ known' \in [Debtors -> Int]
                    /\ liqStatus' \in [Debtors -> {"active", "liquidating"}]
                    /\ cacheRow' \in [Debtors -> [status : {"active", "liquidating"}, margin : Int]]
                    /\ \A t \in Debtors : liqStatus'[t] = "active" => liqStatus[t] = "active"
<1>2. CASE GetUpdatedProfilesMeta
  <2>1. known' \in [Debtors -> Int]
    BY <1>2 DEF GetUpdatedProfilesMeta, MergeMetas
  <2>2. Moved
    BY <1>2, <2>1 DEF GetUpdatedProfilesMeta
  <2> QED
    BY <1>1, <2>2, OthersMove
<1>3. ASSUME NEW t \in Debtors, UpdateProfilesCachesMetas(t)
      PROVE  LiqInv' /\ \A u \in Debtors : liqStatus'[u] = "active" => liqStatus[u] = "active"
  <2>1. StatusOf(known[t]) \in {"active", "liquidating"} /\ known[t] \in Int
    BY DEF StatusOf
  <2>2. Moved
    BY <1>3, <2>1 DEF UpdateProfilesCachesMetas
  <2> QED
    BY <1>1, <2>2, OthersMove
<1>4. ASSUME NEW t \in Debtors, InvalidateCache(t)
      PROVE  LiqInv' /\ \A u \in Debtors : liqStatus'[u] = "active" => liqStatus[u] = "active"
  <2>1. liqStatus' = [liqStatus EXCEPT ![t] = IF margin[t] < ForcedMargin THEN "liquidating" ELSE @]
    BY <1>4 DEF InvalidateCache
  <2>2. /\ liqStatus' \in [Debtors -> {"active", "liquidating"}]
        /\ \A u \in Debtors : liqStatus'[u] = "active" => liqStatus[u] = "active"
    BY <2>1
  <2>3. /\ cacheRow' = [cacheRow EXCEPT ![t] = [status |-> liqStatus'[t], margin |-> margin[t]]]
        /\ margin' = margin /\ known' = known
    BY <1>4 DEF InvalidateCache, refreshVars
  <2>4. [status |-> liqStatus'[t], margin |-> margin[t]] \in [status : {"active", "liquidating"}, margin : Int]
    BY <2>2
  <2>5. cacheRow' \in [Debtors -> [status : {"active", "liquidating"}, margin : Int]]
    BY <2>3, <2>4
  <2>6. Moved
    BY <2>2, <2>3, <2>5
  <2> QED
    BY <1>1, <2>6, OthersMove
<1>5. ASSUME NEW t \in Debtors, MarginMoves(t)
      PROVE  LiqInv' /\ \A u \in Debtors : liqStatus'[u] = "active" => liqStatus[u] = "active"
  <2>1. margin' \in [Debtors -> Int]
    BY <1>5, LiquidationsAssumption DEF MarginMoves
  <2>2. Moved
    BY <1>5, <2>1 DEF MarginMoves
  <2> QED
    BY <1>1, <2>2, OthersMove
<1>6. ASSUME NEW t \in Debtors, PlaceOwnOrder(t) \/ MarginReady(t)
      PROVE  LiqInv' /\ \A u \in Debtors : liqStatus'[u] = "active" => liqStatus[u] = "active"
  <2>1. Moved
    BY <1>6 DEF PlaceOwnOrder, MarginReady, refreshVars
  <2> QED
    BY <1>1, <2>1, OthersMove
<1>7. CASE PeriodicsRestart
  <2>1. Moved
    BY <1>7 DEF PeriodicsRestart, NoNotional
  <2> QED
    BY <1>1, <2>1, OthersMove
<1> QED
  BY <1>2, <1>3, <1>4, <1>5, <1>6, <1>7 DEF Periodics

(* The steps of the liquidation service.                                   *)
RoundT == [pc : {"batch", "next", "waiting", "acting"}, last : Nat,
           batch : SUBSET LiqRows, size : Nat]

LEMMA NextProfileRound ==
    ASSUME LiqTypes, round.batch # {}, NextProfile
    PROVE  round' \in RoundT /\ round'.pc \in {"batch", "next"}
           /\ (round'.pc = "next" => round'.batch # {})
<1>1. Current.id \in Nat
  BY CurrentRow, LiquidationsAssumption
<1>2. round.batch \ {Current} \in SUBSET LiqRows
  BY DEF LiqTypes
<1> QED
  BY <1>1, <1>2 DEF NextProfile, RoundT

(* A step of the service that starts no wait.                              *)
LEMMA BetweenProfiles ==
    ASSUME LiqInv, UNCHANGED <<margin, held, resting, urgent, known, disturbed>>,
           liqStatus' \in [Debtors -> {"active", "liquidating"}],
           cacheRow' \in [Debtors -> [status : {"active", "liquidating"}, margin : Int]],
           round' \in RoundT, round'.pc \in {"batch", "next"}, round'.pc = "next" => round'.batch # {}
    PROVE  LiqInv'
<1>1. LiqTypes'
  BY DEF LiqInv, LiqTypes, RoundT
<1>2. ASSUME NEW t \in Debtors PROVE TraderInv(t)'
  <2>1. TraderInv(t)
    BY DEF LiqInv
  <2> QED
    BY <2>1 DEF TraderInv, LiquidationWithinPosition, Queued
<1>3. RoundInv'
  BY DEF RoundInv
<1> QED
  BY <1>1, <1>2, <1>3 DEF LiqInv

LEMMA LiqBatchKeeps ==
    ASSUME LiqInv, GetNextLiqBatch
    PROVE  LiqInv'
<1>1. LiquidationBatch(round.last) \in SUBSET LiqRows
  <2>1. \A t \in Debtors : [id |-> t, margin |-> cacheRow[t].margin, recent |-> t \in recentCheck] \in LiqRows
    BY DEF LiqInv, LiqTypes, LiqRows
  <2> QED
    BY <2>1 DEF LiquidationBatch
<1>2. NoRound \in RoundT /\ NoRound.pc = "batch"
  BY DEF NoRound, RoundT
<1>3. round \in RoundT
  BY DEF LiqInv, LiqTypes, RoundT
<1>4. round' \in RoundT /\ round'.pc \in {"batch", "next"} /\ (round'.pc = "next" => round'.batch # {})
  <2>1. PICK rows \in SUBSET LiqRows : rows = LiquidationBatch(round.last)
    BY <1>1
  <2>2. round' = IF rows = {} THEN NoRound ELSE [round EXCEPT !.pc = "next", !.batch = rows]
    BY <2>1 DEF GetNextLiqBatch, RoundOver
  <2> QED
    BY <1>2, <1>3, <2>2 DEF RoundT
<1>5. UNCHANGED <<margin, held, resting, urgent, known, disturbed, liqStatus, cacheRow>>
  BY DEF GetNextLiqBatch, queueVars, refreshVars
<1> QED
  BY <1>4, <1>5, BetweenProfiles DEF LiqInv, LiqTypes

LEMMA QueuedCancel ==
    ASSUME NEW t
    PROVE  QueuedCancelAll(t) <=> ~NoCancelIn(urgent, t)
  BY DEF QueuedCancelAll, NoCancelIn, Cancels

LEMMA CancelTask ==
    ASSUME NEW t \in Debtors
    PROVE  [kind |-> "cancelall", trader |-> t, size |-> 0] \in LiqTasks
  BY DEF LiqTasks

LEMMA ProfileKeeps ==
    ASSUME LiqInv, ProcessProfile
    PROVE  LiqInv'
<1>1. PICK t : t = Current.id
  OBVIOUS
<1>2. t \in Debtors /\ round.batch # {} /\ round \in RoundT
  BY <1>1, CurrentRow DEF ProcessProfile, LiqInv, LiqTypes, RoundInv, RoundT
<1>3. UNCHANGED <<margin, held, resting, known, disturbed, liqStatus, cacheRow>>
  BY DEF ProcessProfile, refreshVars
<1>4. CASE NextProfile /\ UNCHANGED urgent
  BY <1>2, <1>3, <1>4, NextProfileRound, BetweenProfiles DEF LiqInv, LiqTypes
<1>5. CASE AskCancelAll(t) /\ round' = [round EXCEPT !.pc = "waiting"]
  <2>1. PICK q \in Seq(LiqTasks) : q = urgent
    BY DEF LiqInv, LiqTypes
  <2>2. PICK a : a = [kind |-> "cancelall", trader |-> t, size |-> 0]
    OBVIOUS
  <2>3. a \in LiqTasks /\ Cancels(a, t) /\ \A u \in Debtors : ~Trades(a, u)
    BY <1>2, <2>2, CancelTask DEF Cancels, Trades
  <2>4. \A u \in Debtors : QueueFits(q, u)
    BY <2>1 DEF LiqInv, TraderInv
  <2>5. /\ urgent' \in Seq(LiqTasks) /\ ~NoCancelIn(urgent', t)
        /\ \A u \in Debtors : QueueFits(urgent', u) /\ QueuedIn(urgent', u) = QueuedIn(urgent, u)
    <3>1. CASE urgent' = urgent /\ ~NoCancelIn(urgent, t)
      BY <2>1, <2>4, <3>1
    <3>2. CASE urgent' = Append(q, a)
      BY <1>2, <2>1, <2>3, <2>4, <3>2, QueuedTask
    <3> QED
      BY <1>5, <2>1, <2>2, <3>1, <3>2, QueuedCancel DEF AskCancelAll
  <2>6. ASSUME NEW u \in Debtors PROVE TraderInv(u)'
    <3>1. TraderInv(u)
      BY DEF LiqInv
    <3> QED
      BY <1>3, <2>5, <3>1 DEF TraderInv, LiquidationWithinPosition, Queued
  <2>7. round' \in RoundT /\ round'.pc = "waiting" /\ round'.batch = round.batch
    BY <1>2, <1>5 DEF RoundT
  <2>8. Current' = Current
    BY <2>7 DEF Current
  <2>9. RoundInv'
    BY <1>1, <1>2, <2>5, <2>7, <2>8 DEF RoundInv
  <2>10. LiqTypes'
    BY <1>3, <2>5, <2>7 DEF LiqInv, LiqTypes, RoundT
  <2> QED
    BY <2>6, <2>9, <2>10 DEF LiqInv
<1> QED
  BY <1>1, <1>4, <1>5 DEF ProcessProfile

(* The service goes on only when the cancelall of the round is taken: then *)
(* neither the book nor the queue holds anything of the liquidation.       *)
LEMMA AcceptedClears ==
    ASSUME LiqInv, round.pc = "waiting", IsCancellAllAccepted(Current.id)
    PROVE  /\ Current.id \in Debtors /\ round.batch # {}
           /\ Cleared(Current.id) /\ NoCancelIn(urgent, Current.id)
           /\ Queued(Current.id) = 0
<1>1. Current.id \in Debtors /\ round.batch # {}
  BY CurrentRow DEF LiqInv, RoundInv
<1>2. NoCancelIn(urgent, Current.id)
  BY QueuedCancel DEF IsCancellAllAccepted
<1>3. Cleared(Current.id)
  BY <1>2 DEF LiqInv, RoundInv
<1>4. Queued(Current.id) = 0
  BY <1>3, QueuedNone DEF Cleared, Queued, LiqInv, LiqTypes
<1> QED
  BY <1>1, <1>2, <1>3, <1>4

LEMMA CompletedKeeps ==
    ASSUME LiqInv, CompletedLiquidation
    PROVE  /\ LiqInv'
           /\ \A t \in Debtors : liqStatus[t] = "liquidating" /\ liqStatus'[t] = "active"
                  => resting[t] = 0 /\ Queued(t) = 0
<1>1. PICK t : t = Current.id
  OBVIOUS
<1>2. t \in Debtors /\ round.batch # {} /\ resting[t] = 0 /\ Queued(t) = 0
  BY <1>1, AcceptedClears DEF CompletedLiquidation, Cleared
<1>3. /\ liqStatus' = [liqStatus EXCEPT ![t] = "active"]
      /\ cacheRow' = [cacheRow EXCEPT ![t].status = "active"] /\ NextProfile
      /\ UNCHANGED <<margin, held, resting, urgent, known, disturbed>>
  BY <1>1 DEF CompletedLiquidation, queueVars, refreshVars
<1>4. liqStatus' \in [Debtors -> {"active", "liquidating"}]
  BY <1>3 DEF LiqInv, LiqTypes
<1>5. cacheRow' \in [Debtors -> [status : {"active", "liquidating"}, margin : Int]]
  <2>1. cacheRow \in [Debtors -> [status : {"active", "liquidating"}, margin : Int]]
    BY DEF LiqInv, LiqTypes
  <2>2. cacheRow[t] \in [status : {"active", "liquidating"}, margin : Int]
    BY <1>2, <2>1
  <2>3. [cacheRow[t] EXCEPT !.status = "active"] \in [status : {"active", "liquidating"}, margin : Int]
    BY <2>2
  <2> QED
    BY <1>3, <2>1, <2>3
<1>6. LiqInv'
  BY <1>2, <1>3, <1>4, <1>5, NextProfileRound, BetweenProfiles DEF LiqInv
<1>7. \A u \in Debtors : liqStatus'[u] # liqStatus[u] => u = t
  BY <1>3 DEF LiqInv, LiqTypes
<1> QED
  BY <1>2, <1>6, <1>7

LEMMA ReadKeeps ==
    ASSUME LiqInv, GetAccountData
    PROVE  LiqInv'
<1>1. PICK t : t = Current.id
  OBVIOUS
<1>2. /\ t \in Debtors /\ round.batch # {} /\ resting[t] = 0 /\ Queued(t) = 0
      /\ Cleared(t) /\ NoCancelIn(urgent, t)
  BY <1>1, AcceptedClears DEF GetAccountData, Cleared
<1>3. /\ round' = [round EXCEPT !.pc = "acting", !.size = Abs(held[t])]
      /\ disturbed' = disturbed \ {t}
      /\ UNCHANGED <<margin, held, resting, urgent, known, liqStatus, cacheRow>>
  BY <1>1 DEF GetAccountData, queueVars, refreshVars
<1>4. held[t] \in Int /\ Abs(held[t]) \in Nat
  BY <1>2 DEF LiqInv, LiqTypes, Abs
<1>5. /\ round' \in RoundT /\ round'.pc = "acting" /\ round'.size = Abs(held[t])
      /\ round'.batch = round.batch
  BY <1>3, <1>4 DEF LiqInv, LiqTypes, RoundT
<1>6. Current' = Current
  BY <1>5 DEF Current
<1>7. ASSUME NEW u \in Debtors PROVE TraderInv(u)'
  <2>1. TraderInv(u)
    BY DEF LiqInv
  <2>2. CASE u = t
    BY <1>2, <1>3, <1>4, <2>1, <2>2 DEF TraderInv, LiquidationWithinPosition, Queued, Abs
  <2>3. CASE u # t
    BY <1>3, <2>1, <2>3 DEF TraderInv, LiquidationWithinPosition, Queued
  <2> QED
    BY <2>2, <2>3
<1>8. RoundInv'
  BY <1>1, <1>2, <1>3, <1>5, <1>6 DEF RoundInv, Cleared
<1>9. LiqTypes'
  BY <1>3, <1>5 DEF LiqInv, LiqTypes, RoundT
<1> QED
  BY <1>7, <1>8, <1>9 DEF LiqInv

LEMMA ActionsKeep ==
    ASSUME LiqInv, QueueActions
    PROVE  LiqInv'
<1>1. PICK row : row = Current
  OBVIOUS
<1>2. PICK t : t = row.id
  OBVIOUS
<1>3. /\ t \in Debtors /\ round.batch # {} /\ round.size \in Nat
      /\ Cleared(t) /\ NoCancelIn(urgent, t) /\ (t \in disturbed \/ round.size = Abs(held[t]))
  BY <1>1, <1>2, CurrentRow DEF QueueActions, LiqInv, LiqTypes, RoundInv
<1>4. NextProfile /\ UNCHANGED <<margin, held, resting, known, disturbed, liqStatus, cacheRow>>
  BY DEF QueueActions, refreshVars
<1>5. CASE UNCHANGED urgent
  BY <1>3, <1>4, <1>5, NextProfileRound, BetweenProfiles DEF LiqInv, LiqTypes
<1>6. ASSUME NEW a \in requiredActions(row, round.size), urgent' = Append(urgent, a)
      PROVE  LiqInv'
  <2>1. a \in LiqTasks /\ a.trader = t /\ Trades(a, t) /\ a.size \in Nat /\ a.size <= round.size
    <3>1. a \in [kind : {"sell", "takeover"}, trader : {t}, size : 0 .. round.size]
      BY <1>2, <1>3, <1>6 DEF requiredActions, generateSellOrders
    <3> QED
      BY <1>3, <3>1 DEF LiqTasks, Trades
  <2>2. PICK q \in Seq(LiqTasks) : q = urgent
    BY DEF LiqInv, LiqTypes
  <2>3. /\ \A u \in Debtors : QueueFits(q, u) /\ (Trades(a, u) => u = t)
        /\ NoTradeIn(q, t) /\ NoCancelIn(q, t)
    BY <1>3, <2>1, <2>2 DEF LiqInv, TraderInv, Cleared, Trades
  <2>4. /\ urgent' \in Seq(LiqTasks) /\ QueuedIn(urgent', t) = a.size
        /\ \A u \in Debtors : QueueFits(urgent', u) /\ (u # t => QueuedIn(urgent', u) = QueuedIn(urgent, u))
    BY <1>3, <1>6, <2>1, <2>2, <2>3, QueuedTask
  <2>5. ASSUME NEW u \in Debtors PROVE TraderInv(u)'
    <3>1. TraderInv(u)
      BY DEF LiqInv
    <3>2. CASE u = t
      <4>1. t \notin disturbed => LiquidationWithinPosition(t)'
        <5>1. resting[t] = 0 /\ held[t] \in Int
          BY <1>3 DEF Cleared, LiqInv, LiqTypes
        <5> QED
          BY <1>3, <1>4, <2>1, <2>4, <5>1 DEF LiquidationWithinPosition, Queued, Abs
      <4> QED
        BY <1>4, <2>4, <3>2, <4>1 DEF TraderInv
    <3>3. CASE u # t
      BY <1>4, <2>4, <3>1, <3>3 DEF TraderInv, LiquidationWithinPosition, Queued
    <3> QED
      BY <3>2, <3>3
  <2>6. round' \in RoundT /\ round'.pc \in {"batch", "next"} /\ (round'.pc = "next" => round'.batch # {})
    BY <1>3, <1>4, NextProfileRound DEF LiqInv
  <2>7. LiqTypes'
    BY <1>4, <2>4, <2>6 DEF LiqInv, LiqTypes, RoundT
  <2>8. RoundInv'
    BY <2>6 DEF RoundInv
  <2> QED
    BY <2>5, <2>7, <2>8 DEF LiqInv
<1> QED
  BY <1>1, <1>5, <1>6 DEF QueueActions

(* A wait that is given up, or a restart.                                  *)
LEMMA RoundLost ==
    ASSUME LiqInv, WaitForCancellAllAcceptedFails \/ LiquidationRestart
    PROVE  LiqInv' /\ liqStatus' = liqStatus
<1>1. UNCHANGED <<margin, held, resting, urgent, known, disturbed, liqStatus, cacheRow>>
  BY DEF WaitForCancellAllAcceptedFails, LiquidationRestart, queueVars, refreshVars
<1>2. round' \in RoundT /\ round'.pc \in {"batch", "next"} /\ (round'.pc = "next" => round'.batch # {})
  <2>1. CASE LiquidationRestart
    BY <2>1 DEF LiquidationRestart, NoRound, RoundT
  <2>2. CASE WaitForCancellAllAcceptedFails
    <3>1. round.batch # {} /\ NextProfile
      BY <2>2 DEF WaitForCancellAllAcceptedFails, LiqInv, RoundInv
    <3> QED
      BY <3>1, NextProfileRound DEF LiqInv
  <2> QED
    BY <2>1, <2>2
<1> QED
  BY <1>1, <1>2, BetweenProfiles DEF LiqInv, LiqTypes

LEMMA LiqStep ==
    ASSUME LiqInv, [LiqNext]_liqVars
    PROVE  /\ LiqInv'
           /\ \A t \in Debtors : liqStatus[t] = "liquidating" /\ liqStatus'[t] = "active"
                  => resting[t] = 0 /\ Queued(t) = 0
<1>1. CASE UNCHANGED liqVars
  BY <1>1, OthersMove DEF liqVars, queueVars, refreshVars, serviceVars, LiqInv, LiqTypes
<1>2. ASSUME NEW t \in Debtors, HandleOwnOrder(t) \/ FillResting(t)
      PROVE  LiqInv' /\ liqStatus' = liqStatus
  BY <1>2, OwnOrderKeeps, FillKeeps DEF HandleOwnOrder, FillResting
<1>3. CASE HandleUrgent
  BY <1>3, UrgentKeeps DEF HandleUrgent
<1>4. CASE \/ Periodics \/ PeriodicsRestart
           \/ \E t \in Debtors : MarginMoves(t) \/ PlaceOwnOrder(t) \/ MarginReady(t) \/ InvalidateCache(t)
  BY <1>4, PeriodicsKeeps
<1>5. CASE GetNextLiqBatch \/ ProcessProfile \/ GetAccountData \/ QueueActions
  <2>1. LiqInv'
    BY <1>5, LiqBatchKeeps, ProfileKeeps, ReadKeeps, ActionsKeep
  <2>2. liqStatus' = liqStatus
    BY <1>5 DEF GetNextLiqBatch, ProcessProfile, GetAccountData, QueueActions
  <2> QED
    BY <2>1, <2>2
<1>6. CASE CompletedLiquidation
  BY <1>6, CompletedKeeps
<1>7. CASE WaitForCancellAllAcceptedFails \/ LiquidationRestart
  BY <1>7, RoundLost
<1> QED
  BY <1>1, <1>2, <1>3, <1>4, <1>5, <1>6, <1>7 DEF LiqNext, ProcessLiquidations

(* Whatever margins and own orders do, and wherever the services fail or   *)
(* restart: liquidation never trades more than the position (Queue), and a *)
(* profile is active again only when none of its liquidation is left       *)
(* (CompletedLiquidation).                                                 *)
THEOREM LiquidationStaysCareful == LiqSpec => LiquidationCareful
<1>1. LiqInv /\ [LiqNext]_liqVars => LiqInv'
  BY LiqStep
<1>2. LiqInv => \A t \in Debtors \ disturbed : LiquidationWithinPosition(t)
  BY DEF LiqInv, TraderInv
<1>3. LiqInv /\ [LiqNext]_liqVars
        => [\A t \in Debtors : liqStatus[t] = "liquidating" /\ liqStatus'[t] = "active"
                => resting[t] = 0 /\ Queued(t) = 0]_liqVars
  BY LiqStep
<1> QED
  BY <1>1, <1>2, <1>3, LiqInitHolds, PTL DEF LiqSpec, LiquidationCareful, ActivatedWhenDone

-------------------------------------------------------------------------------
(* Archiver.                                                               *)

Versions == [row : SpaceRows, id : Nat]

RunT == [pc : {"idle", "batch", "sync", "scan"}, last : Nat, batch : SUBSET Versions,
         kept : SUBSET SpaceRows]

ArchTypes ==
    /\ mode \in {"live", "live-raw", "snapshot", "full-snapshot"}
    /\ archiveId \in [SpaceRows -> Nat]
    /\ sequencer \in [Shards -> Nat]
    /\ table \in SUBSET Versions
    /\ archiving \in [Shards -> RunT]

(* Every archive id was taken from the sequencer of the shard.             *)
Numbered ==
    /\ \A r \in SpaceRows : archiveId[r] <= sequencer[Shard[r]]
    /\ \A v \in table : v.id <= sequencer[Shard[v.row]]
    /\ \A s \in Shards : \A w \in archiving[s].batch : Shard[w.row] = s /\ w.id <= sequencer[s]

(* No row is passed over by a version of the table nor by the id the       *)
(* goroutine started from.                                                 *)
TableFollows(s) ==
    /\ \A r \in SpaceRows : \A v \in table :
          Shard[r] = s /\ Shard[v.row] = s /\ archiveId[r] \in 1 .. v.id => Version(r) \in table
    /\ archiving[s].pc \in {"batch", "sync"} =>
          /\ archiving[s].last <= sequencer[s]
          /\ \A r \in SpaceRows :
                Shard[r] = s /\ archiveId[r] \in 1 .. archiving[s].last => Version(r) \in table

(* The batch leaves no row out below its highest id; a row that changed    *)
(* after it was read has a higher id than the whole table.                 *)
BatchFollows(s) ==
    archiving[s].pc = "sync" =>
        \A w \in archiving[s].batch :
            /\ archiving[s].last < w.id /\ w.id <= archiveId[w.row]
            /\ \A r \in SpaceRows :
                  Shard[r] = s /\ archiveId[r] \in archiving[s].last + 1 .. w.id =>
                      Version(r) \in archiving[s].batch
            /\ w.id < archiveId[w.row] =>
                  \A v \in table : Shard[v.row] = s => v.id < archiveId[w.row]

Following(s) ==
    /\ archiving[s].pc # "scan"
    /\ TableFollows(s)
    /\ BatchFollows(s)

(* The scan has all it should have up to the key it reached; its batch has *)
(* a row once.                                                             *)
Snapshotting(s) ==
    /\ archiving[s].pc # "batch"
    /\ \A r \in archiving[s].kept : Shard[r] = s /\ archiveId[r] > 0
    /\ archiving[s].pc = "scan" =>
          /\ \A r \in archiving[s].kept :
                r <= archiving[s].last => \E v \in archiving[s].batch : v.row = r
          /\ \A v \in archiving[s].batch : v.row <= archiving[s].last
          /\ \A v, w \in archiving[s].batch : v.row = w.row => v = w
    /\ archiving[s].pc = "sync" =>
          \A r \in archiving[s].kept : \E v \in archiving[s].batch : v.row = r

-------------------------------------------------------------------------------
(* What is below a row of a batch is in the batch.                         *)
LEMMA LowerPart ==
    ASSUME NEW S, IsFiniteSet(S), NEW key, \A q \in S : key[q] \in Nat,
           NEW x \in S, NEW y \in S, key[x] <= key[y], NEW n \in Nat,
           Cardinality({q \in S : key[q] < key[y]}) < n
    PROVE  Cardinality({q \in S : key[q] < key[x]}) < n
<1> DEFINE A == {q \in S : key[q] < key[x]}
           B == {q \in S : key[q] < key[y]}
<1>1. A \subseteq B
  OBVIOUS
<1>2. IsFiniteSet(B)
  BY FS_Subset
<1>3. /\ Cardinality(A) \in Nat /\ Cardinality(B) \in Nat
      /\ Cardinality(A) <= Cardinality(B)
  <2> HIDE DEF A, B
  <2> QED
    BY <1>1, <1>2, FS_Subset, FS_CardinalityType
<1> QED
  BY <1>3

(* A page shorter than was asked for is all there is.                      *)
LEMMA WholePart ==
    ASSUME NEW S \in SUBSET Nat, IsFiniteSet(S), NEW n \in Nat,
           Cardinality({r \in S : Cardinality({q \in S : q < r}) < n}) < n
    PROVE  \A r \in S : Cardinality({q \in S : q < r}) < n
<1> DEFINE P == {r \in S : Cardinality({q \in S : q < r}) < n}
           R == S \ P
<1> SUFFICES ASSUME R # {} PROVE FALSE
  OBVIOUS
<1>1. IsFiniteSet(R) /\ IsFiniteSet(P)
  BY FS_Subset
<1>2. PICK m \in R : \A y \in R : m <= y
  <2> R \in SUBSET Nat
    OBVIOUS
  <2> HIDE DEF R
  <2> QED
    BY <1>1, LeastNumber
<1> DEFINE A == {q \in S : q < m}
<1>3. A \subseteq P
  <2> SUFFICES ASSUME NEW q \in A, q \notin P PROVE FALSE
    OBVIOUS
  <2>1. q \in R /\ q < m /\ q \in Nat /\ m \in Nat
    BY <1>2
  <2>2. m <= q
    BY <1>2, <2>1
  <2> QED
    BY <2>1, <2>2
<1>4. Cardinality(A) <= Cardinality(P) /\ Cardinality(A) \in Nat /\ Cardinality(P) \in Nat
  <2> HIDE DEF A, P
  <2> QED
    BY <1>1, <1>3, FS_Subset, FS_CardinalityType
<1>5. Cardinality(A) < n
  BY <1>4
<1> QED
  BY <1>2, <1>5

(* The greatest of a set of numbers that is finite is one of them.         *)
LEMMA MaxIn ==
    ASSUME NEW S \in SUBSET Nat, IsFiniteSet(S), S # {}
    PROVE  Max(S) \in S /\ \A y \in S : y <= Max(S)
<1>1. \A y \in S : y \in Int
  OBVIOUS
<1>2. \E x \in S : \A y \in S : y <= x
  BY <1>1, GreatestNumber
<1> QED
  BY <1>2 DEF Max

(* The last archived id is one of a version, or there is none.             *)
LEMMA MaxIdIn ==
    ASSUME ArchTypes, Numbered, NEW s \in Shards, NEW V \in SUBSET Archived(s)
    PROVE  /\ MaxId(V) \in 0 .. sequencer[s]
           /\ MaxId(V) = 0 \/ \E v \in V : MaxId(V) = v.id
<1> DEFINE I == {v.id : v \in V} \cup {0}
           n == sequencer[s]
<1>1. n \in Nat
  BY DEF ArchTypes
<1>2. \A v \in V : v.id \in 0 .. n
  <2> SUFFICES ASSUME NEW v \in V PROVE v.id \in 0 .. n
    OBVIOUS
  <2>1. v \in table /\ Shard[v.row] = s
    BY DEF Archived
  <2> QED
    BY <2>1 DEF Numbered, ArchTypes, Versions
<1>3. I \subseteq 0 .. n /\ I # {} /\ I \in SUBSET Nat
  BY <1>1, <1>2
<1>4. IsFiniteSet(I)
  <2> HIDE DEF I, n
  <2>1. IsFiniteSet(0 .. n)
    BY <1>1, FS_Interval
  <2> QED
    BY <1>3, <2>1, FS_Subset
<1>5. Max(I) \in I
  <2> HIDE DEF I
  <2> QED
    BY <1>3, <1>4, MaxIn
<1> QED
  BY <1>3, <1>5 DEF MaxId

LEMMA LastArchived ==
    ASSUME ArchTypes, Numbered, NEW s \in Shards
    PROVE  /\ getLastArchiveId(s) \in 0 .. sequencer[s]
           /\ \/ getLastArchiveId(s) = 0
              \/ \E v \in table : Shard[v.row] = s /\ getLastArchiveId(s) = v.id
<1> DEFINE N == {v \in Archived(s) : \A w \in table : Chunk[w.row] <= Chunk[v.row]}
<1>1. N \in SUBSET Archived(s) /\ Archived(s) \in SUBSET Archived(s)
  OBVIOUS
<1>2. getLastArchiveId(s) \in {MaxId(N), MaxId(Archived(s))}
  BY DEF getLastArchiveId, LastInNewestChunk
<1> HIDE DEF N
<1>3. /\ MaxId(N) \in 0 .. sequencer[s]
      /\ MaxId(N) = 0 \/ \E v \in N : MaxId(N) = v.id
  BY <1>1, MaxIdIn
<1>4. /\ MaxId(Archived(s)) \in 0 .. sequencer[s]
      /\ MaxId(Archived(s)) = 0 \/ \E v \in Archived(s) : MaxId(Archived(s)) = v.id
  BY <1>1, MaxIdIn
<1>5. \A v \in Archived(s) : v \in table /\ Shard[v.row] = s
  BY DEF Archived
<1> QED
  BY <1>1, <1>2, <1>3, <1>4, <1>5

-------------------------------------------------------------------------------
ArchInv ==
    /\ ArchTypes /\ Numbered
    /\ \A s \in Shards : IF mode = "full-snapshot" THEN Snapshotting(s) ELSE Following(s)

LEMMA ArchInitHolds ==
    ASSUME ArchiverInit
    PROVE  ArchInv
<1>1. \A r \in SpaceRows : Shard[r] \in Shards
  BY DEF Shards
<1>2. ArchTypes
  BY ArchiverAssumption DEF ArchiverInit, ArchTypes, RunT, NoRun, Versions
<1>3. \A s \in Shards : archiving[s] = NoRun
  BY DEF ArchiverInit
<1>4. Numbered
  BY <1>1, <1>3 DEF ArchiverInit, Numbered, NoRun
<1>5. \A s \in Shards : Snapshotting(s) /\ Following(s)
  BY <1>3 DEF ArchiverInit, NoRun, Snapshotting, Following, TableFollows, BatchFollows
<1> QED
  BY <1>2, <1>4, <1>5 DEF ArchInv

(* A change takes an id higher than all that is archived or read.          *)
LEMMA WriteRowKeeps ==
    ASSUME ArchInv, NEW r \in SpaceRows, WriteRow(r)
    PROVE  ArchInv'
<1> DEFINE n == sequencer[Shard[r]] + 1
<1>1. \A q \in SpaceRows : Shard[q] \in Shards
  BY DEF Shards
<1>2. ArchTypes /\ Numbered
  BY DEF ArchInv
<1>3. /\ mode' = mode /\ table' = table /\ archiving' = archiving
      /\ sequencer' = [sequencer EXCEPT ![Shard[r]] = n]
      /\ archiveId' = [archiveId EXCEPT ![r] = n]
  BY <1>1, <1>2 DEF WriteRow, ArchTypes
<1>4. n \in Nat /\ n > 0 /\ n = sequencer[Shard[r]] + 1
  BY <1>1, <1>2 DEF ArchTypes
<1>5. \A s \in Shards : /\ sequencer[s] \in Nat
                        /\ sequencer'[s] = IF s = Shard[r] THEN n ELSE sequencer[s]
  BY <1>2, <1>3 DEF ArchTypes
<1>6. \A q \in SpaceRows : /\ archiveId[q] \in Nat
                           /\ archiveId'[q] = IF q = r THEN n ELSE archiveId[q]
  BY <1>2, <1>3 DEF ArchTypes
<1>7. ArchTypes'
  <2>1. archiveId' \in [SpaceRows -> Nat] /\ sequencer' \in [Shards -> Nat]
    BY <1>2, <1>3, <1>4 DEF ArchTypes
  <2> QED
    BY <1>2, <1>3, <2>1 DEF ArchTypes
<1>8. \A s \in Shards : sequencer[s] <= sequencer'[s] /\ sequencer'[s] \in Nat
  BY <1>4, <1>5
<1>9. \A v \in table : v.id \in Nat /\ v.row \in SpaceRows /\ v.id <= sequencer[Shard[v.row]]
  BY <1>2 DEF ArchTypes, Numbered, Versions
<1>10. \A s \in Shards :
          /\ archiving[s].last \in Nat /\ archiving[s].kept \subseteq SpaceRows
          /\ \A w \in archiving[s].batch :
                w.id \in Nat /\ w.row \in SpaceRows /\ Shard[w.row] = s /\ w.id <= sequencer[s]
  <2> SUFFICES ASSUME NEW s \in Shards
               PROVE  /\ archiving[s].last \in Nat /\ archiving[s].kept \subseteq SpaceRows
                      /\ \A w \in archiving[s].batch :
                            w.id \in Nat /\ w.row \in SpaceRows /\ Shard[w.row] = s /\ w.id <= sequencer[s]
    OBVIOUS
  <2>1. archiving[s] \in RunT
    BY <1>2 DEF ArchTypes
  <2> QED
    BY <1>2, <2>1 DEF RunT, Versions, Numbered
<1> HIDE DEF n
<1>11. Numbered'
  <2>1. \A q \in SpaceRows : archiveId'[q] <= sequencer'[Shard[q]]
    BY <1>1, <1>2, <1>4, <1>5, <1>6 DEF Numbered
  <2>2. \A v \in table' : v.id <= sequencer'[Shard[v.row]]
    BY <1>1, <1>3, <1>5, <1>8, <1>9
  <2>3. \A s \in Shards : \A w \in archiving'[s].batch : Shard[w.row] = s /\ w.id <= sequencer'[s]
    BY <1>3, <1>5, <1>8, <1>10
  <2> QED
    BY <2>1, <2>2, <2>3 DEF Numbered
<1>12. ASSUME NEW s \in Shards, Snapshotting(s) PROVE Snapshotting(s)'
  <2>1. \A q \in archiving[s].kept : archiveId'[q] > 0
    BY <1>4, <1>6, <1>10, <1>12 DEF Snapshotting
  <2> QED
    BY <1>3, <1>12, <2>1 DEF Snapshotting
<1>13. ASSUME NEW s \in Shards, Following(s) PROVE Following(s)'
  <2>1. \A q \in SpaceRows : q # r => Version(q)' = Version(q)
    BY <1>6 DEF Version
  <2>2. ASSUME NEW q \in SpaceRows, NEW i \in Nat, i <= sequencer[s], Shard[q] = s, archiveId'[q] <= i
        PROVE  q # r /\ archiveId'[q] = archiveId[q]
    BY <1>4, <1>5, <1>6, <2>2
  <2>3. \A q \in SpaceRows : \A v \in table :
            Shard[q] = s /\ Shard[v.row] = s /\ archiveId'[q] \in 1 .. v.id => Version(q)' \in table
    BY <1>9, <1>13, <2>1, <2>2 DEF Following, TableFollows
  <2>4. archiving[s].pc \in {"batch", "sync"} =>
          /\ archiving[s].last <= sequencer'[s]
          /\ \A q \in SpaceRows :
                Shard[q] = s /\ archiveId'[q] \in 1 .. archiving[s].last => Version(q)' \in table
    BY <1>5, <1>8, <1>10, <1>13, <2>1, <2>2 DEF Following, TableFollows
  <2>5. ASSUME archiving[s].pc = "sync", NEW w \in archiving[s].batch
        PROVE  /\ archiving[s].last < w.id /\ w.id <= archiveId'[w.row]
               /\ \A q \in SpaceRows :
                     Shard[q] = s /\ archiveId'[q] \in archiving[s].last + 1 .. w.id =>
                         Version(q)' \in archiving[s].batch
               /\ w.id < archiveId'[w.row] =>
                     \A v \in table : Shard[v.row] = s => v.id < archiveId'[w.row]
    <3>1. /\ w.id \in Nat /\ w.row \in SpaceRows /\ Shard[w.row] = s /\ w.id <= sequencer[s]
          /\ archiving[s].last \in Nat
      BY <1>10, <2>5
    <3>2. /\ archiving[s].last < w.id /\ w.id <= archiveId[w.row]
          /\ \A q \in SpaceRows :
                Shard[q] = s /\ archiveId[q] \in archiving[s].last + 1 .. w.id =>
                    Version(q) \in archiving[s].batch
          /\ w.id < archiveId[w.row] =>
                \A v \in table : Shard[v.row] = s => v.id < archiveId[w.row]
      BY <1>13, <2>5 DEF Following, BatchFollows
    <3>3. w.id <= archiveId'[w.row]
      BY <1>4, <1>5, <1>6, <3>1, <3>2
    <3>4. \A q \in SpaceRows :
              Shard[q] = s /\ archiveId'[q] \in archiving[s].last + 1 .. w.id =>
                  Version(q)' \in archiving[s].batch
      BY <2>1, <2>2, <3>1, <3>2
    <3>5. ASSUME w.id < archiveId'[w.row], NEW v \in table, Shard[v.row] = s
          PROVE  v.id < archiveId'[w.row]
      <4>1. CASE w.row = r
        <5>1. v.id \in Nat /\ v.id <= sequencer[s] /\ s = Shard[r] /\ sequencer[s] \in Nat
          BY <1>5, <1>9, <3>1, <3>5, <4>1
        <5>2. archiveId'[w.row] = n
          BY <1>6, <4>1
        <5> QED
          BY <1>4, <5>1, <5>2
      <4>2. CASE w.row # r
        BY <1>6, <3>1, <3>2, <3>5, <4>2
      <4> QED
        BY <4>1, <4>2
    <3> QED
      BY <3>2, <3>3, <3>4, <3>5
  <2>6. TableFollows(s)'
    BY <1>3, <2>3, <2>4 DEF TableFollows
  <2>7. BatchFollows(s)'
    BY <1>3, <2>5 DEF BatchFollows
  <2> QED
    BY <1>3, <1>13, <2>6, <2>7 DEF Following
<1> QED
  BY <1>3, <1>7, <1>11, <1>12, <1>13 DEF ArchInv

(* A deletion leaves a full snapshot the rows that stay.                   *)
LEMMA DeleteRowKeeps ==
    ASSUME ArchInv, NEW r \in SpaceRows, DeleteRow(r)
    PROVE  ArchInv'
<1>1. Shard[r] \in Shards
  BY DEF Shards
<1>2. ArchTypes /\ Numbered
  BY DEF ArchInv
<1>3. /\ mode = "full-snapshot" /\ mode' = mode /\ table' = table /\ sequencer' = sequencer
      /\ archiveId' = [archiveId EXCEPT ![r] = 0]
      /\ archiving' = [archiving EXCEPT ![Shard[r]].kept = @ \ {r}]
  BY DEF DeleteRow
<1>4. \A q \in SpaceRows : archiveId'[q] = IF q = r THEN 0 ELSE archiveId[q]
  BY <1>2, <1>3 DEF ArchTypes
<1>5. \A s \in Shards :
          /\ archiving[s] \in RunT /\ archiving'[s] \in RunT
          /\ archiving'[s].pc = archiving[s].pc /\ archiving'[s].last = archiving[s].last
          /\ archiving'[s].batch = archiving[s].batch
          /\ archiving'[s].kept = IF s = Shard[r] THEN archiving[s].kept \ {r} ELSE archiving[s].kept
  <2> SUFFICES ASSUME NEW s \in Shards
               PROVE  /\ archiving[s] \in RunT /\ archiving'[s] \in RunT
                      /\ archiving'[s].pc = archiving[s].pc /\ archiving'[s].last = archiving[s].last
                      /\ archiving'[s].batch = archiving[s].batch
                      /\ archiving'[s].kept = IF s = Shard[r] THEN archiving[s].kept \ {r}
                                              ELSE archiving[s].kept
    OBVIOUS
  <2>1. archiving[s] \in RunT
    BY <1>2 DEF ArchTypes
  <2>2. archiving'[s] = IF s = Shard[r] THEN [archiving[s] EXCEPT !.kept = @ \ {r}] ELSE archiving[s]
    BY <1>2, <1>3 DEF ArchTypes
  <2> QED
    BY <2>1, <2>2 DEF RunT
<1>6. ArchTypes'
  <2>1. archiveId' \in [SpaceRows -> Nat]
    BY <1>2, <1>3 DEF ArchTypes
  <2>2. DOMAIN archiving' = Shards /\ archiving' = [s \in Shards |-> archiving'[s]]
    BY <1>2, <1>3 DEF ArchTypes
  <2> QED
    BY <1>2, <1>3, <1>5, <2>1, <2>2 DEF ArchTypes
<1>7. Numbered'
  <2>1. \A q \in SpaceRows : archiveId'[q] <= sequencer[Shard[q]]
    <3> SUFFICES ASSUME NEW q \in SpaceRows PROVE archiveId'[q] <= sequencer[Shard[q]]
      OBVIOUS
    <3>1. Shard[q] \in Shards
      BY DEF Shards
    <3> QED
      BY <1>2, <1>4, <3>1 DEF Numbered, ArchTypes
  <2> QED
    BY <1>2, <1>3, <1>5, <2>1 DEF Numbered
<1>8. ASSUME NEW s \in Shards PROVE Snapshotting(s)'
  <2>1. Snapshotting(s)
    BY <1>3 DEF ArchInv
  <2>2. archiving'[s].kept \subseteq archiving[s].kept /\ archiving[s].kept \subseteq SpaceRows
    <3>1. archiving[s].kept \subseteq SpaceRows
      BY <1>5 DEF RunT
    <3>2. archiving'[s].kept \in {archiving[s].kept, archiving[s].kept \ {r}}
      BY <1>5
    <3> QED
      BY <3>1, <3>2
  <2>3. \A q \in archiving'[s].kept : Shard[q] = s /\ archiveId'[q] > 0
    <3> SUFFICES ASSUME NEW q \in archiving'[s].kept PROVE Shard[q] = s /\ archiveId'[q] > 0
      OBVIOUS
    <3>1. Shard[q] = s /\ archiveId[q] > 0 /\ q \in SpaceRows
      BY <2>1, <2>2 DEF Snapshotting
    <3>2. q # r
      BY <1>5, <3>1
    <3> QED
      BY <1>4, <3>1, <3>2
  <2> QED
    BY <1>5, <2>1, <2>2, <2>3 DEF Snapshotting
<1> QED
  BY <1>3, <1>6, <1>7, <1>8 DEF ArchInv

(* A step of one goroutine changes nothing but its own run.                *)
LEMMA RunKeeps ==
    ASSUME ArchInv, NEW s \in Shards, NEW c \in RunT,
           UNCHANGED <<mode, archiveId, sequencer, table>>,
           archiving' = [archiving EXCEPT ![s] = c],
           \A w \in c.batch : Shard[w.row] = s /\ w.id <= sequencer[s],
           mode = "full-snapshot" => Snapshotting(s)',
           mode # "full-snapshot" => Following(s)'
    PROVE  ArchInv'
<1>1. ArchTypes /\ Numbered
  BY DEF ArchInv
<1>2. archiving' \in [Shards -> RunT]
  BY <1>1 DEF ArchTypes
<1>3. \A t \in Shards : archiving'[t] = IF t = s THEN c ELSE archiving[t]
  BY <1>1 DEF ArchTypes
<1>4. ArchTypes'
  BY <1>1, <1>2 DEF ArchTypes
<1>5. Numbered'
  BY <1>1, <1>3 DEF Numbered
<1>6. \A r \in SpaceRows : Version(r)' = Version(r)
  BY DEF Version
<1>7. ASSUME NEW t \in Shards, t # s
      PROVE  /\ Snapshotting(t) => Snapshotting(t)'
             /\ Following(t) => Following(t)'
  <2>1. archiving'[t] = archiving[t]
    BY <1>3, <1>7
  <2> QED
    BY <1>6, <2>1 DEF Snapshotting, Following, TableFollows, BatchFollows
<1> QED
  BY <1>4, <1>5, <1>7 DEF ArchInv

LEMMA archiveUpdatedSpaceKeeps ==
    ASSUME ArchInv, NEW s \in Shards, archiveUpdatedSpace(s)
    PROVE  ArchInv'
<1>1. ArchTypes /\ Numbered /\ Following(s) /\ archiving[s] \in RunT
  BY DEF ArchInv, ArchTypes, archiveUpdatedSpace
<1>2. /\ getLastArchiveId(s) \in 0 .. sequencer[s]
      /\ \/ getLastArchiveId(s) = 0
         \/ \E v \in table : Shard[v.row] = s /\ getLastArchiveId(s) = v.id
  BY <1>1, LastArchived
<1>3. sequencer[s] \in Nat
  BY <1>1 DEF ArchTypes
<1>5. PICK n : n = getLastArchiveId(s)
  OBVIOUS
<1> DEFINE c == [archiving[s] EXCEPT !.pc = "batch", !.last = n]
<1>4. /\ mode' = mode /\ archiveId' = archiveId /\ sequencer' = sequencer /\ table' = table
      /\ archiving' = [archiving EXCEPT ![s] = c] /\ mode # "full-snapshot"
  BY <1>1, <1>5 DEF archiveUpdatedSpace, ArchTypes
<1>6. /\ c \in RunT /\ c.pc = "batch" /\ c.last = n /\ c.batch = archiving[s].batch
      /\ archiving'[s] = c
  <2>1. n \in Nat
    BY <1>2, <1>3, <1>5
  <2> QED
    BY <1>1, <1>4, <2>1 DEF RunT, ArchTypes
<1> HIDE DEF c
<1>7. \A w \in c.batch : Shard[w.row] = s /\ w.id <= sequencer[s]
  BY <1>1, <1>6 DEF Numbered
<1>8. \A r \in SpaceRows : Version(r)' = Version(r)
  BY <1>4 DEF Version
<1>9. \A r \in SpaceRows : Shard[r] = s /\ archiveId[r] \in 1 .. n => Version(r) \in table
  <2> SUFFICES ASSUME NEW r \in SpaceRows, Shard[r] = s, archiveId[r] \in 1 .. n
               PROVE  Version(r) \in table
    OBVIOUS
  <2>1. PICK v \in table : Shard[v.row] = s /\ n = v.id
    BY <1>2, <1>5
  <2> QED
    BY <1>1, <2>1 DEF Following, TableFollows
<1>10. Following(s)'
  <2>1. TableFollows(s)'
    BY <1>1, <1>2, <1>4, <1>5, <1>6, <1>8, <1>9 DEF Following, TableFollows
  <2> QED
    BY <1>6, <2>1 DEF Following, BatchFollows
<1> QED
  BY <1>4, <1>6, <1>7, <1>10, RunKeeps

LEMMA getNextBatchKeeps ==
    ASSUME ArchInv, NEW s \in Shards, getNextBatch(s)
    PROVE  ArchInv'
<1> DEFINE newer == {r \in RowsOf(s) : archiveId[r] > archiving[s].last}
           c == [archiving[s] EXCEPT !.pc = "sync", !.batch = {Version(r) : r \in Batch(s)}]
<1>1. ArchTypes /\ Numbered /\ Following(s) /\ archiving[s] \in RunT /\ mode # "full-snapshot"
  BY DEF ArchInv, ArchTypes, getNextBatch, Snapshotting
<1>2. /\ mode' = mode /\ archiveId' = archiveId /\ sequencer' = sequencer /\ table' = table
      /\ archiving' = [archiving EXCEPT ![s] = c] /\ archiving[s].pc = "batch"
  BY DEF getNextBatch
<1>3. \A r \in newer : r \in SpaceRows /\ Shard[r] = s /\ archiving[s].last < archiveId[r]
  BY <1>1 DEF RowsOf, ArchTypes, RunT
<1>4. Batch(s) = {r \in newer : Cardinality({q \in newer : archiveId[q] < archiveId[r]}) < SyncBatch}
  BY DEF Batch
<1>5. /\ c \in RunT /\ c.pc = "sync" /\ c.last = archiving[s].last
      /\ c.batch = {Version(r) : r \in Batch(s)} /\ archiving'[s] = c
  <2>1. {Version(r) : r \in Batch(s)} \in SUBSET Versions
    <3> SUFFICES ASSUME NEW r \in Batch(s) PROVE Version(r) \in Versions
      OBVIOUS
    <3>1. r \in SpaceRows
      BY <1>3, <1>4
    <3> QED
      BY <1>1, <3>1 DEF Version, Versions, ArchTypes
  <2> QED
    BY <1>1, <1>2, <2>1 DEF RunT, ArchTypes
<1>6. \A x, y \in newer : y \in Batch(s) /\ archiveId[x] <= archiveId[y] => x \in Batch(s)
  <2> SUFFICES ASSUME NEW x \in newer, NEW y \in newer, y \in Batch(s), archiveId[x] <= archiveId[y]
               PROVE  x \in Batch(s)
    OBVIOUS
  <2>1. IsFiniteSet(newer)
    BY ArchiverAssumption, FS_Subset DEF RowsOf
  <2>2. \A q \in newer : archiveId[q] \in Nat
    BY <1>1, <1>3 DEF ArchTypes
  <2>3. Cardinality({q \in newer : archiveId[q] < archiveId[y]}) < SyncBatch /\ SyncBatch \in Nat
    BY <1>4, ArchiverAssumption
  <2> HIDE DEF newer
  <2>4. Cardinality({q \in newer : archiveId[q] < archiveId[x]}) < SyncBatch
    BY <2>1, <2>2, <2>3, LowerPart
  <2> QED
    BY <1>4, <2>4
<1>7. \A r \in SpaceRows : Version(r)' = Version(r) /\ Version(r).row = r /\ Version(r).id = archiveId[r]
  BY <1>2 DEF Version
<1>8. \A r \in SpaceRows : Shard[r] = s /\ archiveId[r] > archiving[s].last => r \in newer
  BY <1>1 DEF RowsOf, ArchTypes, RunT
<1>9. Batch(s) \subseteq newer
  BY <1>4
<1> HIDE DEF c, newer
<1>10. \A w \in c.batch : w.row \in Batch(s) /\ w = Version(w.row) /\ w.id = archiveId[w.row]
  BY <1>3, <1>5, <1>7, <1>9
<1>11. \A w \in c.batch : Shard[w.row] = s /\ w.id <= sequencer[s]
  BY <1>1, <1>3, <1>9, <1>10 DEF Numbered
<1>12. BatchFollows(s)'
  <2> SUFFICES ASSUME NEW w \in c.batch
               PROVE  /\ c.last < w.id /\ w.id <= archiveId[w.row]
                      /\ \A r \in SpaceRows :
                            Shard[r] = s /\ archiveId[r] \in c.last + 1 .. w.id => Version(r) \in c.batch
                      /\ ~(w.id < archiveId[w.row])
    BY <1>2, <1>5, <1>7 DEF BatchFollows
  <2>1. w.row \in newer /\ w.row \in SpaceRows /\ w.id = archiveId[w.row]
    BY <1>3, <1>9, <1>10
  <2>2. archiveId[w.row] \in Nat /\ c.last \in Nat /\ c.last < w.id
    BY <1>1, <1>3, <1>5, <2>1 DEF ArchTypes, RunT
  <2>3. ASSUME NEW r \in SpaceRows, Shard[r] = s, archiveId[r] \in c.last + 1 .. w.id
        PROVE  Version(r) \in c.batch
    <3>1. r \in newer
      BY <1>1, <1>5, <1>8, <2>2, <2>3
    <3>2. r \in Batch(s)
      BY <1>6, <1>10, <2>1, <2>3, <3>1
    <3> QED
      BY <1>5, <3>2
  <2> QED
    BY <2>1, <2>2, <2>3
<1>13. Following(s)'
  <2>1. TableFollows(s)'
    BY <1>1, <1>2, <1>5, <1>7 DEF Following, TableFollows
  <2> QED
    BY <1>5, <1>12, <2>1 DEF Following
<1> QED
  BY <1>1, <1>2, <1>5, <1>11, <1>13, RunKeeps

LEMMA archiveFullSpaceKeeps ==
    ASSUME ArchInv, NEW s \in Shards, archiveFullSpace(s)
    PROVE  ArchInv'
<1> DEFINE c == [NoRun EXCEPT !.pc = "scan", !.kept = RowsOf(s)]
<1>1. ArchTypes
  BY DEF ArchInv
<1>2. /\ mode' = mode /\ archiveId' = archiveId /\ sequencer' = sequencer /\ table' = table
      /\ archiving' = [archiving EXCEPT ![s] = c] /\ mode = "full-snapshot"
  BY DEF archiveFullSpace
<1>3. /\ c \in RunT /\ c.pc = "scan" /\ c.last = 0 /\ c.batch = {} /\ c.kept = RowsOf(s)
      /\ archiving'[s] = c
  BY <1>1, <1>2 DEF NoRun, RunT, RowsOf, ArchTypes
<1> HIDE DEF c
<1>4. \A r \in RowsOf(s) : Shard[r] = s /\ archiveId[r] > 0 /\ r \in Nat /\ r > 0
  BY ArchiverAssumption DEF RowsOf
<1>5. Snapshotting(s)'
  BY <1>2, <1>3, <1>4 DEF Snapshotting
<1> QED
  BY <1>2, <1>3, <1>5, RunKeeps

(* A batch with different rows is not larger than the space.               *)
LEMMA BatchWithin ==
    ASSUME NEW B \in SUBSET Versions, \A v, w \in B : v.row = w.row => v = w
    PROVE  Cardinality(B) \in Nat /\ Cardinality(B) <= Cardinality(SpaceRows)
<1> DEFINE f == [v \in B |-> v.row]
<1>1. f \in Injection(B, SpaceRows)
  BY DEF Injection, IsInjective, Versions
<1>2. IsFiniteSet(SpaceRows)
  BY ArchiverAssumption
<1> HIDE DEF f
<1>3. IsFiniteSet(B) /\ Cardinality(B) <= Cardinality(SpaceRows)
  BY <1>1, <1>2, FS_Injection
<1> QED
  BY <1>3, FS_CardinalityType

(* A page goes on where the last one ended; the last one reaches the end   *)
(* of the space.                                                           *)
LEMMA getNextPageKeeps ==
    ASSUME ArchInv, Cardinality(SpaceRows) <= BatcherLimit, NEW s \in Shards, getNextPage(s)
    PROVE  ArchInv'
<1> DEFINE k == archiving[s].last
           after == {r \in RowsOf(s) : r > k}
           page == {r \in after : Cardinality({q \in after : q < r}) < SyncBatch}
           batch == archiving[s].batch \cup {Version(r) : r \in page}
<1>1. ArchTypes /\ Numbered /\ Snapshotting(s) /\ archiving[s] \in RunT /\ mode = "full-snapshot"
  BY DEF ArchInv, ArchTypes, getNextPage, Following
<1>2. PICK m, p : m = Max(page \cup {k}) /\ p = IF LastPage(page, batch) THEN "sync" ELSE "scan"
  OBVIOUS
<1> DEFINE c == [archiving[s] EXCEPT !.batch = batch, !.last = m, !.pc = p]
<1>3. /\ mode' = mode /\ archiveId' = archiveId /\ sequencer' = sequencer /\ table' = table
      /\ archiving' = [archiving EXCEPT ![s] = c] /\ archiving[s].pc = "scan"
  BY <1>1, <1>2 DEF getNextPage, ArchTypes
<1>4. /\ k \in Nat /\ archiving[s].batch \in SUBSET Versions
      /\ archiving[s].kept \subseteq SpaceRows
  BY <1>1 DEF RunT
<1>5. \A r \in after : r \in SpaceRows /\ r \in Nat /\ Shard[r] = s /\ archiveId[r] > 0 /\ r > k
  BY ArchiverAssumption DEF RowsOf
<1>6. IsFiniteSet(after) /\ IsFiniteSet(page)
  <2>1. after \subseteq SpaceRows /\ page \subseteq SpaceRows
    BY <1>5
  <2> HIDE DEF after, page
  <2> QED
    BY <2>1, ArchiverAssumption, FS_Subset
<1>7. m \in page \cup {k} /\ m \in Nat /\ k <= m /\ \A r \in page : r <= m
  <2> DEFINE S == page \cup {k}
  <2>1. S \in SUBSET Nat /\ S # {}
    BY <1>4, <1>5
  <2>2. IsFiniteSet(S)
    <3> HIDE DEF page, k
    <3> QED
      BY <1>6, FS_AddElement
  <2> HIDE DEF S
  <2>3. Max(S) \in S /\ \A y \in S : y <= Max(S)
    BY <2>1, <2>2, MaxIn
  <2> QED
    BY <1>2, <2>1, <2>3 DEF S
<1>8. \A x, y \in after : y \in page /\ x <= y => x \in page
  <2> SUFFICES ASSUME NEW x \in after, NEW y \in page, x <= y PROVE x \in page
    OBVIOUS
  <2> DEFINE key == [q \in after |-> q]
  <2>1. SyncBatch \in Nat /\ y \in after /\ \A q \in after : key[q] \in Nat
    BY <1>5, ArchiverAssumption
  <2>2. /\ {q \in after : key[q] < key[x]} = {q \in after : q < x}
        /\ {q \in after : key[q] < key[y]} = {q \in after : q < y}
    BY <2>1
  <2>3. Cardinality({q \in after : key[q] < key[y]}) < SyncBatch /\ key[x] <= key[y]
    BY <2>1, <2>2
  <2> HIDE DEF after, key
  <2>4. Cardinality({q \in after : key[q] < key[x]}) < SyncBatch
    BY <1>6, <2>1, <2>3, LowerPart
  <2> QED
    BY <2>2, <2>4
<1>9. Cardinality(page) < SyncBatch => page = after
  <2> SUFFICES ASSUME Cardinality(page) < SyncBatch PROVE \A r \in after : r \in page
    OBVIOUS
  <2>1. after \in SUBSET Nat /\ SyncBatch \in Nat
    BY <1>5, ArchiverAssumption
  <2> HIDE DEF after
  <2>2. \A r \in after : Cardinality({q \in after : q < r}) < SyncBatch
    BY <1>6, <2>1, WholePart
  <2> QED
    BY <2>2
<1>10. page \subseteq after
  OBVIOUS
<1>11. \A r \in archiving[s].kept : r > k => r \in after
  BY <1>1, <1>4, ArchiverAssumption DEF Snapshotting, RowsOf
<1> HIDE DEF after, page
<1>12. \A r \in page : Version(r) \in Versions /\ Version(r).row = r /\ Version(r).id = archiveId[r]
  BY <1>1, <1>5, <1>10 DEF Version, Versions, ArchTypes
<1>13. batch \in SUBSET Versions
  BY <1>4, <1>12
<1>14. \A v \in archiving[s].batch : v.row <= k /\ v.row \in Nat
  BY <1>1, <1>3, <1>4, ArchiverAssumption DEF Snapshotting, Versions
<1>15. \A v \in batch : v.row <= m
  BY <1>4, <1>7, <1>12, <1>14
<1>16. \A v, w \in batch : v.row = w.row => v = w
  <2>1. \A v, w \in archiving[s].batch : v.row = w.row => v = w
    BY <1>1, <1>3 DEF Snapshotting
  <2>2. \A r, q \in page : Version(r).row = Version(q).row => Version(r) = Version(q)
    BY <1>12
  <2>3. \A v \in archiving[s].batch : \A r \in page : v.row # Version(r).row
    BY <1>4, <1>5, <1>10, <1>12, <1>14
  <2> QED
    BY <2>1, <2>2, <2>3
<1>17. \A r \in archiving[s].kept : r \in page \/ r <= k => \E v \in batch : v.row = r
  BY <1>1, <1>3, <1>12 DEF Snapshotting
<1>18. p = "sync" => page = after
  <2>1. Cardinality(batch) \in Nat /\ Cardinality(batch) <= Cardinality(SpaceRows)
    <3> HIDE DEF batch
    <3> QED
      BY <1>13, <1>16, BatchWithin
  <2>2. BatcherLimit \in Nat /\ Cardinality(SpaceRows) \in Nat
    BY ArchiverAssumption, FS_CardinalityType
  <2> QED
    BY <1>2, <1>9, <2>1, <2>2 DEF LastPage
<1>19. p \in {"sync", "scan"}
  BY <1>2
<1> HIDE DEF k, batch
<1>20. /\ c \in RunT /\ c.pc = p /\ c.last = m /\ c.batch = batch /\ c.kept = archiving[s].kept
       /\ archiving'[s] = c
  BY <1>1, <1>3, <1>7, <1>13, <1>19 DEF RunT, ArchTypes
<1> HIDE DEF c
<1>21. \A w \in c.batch : Shard[w.row] = s /\ w.id <= sequencer[s]
  <2>1. \A w \in archiving[s].batch : Shard[w.row] = s /\ w.id <= sequencer[s]
    BY <1>1 DEF Numbered
  <2>2. \A r \in page : Shard[r] = s /\ archiveId[r] <= sequencer[s]
    BY <1>1, <1>5, <1>10 DEF Numbered
  <2> QED
    BY <1>12, <1>20, <2>1, <2>2 DEF batch
<1>22. \A r \in c.kept : r \in Nat /\ (r > k => r \in after)
  BY <1>4, <1>11, <1>20, ArchiverAssumption
<1>23. \A r \in c.kept : r <= m => \E v \in batch : v.row = r
  <2> SUFFICES ASSUME NEW r \in c.kept, r <= m PROVE r \in page \/ r <= k
    BY <1>17, <1>20
  <2>1. CASE r > k
    <3>1. m \in page
      BY <1>4, <1>7, <1>22, <2>1
    <3> QED
      BY <1>8, <1>10, <1>22, <2>1, <3>1
  <2>2. CASE ~(r > k)
    BY <1>4, <1>22, <2>2
  <2> QED
    BY <2>1, <2>2
<1>24. p = "sync" => \A r \in c.kept : \E v \in batch : v.row = r
  BY <1>4, <1>17, <1>18, <1>20, <1>22
<1>25. Snapshotting(s)'
  BY <1>1, <1>3, <1>15, <1>16, <1>19, <1>20, <1>23, <1>24 DEF Snapshotting
<1> QED
  BY <1>1, <1>3, <1>20, <1>21, <1>25, RunKeeps

(* The batch joins the table, in the live modes in place of older versions *)
(* of its rows.                                                            *)
LEMMA syncKeeps ==
    ASSUME ArchInv, NEW s \in Shards, sync(s)
    PROVE  ArchInv'
<1> DEFINE B == archiving[s].batch
<1>1. ArchTypes /\ Numbered /\ archiving[s] \in RunT
  BY DEF ArchInv, ArchTypes
<1>2. /\ mode' = mode /\ archiveId' = archiveId /\ sequencer' = sequencer
      /\ archiving' = [archiving EXCEPT ![s] = NoRun] /\ archiving[s].pc = "sync"
      /\ table' = table \cup B \/ table' = (table \ Overwritten(B)) \cup B
  BY DEF sync
<1>3. \A w \in B : w \in Versions /\ w.row \in SpaceRows /\ w.id \in Nat /\ Shard[w.row] = s
                   /\ w.id <= sequencer[s]
  BY <1>1 DEF RunT, Versions, Numbered
<1>4. \A t \in Shards : archiving'[t] = IF t = s THEN NoRun ELSE archiving[t]
  BY <1>1, <1>2 DEF ArchTypes
<1>5. \A v \in table' : v \in table \/ v \in B
  BY <1>2
<1>6. \A v \in B : v \in table'
  BY <1>2
<1>7. \A v \in table : v \in table' \/ \E w \in B : w.row = v.row
  BY <1>2 DEF Overwritten
<1>8. \A v \in table : v \in Versions /\ v.row \in SpaceRows /\ v.id \in Nat
  BY <1>1 DEF ArchTypes, Versions
<1>9. \A r \in SpaceRows : /\ Version(r)' = Version(r) /\ Version(r).row = r
                           /\ Version(r).id = archiveId[r] /\ archiveId[r] \in Nat
  BY <1>1, <1>2 DEF Version, ArchTypes
<1> HIDE DEF B
<1>10. ArchTypes'
  <2>1. NoRun \in RunT
    BY DEF NoRun, RunT
  <2>2. archiving' \in [Shards -> RunT]
    BY <1>1, <1>2, <2>1 DEF ArchTypes
  <2>3. table' \in SUBSET Versions
    BY <1>3, <1>5, <1>8
  <2> QED
    BY <1>1, <1>2, <2>2, <2>3 DEF ArchTypes
<1>11. Numbered'
  <2>1. \A v \in table' : v.id <= sequencer[Shard[v.row]]
    BY <1>1, <1>3, <1>5 DEF Numbered
  <2>2. \A t \in Shards : \A w \in archiving'[t].batch : Shard[w.row] = t /\ w.id <= sequencer[t]
    BY <1>1, <1>4 DEF Numbered, NoRun
  <2> QED
    BY <1>1, <1>2, <2>1, <2>2 DEF Numbered
<1>12. ASSUME NEW t \in Shards, Snapshotting(t) PROVE Snapshotting(t)'
  BY <1>2, <1>4, <1>12 DEF Snapshotting, NoRun
<1>13. ASSUME NEW t \in Shards, t # s, Following(t) PROVE Following(t)'
  <2>1. archiving'[t] = archiving[t]
    BY <1>4, <1>13
  <2>2. \A v \in Versions : Shard[v.row] = t => (v \in table' <=> v \in table)
    BY <1>3, <1>5, <1>7, <1>13
  <2>3. \A r \in SpaceRows : Version(r) \in Versions /\ Version(r)' = Version(r) /\ Version(r).row = r
    BY <1>9 DEF Versions, Version
  <2>4. \A v \in table' : Shard[v.row] = t => v \in table
    BY <1>3, <1>5, <1>13
  <2>5. TableFollows(t)'
    BY <1>2, <1>13, <2>1, <2>2, <2>3, <2>4 DEF Following, TableFollows
  <2>6. BatchFollows(t)'
    BY <1>2, <1>13, <2>1, <2>3, <2>4 DEF Following, BatchFollows
  <2> QED
    BY <1>13, <2>1, <2>5, <2>6 DEF Following
<1>14. ASSUME Following(s) PROVE Following(s)'
  <2>1. archiving'[s].pc = "idle"
    BY <1>4 DEF NoRun
  <2>2. archiving[s].last \in Nat
    BY <1>1 DEF RunT
  <2>3. \A w \in B :
            /\ archiving[s].last < w.id /\ w.id <= archiveId[w.row]
            /\ \A r \in SpaceRows :
                  Shard[r] = s /\ archiveId[r] \in archiving[s].last + 1 .. w.id => Version(r) \in B
            /\ w.id < archiveId[w.row] =>
                  \A v \in table : Shard[v.row] = s => v.id < archiveId[w.row]
    BY <1>2, <1>14 DEF Following, BatchFollows, B
  <2>4. /\ \A r \in SpaceRows : \A v \in table :
              Shard[r] = s /\ Shard[v.row] = s /\ archiveId[r] \in 1 .. v.id => Version(r) \in table
        /\ \A r \in SpaceRows :
              Shard[r] = s /\ archiveId[r] \in 1 .. archiving[s].last => Version(r) \in table
    BY <1>2, <1>14 DEF Following, TableFollows
  <2>5. ASSUME NEW r \in SpaceRows, NEW w \in B, w.row = r
        PROVE  \/ Version(r) \in B
               \/ /\ archiveId[r] > w.id
                  /\ \A v \in table : Shard[v.row] = s => v.id < archiveId[r]
    <3>1. CASE w.id = archiveId[r]
      <4>1. w = Version(r)
        BY <1>3, <2>5, <3>1 DEF Version, Versions
      <4> QED
        BY <4>1
    <3>2. CASE w.id # archiveId[r]
      BY <1>3, <1>9, <2>3, <2>5, <3>2
    <3> QED
      BY <3>1, <3>2
  <2>6. ASSUME NEW r \in SpaceRows, NEW v \in table', Shard[r] = s, Shard[v.row] = s,
               archiveId[r] \in 1 .. v.id
        PROVE  Version(r) \in table'
    <3>1. CASE v \in B
      <4>1. CASE archiveId[r] <= archiving[s].last
        <5>1. Version(r) \in table
          BY <1>9, <2>2, <2>4, <2>6, <4>1
        <5>2. ASSUME NEW w \in B, w.row = r PROVE FALSE
          <6>1. archiving[s].last < w.id /\ w.id <= archiveId[r] /\ w.id \in Nat
            BY <1>3, <2>3, <5>2
          <6> QED
            BY <1>9, <2>2, <4>1, <6>1
        <5> QED
          BY <1>7, <1>9, <5>1, <5>2
      <4>2. CASE ~(archiveId[r] <= archiving[s].last)
        <5>1. archiveId[r] \in archiving[s].last + 1 .. v.id
          BY <1>3, <1>9, <2>2, <2>6, <3>1, <4>2
        <5>2. Version(r) \in B
          BY <2>3, <2>6, <3>1, <5>1
        <5> QED
          BY <1>6, <5>2
      <4> QED
        BY <4>1, <4>2
    <3>2. CASE v \notin B
      <4>1. v \in table
        BY <1>5, <3>2
      <4>2. Version(r) \in table
        BY <2>4, <2>6, <4>1
      <4>3. ASSUME NEW w \in B, w.row = r PROVE Version(r) \in B
        <5>1. ~(v.id < archiveId[r])
          BY <1>8, <1>9, <2>6, <4>1
        <5> QED
          BY <2>5, <2>6, <4>1, <4>3, <5>1
      <4> QED
        BY <1>6, <1>7, <1>9, <4>2, <4>3
    <3> QED
      BY <3>1, <3>2
  <2>7. TableFollows(s)'
    BY <1>2, <1>9, <2>1, <2>6 DEF TableFollows
  <2>8. BatchFollows(s)'
    BY <2>1 DEF BatchFollows
  <2> QED
    BY <2>1, <2>7, <2>8 DEF Following
<1>15. \A t \in Shards :
          IF mode' = "full-snapshot" THEN Snapshotting(t)' ELSE Following(t)'
  BY <1>2, <1>12, <1>13, <1>14 DEF ArchInv
<1> QED
  BY <1>10, <1>11, <1>15 DEF ArchInv

(* A new process starts from the table.                                    *)
LEMMA ArchiverEndsKeeps ==
    ASSUME ArchInv, ArchiverEnds
    PROVE  ArchInv'
<1>1. ArchTypes /\ Numbered
  BY DEF ArchInv
<1>2. /\ mode' = mode /\ archiveId' = archiveId /\ sequencer' = sequencer /\ table' = table
      /\ archiving' = [s \in Shards |-> NoRun]
  BY DEF ArchiverEnds
<1>3. NoRun \in RunT
  BY DEF NoRun, RunT
<1>4. ArchTypes'
  BY <1>1, <1>2, <1>3 DEF ArchTypes
<1>5. Numbered'
  BY <1>1, <1>2 DEF Numbered, NoRun
<1>6. \A r \in SpaceRows : Version(r)' = Version(r)
  BY <1>2 DEF Version
<1>7. ASSUME NEW s \in Shards PROVE Snapshotting(s)'
  BY <1>2 DEF Snapshotting, NoRun
<1>8. ASSUME NEW s \in Shards, Following(s) PROVE Following(s)'
  BY <1>2, <1>6, <1>8 DEF Following, TableFollows, BatchFollows, NoRun
<1> QED
  BY <1>2, <1>4, <1>5, <1>7, <1>8 DEF ArchInv

LEMMA ArchStepKeeps ==
    ASSUME ArchInv, Cardinality(SpaceRows) <= BatcherLimit, [ArchiverNext]_archiverVars
    PROVE  ArchInv'
<1>1. CASE UNCHANGED archiverVars
  <2>1. \A r \in SpaceRows : Version(r)' = Version(r)
    BY <1>1 DEF archiverVars, Version
  <2> QED
    BY <1>1, <2>1 DEF archiverVars, ArchInv, ArchTypes, Numbered, Snapshotting, Following, TableFollows,
                      BatchFollows
<1>2. CASE \E r \in SpaceRows : WriteRow(r) \/ DeleteRow(r)
  BY <1>2, WriteRowKeeps, DeleteRowKeeps
<1>3. CASE \E s \in Shards : ArchiveStep(s)
  BY <1>3, archiveUpdatedSpaceKeeps, getNextBatchKeeps, archiveFullSpaceKeeps, getNextPageKeeps,
     syncKeeps DEF ArchiveStep
<1>4. CASE ArchiverEnds
  BY <1>4, ArchiverEndsKeeps
<1> QED
  BY <1>1, <1>2, <1>3, <1>4 DEF ArchiverNext

(* The archiver passes over no change and a full snapshot has every row    *)
(* that stayed, whatever order rows change in and wherever the process     *)
(* ends; spaces are not larger than maxBatcherLimit, above which the code  *)
(* cuts a snapshot off and warns.                                          *)
THEOREM ArchiveLeavesNothingOut ==
    ASSUME Cardinality(SpaceRows) <= BatcherLimit
    PROVE  ArchiverSpec => [](\A s \in Shards : NothingSkipped(s)) /\ SnapshotHasAll
<1>1. ArchInv /\ [ArchiverNext]_archiverVars => ArchInv'
  BY ArchStepKeeps
<1>2. ArchInv => \A s \in Shards : NothingSkipped(s)
  <2> SUFFICES ASSUME ArchInv, NEW s \in Shards, mode # "full-snapshot", NEW r \in SpaceRows,
                      Shard[r] = s, archiveId[r] \in 1 .. getLastArchiveId(s)
               PROVE  Version(r) \in table
    BY DEF NothingSkipped
  <2>1. ArchTypes /\ Numbered /\ TableFollows(s)
    BY DEF ArchInv, Following
  <2>2. PICK n : n = getLastArchiveId(s)
    OBVIOUS
  <2>3. n = 0 \/ \E v \in table : Shard[v.row] = s /\ n = v.id
    BY <2>1, <2>2, LastArchived
  <2>4. n # 0
    BY <2>2
  <2> QED
    BY <2>1, <2>2, <2>3, <2>4 DEF TableFollows
<1>3. ArchInv => \A s \in Shards : mode = "full-snapshot" /\ archiving[s].pc = "sync" =>
                      archiving[s].kept \subseteq {v.row : v \in archiving[s].batch}
  BY DEF ArchInv, Snapshotting
<1> QED
  BY <1>1, <1>2, <1>3, ArchInitHolds, PTL DEF ArchiverSpec, SnapshotHasAll

===============================================================================
