------------------------------ MODULE Sums_proof ------------------------------
(***************************************************************************)
(* Sums over finite sets, as the aggregates of the code are stated in the  *)
(* other modules (SumFunctionOnSet): what one changed entry does to a sum. *)
(* The sum is a recursive function over subsets; that it exists, and what  *)
(* it computes, is shown by taking a smallest counterexample, which        *)
(* LeastSubset finds.                                                      *)
(***************************************************************************)
EXTENDS FiniteSetsExt, FiniteSetTheorems, WellFoundedInduction, TLAPS

(* Among subsets of a finite set there is a least one.                     *)
LEMMA LeastSubset ==
    ASSUME NEW S, IsFiniteSet(S), NEW T \in SUBSET SUBSET S, T # {}
    PROVE  \E U \in T : \A V \in T : ~(V \subseteq U /\ V # U)
<1>1. IsWellFoundedOn(StrictSubsetOrdering(S), SUBSET S)
  BY FS_StrictSubsetOrderingWellFounded, FS_FiniteSubsetsOfFinite
<1>2. \E U \in T : \A V \in T : ~(<<V, U>> \in StrictSubsetOrdering(S))
  BY <1>1, WFMin
<1> QED
  BY <1>2 DEF StrictSubsetOrdering

(* The element a sum over s begins with.                                   *)
First(s) == CHOOSE x \in s : TRUE

(* h is the function the recursion of a sum of f defines on subsets of S.  *)
SumsOver(f, S, h) ==
    h = [s \in SUBSET S |-> IF s = {} THEN 0 ELSE f[First(s)] + h[s \ {First(s)}]]

SumsOf(f, S) == CHOOSE h : SumsOver(f, S, h)

(* The first element of a set that has one is in it.                       *)
LEMMA FirstIn ==
    ASSUME NEW s, s # {}
    PROVE  First(s) \in s
  BY DEF First

(* Two functions that satisfy the recursion agree where both are           *)
(* defined.                                                                *)
LEMMA SumsAgree ==
    ASSUME NEW f, NEW S, IsFiniteSet(S), NEW U \in SUBSET S,
           NEW h, SumsOver(f, S, h), NEW k, SumsOver(f, U, k)
    PROVE  \A s \in SUBSET U : h[s] = k[s]
<1> DEFINE T == {s \in SUBSET U : h[s] # k[s]}
<1> SUFFICES ASSUME T # {} PROVE FALSE
  OBVIOUS
<1>1. IsFiniteSet(U)
  BY FS_Subset
<1>2. PICK s \in T : \A V \in T : ~(V \subseteq s /\ V # s)
  <2>1. T \in SUBSET SUBSET U
    OBVIOUS
  <2> HIDE DEF T
  <2> QED
    BY <1>1, <2>1, LeastSubset
<1>3. s # {}
  BY <1>2 DEF SumsOver
<1>4. First(s) \in s
  BY <1>3, FirstIn
<1>5. s \ {First(s)} \in SUBSET U /\ s \ {First(s)} \subseteq s /\ s \ {First(s)} # s
  BY <1>2, <1>4
<1>6. h[s \ {First(s)}] = k[s \ {First(s)}]
  BY <1>2, <1>5
<1>7. h[s] = f[First(s)] + h[s \ {First(s)}]
  BY <1>3 DEF SumsOver
<1>8. k[s] = f[First(s)] + k[s \ {First(s)}]
  BY <1>3 DEF SumsOver
<1> QED
  BY <1>6, <1>7, <1>8

(* The recursion has a solution on every finite set.                       *)
LEMMA SumsExist ==
    ASSUME NEW f, NEW S, IsFiniteSet(S)
    PROVE  SumsOver(f, S, SumsOf(f, S))
<1> DEFINE T == {U \in SUBSET S : ~SumsOver(f, U, SumsOf(f, U))}
<1> SUFFICES ASSUME T # {} PROVE FALSE
  OBVIOUS
<1>1. PICK U \in T : \A V \in T : ~(V \subseteq U /\ V # U)
  <2>1. T \in SUBSET SUBSET S
    OBVIOUS
  <2> HIDE DEF T
  <2> QED
    BY <2>1, LeastSubset
<1>2. \A V \in SUBSET U : V # U => SumsOver(f, V, SumsOf(f, V))
  BY <1>1
<1>3. ASSUME NEW V \in SUBSET U, V # U
      PROVE  \A W \in SUBSET V : SumsOf(f, V)[W] = SumsOf(f, W)[W]
  <2> SUFFICES ASSUME NEW W \in SUBSET V PROVE SumsOf(f, V)[W] = SumsOf(f, W)[W]
    OBVIOUS
  <2>1. IsFiniteSet(V)
    BY FS_Subset
  <2>2. SumsOver(f, V, SumsOf(f, V)) /\ SumsOver(f, W, SumsOf(f, W))
    BY <1>2, <1>3
  <2> QED
    BY <2>1, <2>2, SumsAgree
<1> DEFINE step(s) == IF s = {} THEN 0
                      ELSE f[First(s)] + SumsOf(f, s \ {First(s)})[s \ {First(s)}]
           h == [s \in SUBSET U |-> step(s)]
<1>4. ASSUME NEW s \in SUBSET U, s # U
      PROVE  h[s] = SumsOf(f, s)[s]
  <2>1. SumsOver(f, s, SumsOf(f, s))
    BY <1>2, <1>4
  <2>2. SumsOf(f, s)[s] = IF s = {} THEN 0 ELSE f[First(s)] + SumsOf(f, s)[s \ {First(s)}]
    BY <2>1 DEF SumsOver
  <2>3. SumsOf(f, s)[s \ {First(s)}] = SumsOf(f, s \ {First(s)})[s \ {First(s)}]
    BY <1>3, <1>4
  <2> QED
    BY <2>2, <2>3
<1>5. ASSUME NEW s \in SUBSET U
      PROVE  step(s) = IF s = {} THEN 0 ELSE f[First(s)] + h[s \ {First(s)}]
  <2>1. CASE s = {}
    BY <2>1
  <2>2. CASE s # {}
    <3>1. First(s) \in s
      BY <2>2, FirstIn
    <3>2. s \ {First(s)} \in SUBSET U /\ s \ {First(s)} # U
      BY <3>1
    <3> HIDE DEF h
    <3>3. h[s \ {First(s)}] = SumsOf(f, s \ {First(s)})[s \ {First(s)}]
      BY <1>4, <3>2
    <3> QED
      BY <2>2, <3>3
  <2> QED
    BY <2>1, <2>2
<1>6. SumsOver(f, U, h)
  BY <1>5 DEF SumsOver
<1>7. SumsOver(f, U, SumsOf(f, U))
  BY <1>6 DEF SumsOf
<1> QED
  BY <1>1, <1>7

-----------------------------------------------------------------------------
(* SumFunctionOnSet is the value of that solution.                         *)
LEMMA SumIsSumsOf ==
    ASSUME NEW f, NEW S
    PROVE  SumFunctionOnSet(f, S) = SumsOf(f, S)[S]
  BY DEF SumFunctionOnSet, FoldFunctionOnSet, MapThenFoldSet, SumsOver, SumsOf, First

(* Nothing sums to zero.                                                   *)
LEMMA SumEmpty ==
    ASSUME NEW f
    PROVE  SumFunctionOnSet(f, {}) = 0
<1>1. SumsOver(f, {}, SumsOf(f, {}))
  BY FS_EmptySet, SumsExist
<1> QED
  BY <1>1, SumIsSumsOf DEF SumsOver

(* A sum is its first term and the sum of the others.                      *)
LEMMA SumStep ==
    ASSUME NEW f, NEW S, IsFiniteSet(S), S # {}
    PROVE  SumFunctionOnSet(f, S) = f[First(S)] + SumFunctionOnSet(f, S \ {First(S)})
<1> DEFINE U == S \ {First(S)}
<1>1. U \in SUBSET S /\ IsFiniteSet(U)
  BY FS_Subset
<1>2. SumsOver(f, S, SumsOf(f, S)) /\ SumsOver(f, U, SumsOf(f, U))
  BY <1>1, SumsExist
<1>3. SumsOf(f, S)[S] = f[First(S)] + SumsOf(f, S)[U]
  BY <1>2 DEF SumsOver
<1>4. SumsOf(f, S)[U] = SumsOf(f, U)[U]
  BY <1>1, <1>2, SumsAgree
<1> QED
  BY <1>3, <1>4, SumIsSumsOf

(* A sum of integers is an integer.                                        *)
LEMMA SumType ==
    ASSUME NEW S, IsFiniteSet(S), NEW f, \A x \in S : f[x] \in Int
    PROVE  SumFunctionOnSet(f, S) \in Int
<1> DEFINE T == {U \in SUBSET S : SumFunctionOnSet(f, U) \notin Int}
<1> SUFFICES ASSUME T # {} PROVE FALSE
  OBVIOUS
<1>1. PICK U \in T : \A V \in T : ~(V \subseteq U /\ V # U)
  <2>1. T \in SUBSET SUBSET S
    OBVIOUS
  <2> HIDE DEF T
  <2> QED
    BY <2>1, LeastSubset
<1>2. U # {}
  <2>1. SumFunctionOnSet(f, {}) \in Int
    BY SumEmpty
  <2> QED
    BY <1>1, <2>1
<1>3. First(U) \in U
  BY <1>2, FirstIn
<1>4. SumFunctionOnSet(f, U \ {First(U)}) \in Int
  BY <1>1, <1>3
<1>5. SumFunctionOnSet(f, U) = f[First(U)] + SumFunctionOnSet(f, U \ {First(U)})
  BY <1>1, <1>2, SumStep, FS_Subset
<1> QED
  BY <1>1, <1>3, <1>4, <1>5

(* Functions that agree on a set have the same sum over it.                *)
LEMMA SumSame ==
    ASSUME NEW S, IsFiniteSet(S), NEW f, NEW g, \A x \in S : f[x] = g[x]
    PROVE  SumFunctionOnSet(f, S) = SumFunctionOnSet(g, S)
<1> DEFINE T == {U \in SUBSET S : SumFunctionOnSet(f, U) # SumFunctionOnSet(g, U)}
<1> SUFFICES ASSUME T # {} PROVE FALSE
  OBVIOUS
<1>1. PICK U \in T : \A V \in T : ~(V \subseteq U /\ V # U)
  <2>1. T \in SUBSET SUBSET S
    OBVIOUS
  <2> HIDE DEF T
  <2> QED
    BY <2>1, LeastSubset
<1>2. U # {}
  BY <1>1, SumEmpty
<1>3. First(U) \in U
  BY <1>2, FirstIn
<1>4. SumFunctionOnSet(f, U \ {First(U)}) = SumFunctionOnSet(g, U \ {First(U)})
  BY <1>1, <1>3
<1>5. IsFiniteSet(U)
  BY <1>1, FS_Subset
<1>6. /\ SumFunctionOnSet(f, U) = f[First(U)] + SumFunctionOnSet(f, U \ {First(U)})
      /\ SumFunctionOnSet(g, U) = g[First(U)] + SumFunctionOnSet(g, U \ {First(U)})
  BY <1>2, <1>5, SumStep
<1> QED
  BY <1>1, <1>3, <1>4, <1>6

(* Any term can be taken out of a sum first.                               *)
LEMMA SumSplit ==
    ASSUME NEW S, IsFiniteSet(S), NEW x \in S, NEW f, \A y \in S : f[y] \in Int
    PROVE  SumFunctionOnSet(f, S) = f[x] + SumFunctionOnSet(f, S \ {x})
<1> DEFINE T == {U \in SUBSET S :
                    \E y \in U : SumFunctionOnSet(f, U) # f[y] + SumFunctionOnSet(f, U \ {y})}
<1> SUFFICES ASSUME T # {} PROVE FALSE
  OBVIOUS
<1>1. PICK U \in T : \A V \in T : ~(V \subseteq U /\ V # U)
  <2>1. T \in SUBSET SUBSET S
    OBVIOUS
  <2> HIDE DEF T
  <2> QED
    BY <2>1, LeastSubset
<1>2. PICK y \in U : SumFunctionOnSet(f, U) # f[y] + SumFunctionOnSet(f, U \ {y})
  BY <1>1
<1> DEFINE c == First(U)
           W == U \ {c, y}
<1>3. c \in U
  BY <1>2, FirstIn
<1>4. SumFunctionOnSet(f, U) = f[c] + SumFunctionOnSet(f, U \ {c})
  BY <1>1, <1>3, SumStep, FS_Subset
<1>5. c # y
  BY <1>2, <1>4
<1> HIDE DEF c
<1>6. SumFunctionOnSet(f, U \ {c}) = f[y] + SumFunctionOnSet(f, W)
  <2>1. U \ {c} \in SUBSET S /\ U \ {c} # U /\ y \in U \ {c} /\ (U \ {c}) \ {y} = W
    BY <1>1, <1>2, <1>3, <1>5
  <2> QED
    BY <1>1, <2>1
<1>7. SumFunctionOnSet(f, U \ {y}) = f[c] + SumFunctionOnSet(f, W)
  <2>1. U \ {y} \in SUBSET S /\ U \ {y} # U /\ c \in U \ {y} /\ (U \ {y}) \ {c} = W
    BY <1>1, <1>2, <1>3, <1>5
  <2> QED
    BY <1>1, <2>1
<1>8. SumFunctionOnSet(f, W) \in Int
  <2>1. IsFiniteSet(W) /\ W \in SUBSET S
    BY <1>1, FS_Subset
  <2> QED
    BY <2>1, SumType
<1>9. f[c] \in Int /\ f[y] \in Int
  BY <1>1, <1>2, <1>3
<1> QED
  BY <1>2, <1>4, <1>6, <1>7, <1>8, <1>9

(* A sum changes by what its one changed term changes by: what an update   *)
(* of one order, entry or position does to a total.                        *)
LEMMA SumChange ==
    ASSUME NEW S, IsFiniteSet(S), NEW x \in S, NEW f, NEW g,
           \A y \in S : f[y] \in Int /\ g[y] \in Int,
           \A y \in S \ {x} : f[y] = g[y]
    PROVE  SumFunctionOnSet(g, S) = SumFunctionOnSet(f, S) - f[x] + g[x]
<1>1. IsFiniteSet(S \ {x})
  BY FS_Subset
<1>2. SumFunctionOnSet(f, S) = f[x] + SumFunctionOnSet(f, S \ {x})
  BY SumSplit
<1>3. SumFunctionOnSet(g, S) = g[x] + SumFunctionOnSet(g, S \ {x})
  BY SumSplit
<1>4. SumFunctionOnSet(f, S \ {x}) = SumFunctionOnSet(g, S \ {x})
  BY <1>1, SumSame
<1>5. SumFunctionOnSet(f, S \ {x}) \in Int
  BY <1>1, SumType
<1> QED
  BY <1>2, <1>3, <1>4, <1>5

(* Zeros sum to zero.                                                      *)
LEMMA SumZero ==
    ASSUME NEW S, IsFiniteSet(S), NEW f, \A x \in S : f[x] = 0
    PROVE  SumFunctionOnSet(f, S) = 0
<1> DEFINE T == {U \in SUBSET S : SumFunctionOnSet(f, U) # 0}
<1> SUFFICES ASSUME T # {} PROVE FALSE
  OBVIOUS
<1>1. PICK U \in T : \A V \in T : ~(V \subseteq U /\ V # U)
  <2>1. T \in SUBSET SUBSET S
    OBVIOUS
  <2> HIDE DEF T
  <2> QED
    BY <2>1, LeastSubset
<1>2. U # {}
  BY <1>1, SumEmpty
<1>3. First(U) \in U
  BY <1>2, FirstIn
<1>4. SumFunctionOnSet(f, U \ {First(U)}) = 0
  BY <1>1, <1>3
<1>5. SumFunctionOnSet(f, U) = f[First(U)] + SumFunctionOnSet(f, U \ {First(U)})
  BY <1>1, <1>2, SumStep, FS_Subset
<1> QED
  BY <1>1, <1>3, <1>4, <1>5

(* Natural numbers have a natural sum.                                     *)
LEMMA SumNat ==
    ASSUME NEW S, IsFiniteSet(S), NEW f, \A x \in S : f[x] \in Nat
    PROVE  SumFunctionOnSet(f, S) \in Nat
<1> DEFINE T == {U \in SUBSET S : SumFunctionOnSet(f, U) \notin Nat}
<1> SUFFICES ASSUME T # {} PROVE FALSE
  OBVIOUS
<1>1. PICK U \in T : \A V \in T : ~(V \subseteq U /\ V # U)
  <2>1. T \in SUBSET SUBSET S
    OBVIOUS
  <2> HIDE DEF T
  <2> QED
    BY <2>1, LeastSubset
<1>2. U # {}
  <2>1. SumFunctionOnSet(f, {}) \in Nat
    BY SumEmpty
  <2> QED
    BY <1>1, <2>1
<1>3. First(U) \in U
  BY <1>2, FirstIn
<1>4. SumFunctionOnSet(f, U \ {First(U)}) \in Nat
  BY <1>1, <1>3
<1>5. SumFunctionOnSet(f, U) = f[First(U)] + SumFunctionOnSet(f, U \ {First(U)})
  BY <1>1, <1>2, SumStep, FS_Subset
<1> QED
  BY <1>1, <1>3, <1>4, <1>5

(* A sum of natural numbers is no less than any of them.                   *)
LEMMA SumAtLeast ==
    ASSUME NEW S, IsFiniteSet(S), NEW x \in S, NEW f, \A y \in S : f[y] \in Nat
    PROVE  f[x] <= SumFunctionOnSet(f, S)
<1>1. IsFiniteSet(S \ {x})
  BY FS_Subset
<1>2. SumFunctionOnSet(f, S \ {x}) \in Nat
  BY <1>1, SumNat
<1>3. SumFunctionOnSet(f, S) = f[x] + SumFunctionOnSet(f, S \ {x})
  BY SumSplit
<1> QED
  BY <1>2, <1>3

(* What a sum over a set is made of: the sums over a part and its rest.    *)
LEMMA SumParts ==
    ASSUME NEW S, IsFiniteSet(S), NEW A \in SUBSET S, NEW f, \A x \in S : f[x] \in Int
    PROVE  SumFunctionOnSet(f, S) = SumFunctionOnSet(f, A) + SumFunctionOnSet(f, S \ A)
<1> DEFINE T == {U \in SUBSET A :
                    SumFunctionOnSet(f, S) # SumFunctionOnSet(f, U) + SumFunctionOnSet(f, S \ U)}
<1> SUFFICES ASSUME T # {} PROVE FALSE
  OBVIOUS
<1>1. PICK U \in T : \A V \in T : ~(V \subseteq U /\ V # U)
  <2>1. T \in SUBSET SUBSET A /\ IsFiniteSet(A)
    BY FS_Subset
  <2> HIDE DEF T
  <2> QED
    BY <2>1, LeastSubset
<1>2. SumFunctionOnSet(f, S) \in Int
  BY SumType
<1>3. U # {}
  <2>1. SumFunctionOnSet(f, S) = SumFunctionOnSet(f, {}) + SumFunctionOnSet(f, S \ {})
    <3>1. S \ {} = S
      OBVIOUS
    <3> QED
      BY <1>2, <3>1, SumEmpty
  <2> QED
    BY <1>1, <2>1
<1>4. PICK x \in U : TRUE
  BY <1>3
<1> DEFINE W == U \ {x}
<1>5. W \in SUBSET A /\ W \notin T
  BY <1>1, <1>4
<1>6. SumFunctionOnSet(f, S) = SumFunctionOnSet(f, W) + SumFunctionOnSet(f, S \ W)
  BY <1>5
<1>7. SumFunctionOnSet(f, U) = f[x] + SumFunctionOnSet(f, W)
  <2>1. U \in SUBSET S /\ IsFiniteSet(U)
    BY <1>1, FS_Subset
  <2> QED
    BY <1>4, <2>1, SumSplit
<1>8. SumFunctionOnSet(f, S \ W) = f[x] + SumFunctionOnSet(f, S \ U)
  <2>1. S \ W \in SUBSET S /\ IsFiniteSet(S \ W) /\ x \in S \ W /\ (S \ W) \ {x} = S \ U
    BY <1>1, <1>4, FS_Subset
  <2> QED
    BY <2>1, SumSplit
<1>9. /\ SumFunctionOnSet(f, W) \in Int /\ SumFunctionOnSet(f, S \ U) \in Int
      /\ f[x] \in Int
  <2>1. W \in SUBSET S /\ S \ U \in SUBSET S /\ IsFiniteSet(W) /\ IsFiniteSet(S \ U) /\ x \in S
    BY <1>1, <1>4, FS_Subset
  <2> QED
    BY <2>1, SumType
<1>10. SumFunctionOnSet(f, S) = SumFunctionOnSet(f, U) + SumFunctionOnSet(f, S \ U)
  <2> HIDE DEF W
  <2> QED
    BY <1>6, <1>7, <1>8, <1>9
<1> QED
  BY <1>1, <1>10

(* A batch of entries that were zero adds its own sum.                     *)
LEMMA SumFilled ==
    ASSUME NEW S, IsFiniteSet(S), NEW A \in SUBSET S, NEW f, NEW g,
           \A x \in S : f[x] \in Int /\ g[x] \in Int,
           \A x \in A : f[x] = 0, \A x \in S \ A : f[x] = g[x]
    PROVE  SumFunctionOnSet(g, S) = SumFunctionOnSet(f, S) + SumFunctionOnSet(g, A)
<1>1. IsFiniteSet(A) /\ IsFiniteSet(S \ A)
  BY FS_Subset
<1>2. /\ SumFunctionOnSet(f, S) = SumFunctionOnSet(f, A) + SumFunctionOnSet(f, S \ A)
      /\ SumFunctionOnSet(g, S) = SumFunctionOnSet(g, A) + SumFunctionOnSet(g, S \ A)
  BY SumParts
<1>3. SumFunctionOnSet(f, A) = 0 /\ SumFunctionOnSet(f, S \ A) = SumFunctionOnSet(g, S \ A)
  BY <1>1, SumZero, SumSame
<1>4. SumFunctionOnSet(g, A) \in Int /\ SumFunctionOnSet(g, S \ A) \in Int
  BY <1>1, SumType
<1> QED
  BY <1>2, <1>3, <1>4

(* The sum of two functions.                                               *)
LEMMA SumPlus ==
    ASSUME NEW S, IsFiniteSet(S), NEW f, NEW g, NEW h,
           \A x \in S : f[x] \in Int /\ g[x] \in Int /\ h[x] = f[x] + g[x]
    PROVE  SumFunctionOnSet(h, S) = SumFunctionOnSet(f, S) + SumFunctionOnSet(g, S)
<1> DEFINE T == {U \in SUBSET S :
                    SumFunctionOnSet(h, U) # SumFunctionOnSet(f, U) + SumFunctionOnSet(g, U)}
<1> SUFFICES ASSUME T # {} PROVE FALSE
  OBVIOUS
<1>1. PICK U \in T : \A V \in T : ~(V \subseteq U /\ V # U)
  <2>1. T \in SUBSET SUBSET S
    OBVIOUS
  <2> HIDE DEF T
  <2> QED
    BY <2>1, LeastSubset
<1>2. U # {}
  <2>1. SumFunctionOnSet(h, {}) = SumFunctionOnSet(f, {}) + SumFunctionOnSet(g, {})
    BY SumEmpty
  <2> QED
    BY <1>1, <2>1
<1> DEFINE x == First(U)
           W == U \ {x}
<1>3. x \in U /\ x \in S
  BY <1>1, <1>2, FirstIn
<1>4. SumFunctionOnSet(h, W) = SumFunctionOnSet(f, W) + SumFunctionOnSet(g, W)
  BY <1>1, <1>3
<1>5. IsFiniteSet(U) /\ IsFiniteSet(W) /\ W \in SUBSET S
  BY <1>1, FS_Subset
<1>6. /\ SumFunctionOnSet(h, U) = h[x] + SumFunctionOnSet(h, W)
      /\ SumFunctionOnSet(f, U) = f[x] + SumFunctionOnSet(f, W)
      /\ SumFunctionOnSet(g, U) = g[x] + SumFunctionOnSet(g, W)
  BY <1>2, <1>5, SumStep
<1>7. SumFunctionOnSet(f, W) \in Int /\ SumFunctionOnSet(g, W) \in Int
  BY <1>5, SumType
<1> HIDE DEF x, W
<1>8. SumFunctionOnSet(h, U) = SumFunctionOnSet(f, U) + SumFunctionOnSet(g, U)
  BY <1>3, <1>4, <1>6, <1>7
<1> QED
  BY <1>1, <1>8

(* A factor of all terms.                                                  *)
LEMMA SumTimes ==
    ASSUME NEW S, IsFiniteSet(S), NEW f, NEW g, NEW c \in Int,
           \A x \in S : f[x] \in Int /\ g[x] = -(f[x] * c)
    PROVE  SumFunctionOnSet(g, S) = -(SumFunctionOnSet(f, S) * c)
<1> DEFINE T == {U \in SUBSET S : SumFunctionOnSet(g, U) # -(SumFunctionOnSet(f, U) * c)}
<1> SUFFICES ASSUME T # {} PROVE FALSE
  OBVIOUS
<1>1. PICK U \in T : \A V \in T : ~(V \subseteq U /\ V # U)
  <2>1. T \in SUBSET SUBSET S
    OBVIOUS
  <2> HIDE DEF T
  <2> QED
    BY <2>1, LeastSubset
<1>2. U # {}
  <2>1. SumFunctionOnSet(g, {}) = 0 /\ SumFunctionOnSet(f, {}) = 0 /\ -(0 * c) = 0
    BY SumEmpty
  <2> QED
    BY <1>1, <2>1
<1> DEFINE x == First(U)
           W == U \ {x}
<1>3. x \in U /\ x \in S
  BY <1>1, <1>2, FirstIn
<1>4. SumFunctionOnSet(g, W) = -(SumFunctionOnSet(f, W) * c)
  BY <1>1, <1>3
<1>5. IsFiniteSet(U) /\ IsFiniteSet(W) /\ W \in SUBSET S
  BY <1>1, FS_Subset
<1>6. /\ SumFunctionOnSet(f, U) = f[x] + SumFunctionOnSet(f, W)
      /\ SumFunctionOnSet(g, U) = g[x] + SumFunctionOnSet(g, W)
  BY <1>2, <1>5, SumStep
<1>7. SumFunctionOnSet(f, W) \in Int
  BY <1>5, SumType
<1> HIDE DEF x, W
<1>8. f[x] \in Int /\ g[x] = -(f[x] * c)
  BY <1>3
<1>9. (f[x] + SumFunctionOnSet(f, W)) * c = f[x] * c + SumFunctionOnSet(f, W) * c
  BY <1>7, <1>8
<1>10. f[x] * c \in Int /\ SumFunctionOnSet(f, W) * c \in Int
  BY <1>7, <1>8
<1>11. SumFunctionOnSet(g, U) = -(SumFunctionOnSet(f, U) * c)
  BY <1>4, <1>6, <1>8, <1>9, <1>10
<1> QED
  BY <1>1, <1>11

(* Entries that are summed by their owners, and then over the owners.      *)
OwnedBy(s, D, key) == {n \in D : key[n] = s}

LEMMA SumGrouped ==
    ASSUME NEW D, IsFiniteSet(D), NEW S, IsFiniteSet(S), NEW key, \A n \in D : key[n] \in S,
           NEW f, \A n \in D : f[n] \in Int,
           NEW d, \A s \in S : d[s] = SumFunctionOnSet(f, OwnedBy(s, D, key))
    PROVE  SumFunctionOnSet(d, S) = SumFunctionOnSet(f, D)
<1> DEFINE In(U) == {n \in D : key[n] \in U}
           T == {U \in SUBSET S : SumFunctionOnSet(d, U) # SumFunctionOnSet(f, In(U))}
<1>1. T = {}
  <2> SUFFICES ASSUME T # {} PROVE FALSE
    OBVIOUS
  <2>1. PICK U \in T : \A V \in T : ~(V \subseteq U /\ V # U)
    <3>1. T \in SUBSET SUBSET S
      OBVIOUS
    <3> HIDE DEF T
    <3> QED
      BY <3>1, LeastSubset
  <2>2. U # {}
    <3>1. In({}) = {}
      OBVIOUS
    <3>2. SumFunctionOnSet(d, {}) = SumFunctionOnSet(f, In({}))
      BY <3>1, SumEmpty
    <3> QED
      BY <2>1, <3>2
  <2> DEFINE x == First(U)
             W == U \ {x}
             A == OwnedBy(x, D, key)
  <2>3. x \in U /\ x \in S
    BY <2>1, <2>2, FirstIn
  <2>4. SumFunctionOnSet(d, W) = SumFunctionOnSet(f, In(W))
    BY <2>1, <2>3
  <2>5. IsFiniteSet(U)
    BY <2>1, FS_Subset
  <2>6. SumFunctionOnSet(d, U) = d[x] + SumFunctionOnSet(d, W)
    BY <2>2, <2>5, SumStep
  <2>7. d[x] = SumFunctionOnSet(f, A)
    BY <2>3
  <2>8. IsFiniteSet(In(U)) /\ A \in SUBSET In(U) /\ In(U) \ A = In(W)
    <3>1. In(U) \in SUBSET D
      OBVIOUS
    <3>2. IsFiniteSet(In(U))
      BY <3>1, FS_Subset
    <3> QED
      BY <2>3, <3>2 DEF OwnedBy
  <2>9. \A n \in In(U) : f[n] \in Int
    OBVIOUS
  <2> HIDE DEF A, In, x, W
  <2>10. SumFunctionOnSet(f, In(U)) = SumFunctionOnSet(f, A) + SumFunctionOnSet(f, In(W))
    BY <2>8, <2>9, SumParts
  <2> QED
    BY <2>1, <2>4, <2>6, <2>7, <2>10
<1>2. In(S) = D
  OBVIOUS
<1> QED
  BY <1>1, <1>2

-----------------------------------------------------------------------------
(* Shares of an amount.                                                    *)

LEMMA Quotient ==
    ASSUME NEW a \in Nat, NEW b \in Nat, b # 0
    PROVE  a \div b \in Nat /\ b * (a \div b) <= a
  OBVIOUS

LEMMA Distributes ==
    ASSUME NEW a \in Int, NEW b \in Int, NEW c \in Int
    PROVE  a * (b + c) = a * b + a * c
  OBVIOUS

LEMMA Cancelled ==
    ASSUME NEW a \in Nat, NEW b \in Nat, NEW c \in Nat, c # 0, c * a <= b * c
    PROVE  a <= b
<1> SUFFICES ASSUME a > b PROVE FALSE
  OBVIOUS
<1>1. PICK d \in Nat : a = b + 1 + d
  <2>1. a - b - 1 \in Nat /\ a = b + 1 + (a - b - 1)
    OBVIOUS
  <2> QED
    BY <2>1
<1>2. c * a = c * b + c + c * d
  BY <1>1
<1>3. c * d \in Nat /\ c * b \in Nat /\ b * c = c * b
  BY <1>1
<1> QED
  BY <1>2, <1>3

(* The part of amount that a weight of total gets, rounded down.           *)
Part(w, amount, total) == (w * amount) \div total

(* Parts of an amount by their weights, rounded down, are together no more *)
(* than the weights' part of it.                                           *)
LEMMA PartsBounded ==
    ASSUME NEW S, IsFiniteSet(S), NEW w, \A x \in S : w[x] \in Nat, NEW amount \in Nat,
           NEW total \in Nat \ {0}, NEW p, \A x \in S : p[x] = Part(w[x], amount, total)
    PROVE  total * SumFunctionOnSet(p, S) <= SumFunctionOnSet(w, S) * amount
<1> DEFINE T == {U \in SUBSET S :
                    ~(total * SumFunctionOnSet(p, U) <= SumFunctionOnSet(w, U) * amount)}
<1> SUFFICES ASSUME T # {} PROVE FALSE
  OBVIOUS
<1>1. PICK U \in T : \A V \in T : ~(V \subseteq U /\ V # U)
  <2>1. T \in SUBSET SUBSET S
    OBVIOUS
  <2> HIDE DEF T
  <2> QED
    BY <2>1, LeastSubset
<1>2. U # {}
  <2>1. total * SumFunctionOnSet(p, {}) <= SumFunctionOnSet(w, {}) * amount
    BY SumEmpty
  <2> QED
    BY <1>1, <2>1
<1> DEFINE x == First(U)
           W == U \ {x}
<1>3. x \in U /\ x \in S
  BY <1>1, <1>2, FirstIn
<1>4. total * SumFunctionOnSet(p, W) <= SumFunctionOnSet(w, W) * amount
  BY <1>1, <1>3
<1>5. IsFiniteSet(U) /\ IsFiniteSet(W) /\ U \in SUBSET S /\ W \in SUBSET S
  BY <1>1, FS_Subset
<1>6. /\ SumFunctionOnSet(p, U) = p[x] + SumFunctionOnSet(p, W)
      /\ SumFunctionOnSet(w, U) = w[x] + SumFunctionOnSet(w, W)
  BY <1>2, <1>5, SumStep
<1>7. \A y \in S : w[y] * amount \in Nat /\ p[y] \in Nat /\ total * p[y] <= w[y] * amount
  <2> SUFFICES ASSUME NEW y \in S
               PROVE  w[y] * amount \in Nat /\ p[y] \in Nat /\ total * p[y] <= w[y] * amount
    OBVIOUS
  <2>1. w[y] \in Nat
    OBVIOUS
  <2>2. w[y] * amount \in Nat
    BY <2>1
  <2> QED
    BY <2>2, Quotient DEF Part
<1>8. SumFunctionOnSet(p, W) \in Nat /\ SumFunctionOnSet(w, W) \in Nat
  BY <1>5, <1>7, SumNat
<1> HIDE DEF x, W
<1>9. total * SumFunctionOnSet(p, U) = total * p[x] + total * SumFunctionOnSet(p, W)
  BY <1>3, <1>6, <1>7, <1>8, Distributes
<1>10. SumFunctionOnSet(w, U) * amount = w[x] * amount + SumFunctionOnSet(w, W) * amount
  BY <1>3, <1>6, <1>8, Distributes
<1>11. /\ total * p[x] \in Nat /\ total * SumFunctionOnSet(p, W) \in Nat
       /\ SumFunctionOnSet(w, W) * amount \in Nat /\ w[x] * amount \in Nat
  BY <1>3, <1>7, <1>8
<1>12. total * SumFunctionOnSet(p, U) <= SumFunctionOnSet(w, U) * amount
  BY <1>3, <1>4, <1>7, <1>9, <1>10, <1>11
<1> QED
  BY <1>1, <1>12

(* An amount that is split by weights over all who have one, every part    *)
(* rounded down, is enough for the parts.                                  *)
LEMMA PartsWithin ==
    ASSUME NEW S, IsFiniteSet(S), NEW w, \A x \in S : w[x] \in Nat, NEW amount \in Nat,
           SumFunctionOnSet(w, S) # 0,
           NEW p, \A x \in S : p[x] = Part(w[x], amount, SumFunctionOnSet(w, S))
    PROVE  SumFunctionOnSet(p, S) \in Nat /\ SumFunctionOnSet(p, S) <= amount
<1> DEFINE total == SumFunctionOnSet(w, S)
<1>1. total \in Nat \ {0}
  BY SumNat
<1>2. total * SumFunctionOnSet(p, S) <= total * amount
  BY <1>1, PartsBounded
<1>3. \A x \in S : p[x] \in Nat
  <2> SUFFICES ASSUME NEW x \in S PROVE p[x] \in Nat
    OBVIOUS
  <2>1. w[x] * amount \in Nat
    OBVIOUS
  <2> QED
    BY <1>1, <2>1, Quotient DEF Part
<1>4. SumFunctionOnSet(p, S) \in Nat
  BY <1>3, SumNat
<1> HIDE DEF total
<1>5. total * amount = amount * total
  BY <1>1
<1> QED
  BY <1>1, <1>2, <1>4, <1>5, Cancelled

-----------------------------------------------------------------------------
(* The least of a set of numbers is one of them.                           *)
LEMMA LeastNumber ==
    ASSUME NEW S \in SUBSET Nat, S # {}
    PROVE  Min(S) \in S /\ \A y \in S : Min(S) <= y
<1>1. \E x \in S : \A y \in S : ~(<<y, x>> \in OpToRel(<, Nat))
  BY NatLessThanWellFounded, WFMin
<1>2. PICK x \in S : \A y \in S : ~(<<y, x>> \in OpToRel(<, Nat))
  BY <1>1
<1>3. \A y \in S : <<y, x>> \in Nat \X Nat /\ (y < x => <<y, x>> \in OpToRel(<, Nat))
  BY DEF OpToRel
<1>4. \A y \in S : ~(y < x)
  BY <1>2, <1>3, Zenon
<1>5. \A y \in S : x =< y
  BY <1>4
<1> QED
  BY <1>5 DEF Min

(* A set of numbers that is finite has a greatest one.                     *)
LEMMA GreatestNumber ==
    ASSUME NEW S, IsFiniteSet(S), \A y \in S : y \in Int, S # {}
    PROVE  \E x \in S : \A y \in S : y <= x
<1> DEFINE T == {U \in SUBSET S : U # {} /\ ~\E x \in U : \A y \in U : y <= x}
<1> SUFFICES ASSUME T # {} PROVE FALSE
  OBVIOUS
<1>1. PICK U \in T : \A V \in T : ~(V \subseteq U /\ V # U)
  <2>1. T \in SUBSET SUBSET S
    OBVIOUS
  <2> HIDE DEF T
  <2> QED
    BY <2>1, LeastSubset
<1>2. PICK x \in U : TRUE
  BY <1>1
<1>3. U \ {x} \notin T /\ U \ {x} \in SUBSET S
  BY <1>1, <1>2
<1>4. CASE U \ {x} = {}
  <2>1. x \in Int /\ \A y \in U : y = x
    BY <1>1, <1>2, <1>4
  <2>2. \A y \in U : y <= x
    BY <2>1
  <2> QED
    BY <1>1, <1>2, <2>2
<1>5. CASE U \ {x} # {}
  <2>1. PICK y \in U \ {x} : \A z \in U \ {x} : z <= y
    BY <1>3, <1>5
  <2>2. \A z \in U : z \in Int
    BY <1>1
  <2>3. CASE x <= y
    <3>1. y \in U /\ \A z \in U : z <= y
      BY <2>1, <2>3
    <3> QED
      BY <1>1, <3>1
  <2>4. CASE y <= x
    <3>1. \A z \in U : z <= x
      BY <2>1, <2>2, <2>4, <1>2
    <3> QED
      BY <1>1, <1>2, <3>1
  <2> QED
    BY <1>2, <2>1, <2>2, <2>3, <2>4
<1> QED
  BY <1>4, <1>5

===============================================================================
