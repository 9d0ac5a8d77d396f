------------------------------ MODULE SumLemmas ------------------------------
(***************************************************************************)
(* Lemmas about SumOver.  The library's induction theorems cannot be used  *)
(* by the provers, so induction over a finite set is done by taking a      *)
(* minimal counterexample.                                                 *)
(***************************************************************************)
EXTENDS Sums, FiniteSetTheorems, WellFoundedInduction, TLAPS

Pick(s) == CHOOSE x \in s : TRUE

(* g gives the sum of f over each subset of D.                             *)
IsPartialSum(g, f, D) ==
  g = [s \in SUBSET D |-> IF s = {} THEN 0 ELSE f[Pick(s)] + g[s \ {Pick(s)}]]

(* A non-empty family of subsets of a finite set has a minimal member.     *)
LEMMA MinimalSubset ==
  ASSUME NEW S, IsFiniteSet(S), NEW B \in SUBSET SUBSET S, B # {}
  PROVE  \E M \in B : \A T \in B : ~(T \subseteq M /\ T # M)
<1>1. IsWellFoundedOn(StrictSubsetOrdering(S), FiniteSubsetsOf(S))
  BY FS_StrictSubsetOrderingWellFounded
<1>2. FiniteSubsetsOf(S) = SUBSET S
  BY FS_FiniteSubsetsOfFinite
<1>3. \E M \in B : \A T \in B : <<T, M>> \notin StrictSubsetOrdering(S)
  BY <1>1, <1>2, WFMin
<1> QED
  BY <1>3 DEF StrictSubsetOrdering

LEMMA PartialSumUnique ==
  ASSUME NEW S, IsFiniteSet(S), NEW f, NEW U \in SUBSET S, NEW V \in SUBSET S,
         NEW g, NEW h, IsPartialSum(g, f, U), IsPartialSum(h, f, V)
  PROVE  \A s \in SUBSET (U \cap V) : g[s] = h[s]
<1> DEFINE B == {s \in SUBSET (U \cap V) : g[s] # h[s]}
<1> SUFFICES ASSUME B # {} PROVE FALSE
  OBVIOUS
<1>1. B \in SUBSET SUBSET S
  OBVIOUS
<1>2. PICK M \in B : \A T \in B : ~(T \subseteq M /\ T # M)
  <2> HIDE DEF B
  <2> QED BY <1>1, MinimalSubset
<1>3. CASE M = {}
  BY <1>3 DEF IsPartialSum
<1>4. CASE M # {}
  <2>1. Pick(M) \in M
    BY <1>4 DEF Pick
  <2>2. g[M \ {Pick(M)}] = h[M \ {Pick(M)}]
    BY <1>2, <2>1
  <2>3. /\ g[M] = f[Pick(M)] + g[M \ {Pick(M)}]
        /\ h[M] = f[Pick(M)] + h[M \ {Pick(M)}]
    BY <1>4 DEF IsPartialSum
  <2> QED
    BY <2>2, <2>3
<1> QED
  BY <1>3, <1>4

LEMMA PartialSumExists ==
  ASSUME NEW S, IsFiniteSet(S), NEW f
  PROVE  \E g : IsPartialSum(g, f, S)
<1> DEFINE B == {U \in SUBSET S : ~ \E g : IsPartialSum(g, f, U)}
<1> SUFFICES ASSUME B # {} PROVE FALSE
  OBVIOUS
<1>1. B \in SUBSET SUBSET S
  OBVIOUS
<1>2. PICK M \in B : \A T \in B : ~(T \subseteq M /\ T # M)
  <2> HIDE DEF B
  <2> QED BY <1>1, MinimalSubset
<1> DEFINE G(T) == CHOOSE g : IsPartialSum(g, f, T)
           h == [s \in SUBSET M |-> IF s = {} THEN 0
                  ELSE f[Pick(s)] + G(s \ {Pick(s)})[s \ {Pick(s)}]]
<1>3. \A T \in SUBSET M : T # M => IsPartialSum(G(T), f, T)
  <2> SUFFICES ASSUME NEW T \in SUBSET M, T # M PROVE IsPartialSum(G(T), f, T)
    OBVIOUS
  <2>1. T \in SUBSET S /\ T \notin B
    BY <1>2
  <2>2. \E g : IsPartialSum(g, f, T)
    BY <2>1
  <2> QED BY <2>2
<1>4. \A s \in SUBSET M : s # {} => h[s \ {Pick(s)}] = G(s \ {Pick(s)})[s \ {Pick(s)}]
  <2> SUFFICES ASSUME NEW s \in SUBSET M, s # {}
               PROVE  h[s \ {Pick(s)}] = G(s \ {Pick(s)})[s \ {Pick(s)}]
    OBVIOUS
  <2> DEFINE t == s \ {Pick(s)}
             r == t \ {Pick(t)}
  <2>1. Pick(s) \in s
    BY DEF Pick
  <2>2. t \in SUBSET M /\ t # M
    BY <2>1
  <2>3. IsPartialSum(G(t), f, t)
    BY <1>3, <2>2
  <2>4. CASE t = {}
    <3>1. h[t] = 0
      BY <2>4, <2>2
    <3>2. G(t)[t] = 0
      <4> HIDE DEF G, t, h
      <4> QED BY <2>3, <2>4 DEF IsPartialSum
    <3> QED BY <3>1, <3>2
  <2>5. CASE t # {}
    <3>1. Pick(t) \in t
      BY <2>5 DEF Pick
    <3>2. r \in SUBSET M /\ r # M /\ r \in SUBSET t /\ r \in SUBSET S /\ t \in SUBSET S
      BY <2>2, <3>1, <1>1
    <3>3. IsPartialSum(G(r), f, r)
      BY <1>3, <3>2
    <3>4. G(t)[r] = G(r)[r]
      <4>1. r \in SUBSET (t \cap r)
        BY <3>2
      <4> HIDE DEF G, t, r, h
      <4> QED BY <2>3, <3>3, <3>2, <4>1, PartialSumUnique
    <3>5. G(t)[t] = f[Pick(t)] + G(t)[r]
      <4>1. \A g, u : IsPartialSum(g, f, u) /\ u # {} => g[u] = f[Pick(u)] + g[u \ {Pick(u)}]
        BY DEF IsPartialSum
      <4> HIDE DEF G, t, h
      <4> QED BY <2>3, <2>5, <4>1
    <3>6. h[t] = f[Pick(t)] + G(r)[r]
      BY <2>2, <2>5
    <3> QED BY <3>4, <3>5, <3>6
  <2> QED BY <2>4, <2>5
<1>5. IsPartialSum(h, f, M)
  <2>1. \A s \in SUBSET M :
          h[s] = IF s = {} THEN 0 ELSE f[Pick(s)] + h[s \ {Pick(s)}]
    <3>1. \A s \in SUBSET M :
            h[s] = IF s = {} THEN 0 ELSE f[Pick(s)] + G(s \ {Pick(s)})[s \ {Pick(s)}]
      OBVIOUS
    <3> HIDE DEF h, G
    <3> QED BY <1>4, <3>1
  <2>2. h = [s \in SUBSET M |-> h[s]]
    OBVIOUS
  <2> HIDE DEF h
  <2> QED BY <2>1, <2>2, Zenon DEF IsPartialSum
<1> QED
  BY <1>2, <1>5

LEMMA SumOverIsPartialSum ==
  ASSUME NEW S, IsFiniteSet(S), NEW f
  PROVE  \E g : IsPartialSum(g, f, S) /\ SumOver(f, S) = g[S]
<1> DEFINE g == CHOOSE g : IsPartialSum(g, f, S)
<1>1. IsPartialSum(g, f, S)
  BY PartialSumExists
<1>2. SumOver(f, S) = g[S]
  BY DEF SumOver, MapThenSumSet, MapThenFoldSet, IsPartialSum, Pick
<1> QED
  BY <1>1, <1>2

(* The sum over the empty set, and the step by which it is computed.       *)
LEMMA SumEmpty ==
  ASSUME NEW f
  PROVE  SumOver(f, {}) = 0
<1>1. IsFiniteSet({})
  BY FS_EmptySet
<1>2. PICK g : IsPartialSum(g, f, {}) /\ SumOver(f, {}) = g[{}]
  BY <1>1, SumOverIsPartialSum
<1> QED
  BY <1>2 DEF IsPartialSum

LEMMA PartialSumRestricted ==
  ASSUME NEW S, IsFiniteSet(S), NEW f, NEW g, IsPartialSum(g, f, S), NEW T \in SUBSET S
  PROVE  g[T] = SumOver(f, T)
<1>1. IsFiniteSet(T)
  BY FS_Subset
<1>2. PICK h : IsPartialSum(h, f, T) /\ SumOver(f, T) = h[T]
  BY <1>1, SumOverIsPartialSum
<1>3. T \in SUBSET (S \cap T)
  OBVIOUS
<1> QED
  BY <1>2, <1>3, PartialSumUnique

LEMMA SumPick ==
  ASSUME NEW S, IsFiniteSet(S), S # {}, NEW f
  PROVE  Pick(S) \in S /\ SumOver(f, S) = f[Pick(S)] + SumOver(f, S \ {Pick(S)})
<1>1. PICK g : IsPartialSum(g, f, S) /\ SumOver(f, S) = g[S]
  BY SumOverIsPartialSum
<1>2. Pick(S) \in S
  BY DEF Pick
<1>3. g[S \ {Pick(S)}] = SumOver(f, S \ {Pick(S)})
  BY <1>1, PartialSumRestricted
<1>4. g[S] = f[Pick(S)] + g[S \ {Pick(S)}]
  BY <1>1 DEF IsPartialSum
<1> QED
  BY <1>1, <1>2, <1>3, <1>4

(* A sum of integers is an integer.                                        *)
LEMMA SumInt ==
  ASSUME NEW S, IsFiniteSet(S), NEW f, \A x \in S : f[x] \in Int
  PROVE  SumOver(f, S) \in Int
<1> DEFINE B == {U \in SUBSET S : SumOver(f, U) \notin Int}
<1> SUFFICES ASSUME B # {} PROVE FALSE
  OBVIOUS
<1>1. B \in SUBSET SUBSET S
  OBVIOUS
<1>2. PICK M \in B : \A T \in B : ~(T \subseteq M /\ T # M)
  <2> HIDE DEF B
  <2> QED BY <1>1, MinimalSubset
<1>3. IsFiniteSet(M)
  BY FS_Subset
<1>4. CASE M = {}
  BY <1>4, SumEmpty
<1>5. CASE M # {}
  <2>1. Pick(M) \in M /\ SumOver(f, M) = f[Pick(M)] + SumOver(f, M \ {Pick(M)})
    BY <1>3, <1>5, SumPick
  <2>2. SumOver(f, M \ {Pick(M)}) \in Int
    BY <1>2, <2>1
  <2> QED
    BY <2>1, <2>2
<1> QED
  BY <1>4, <1>5

(* Any element may be taken out of a sum first.                            *)
LEMMA SumRemove ==
  ASSUME NEW S, IsFiniteSet(S), NEW f, \A x \in S : f[x] \in Int, NEW y \in S
  PROVE  SumOver(f, S) = f[y] + SumOver(f, S \ {y})
<1> DEFINE B == {U \in SUBSET S : \E x \in U : SumOver(f, U) # f[x] + SumOver(f, U \ {x})}
<1> SUFFICES ASSUME B # {} PROVE FALSE
  OBVIOUS
<1>1. B \in SUBSET SUBSET S
  OBVIOUS
<1>2. PICK M \in B : \A T \in B : ~(T \subseteq M /\ T # M)
  <2> HIDE DEF B
  <2> QED BY <1>1, MinimalSubset
<1>3. PICK x \in M : SumOver(f, M) # f[x] + SumOver(f, M \ {x})
  OBVIOUS
<1> DEFINE p == Pick(M)
<1>4. IsFiniteSet(M) /\ IsFiniteSet(M \ {p}) /\ IsFiniteSet(M \ {x})
  BY FS_Subset
<1>5. p \in M /\ SumOver(f, M) = f[p] + SumOver(f, M \ {p})
  BY <1>3, <1>4, SumPick
<1>6. x # p
  BY <1>3, <1>5
<1>7. SumOver(f, M \ {p}) = f[x] + SumOver(f, (M \ {p}) \ {x})
  <2>1. M \ {p} \notin B
    BY <1>2, <1>5
  <2> QED
    BY <2>1, <1>6
<1> DEFINE r == SumOver(f, (M \ {p}) \ {x})
<1>8. SumOver(f, M \ {x}) = f[p] + r
  <2>1. M \ {x} \notin B
    BY <1>2, <1>3
  <2>2. (M \ {p}) \ {x} = (M \ {x}) \ {p}
    OBVIOUS
  <2> QED
    BY <2>1, <2>2, <1>5, <1>6
<1>9. f[x] \in Int /\ f[p] \in Int /\ r \in Int
  <2>1. IsFiniteSet((M \ {p}) \ {x}) /\ \A z \in (M \ {p}) \ {x} : f[z] \in Int
    BY <1>4, FS_Subset
  <2>2. SumOver(f, (M \ {p}) \ {x}) \in Int
    BY <2>1, SumInt
  <2> QED
    BY <2>2, <1>5
<1>10. SumOver(f, M) = f[p] + (f[x] + r) /\ SumOver(f, M) # f[x] + (f[p] + r)
  BY <1>3, <1>5, <1>7, <1>8
<1> HIDE DEF B, p, r
<1> QED
  BY <1>9, <1>10

(* Two functions that agree on a set have the same sum over it.            *)
LEMMA SumEqual ==
  ASSUME NEW S, IsFiniteSet(S), NEW f, NEW g, \A x \in S : f[x] = g[x]
  PROVE  SumOver(f, S) = SumOver(g, S)
<1> DEFINE B == {U \in SUBSET S : SumOver(f, U) # SumOver(g, U)}
<1> SUFFICES ASSUME B # {} PROVE FALSE
  OBVIOUS
<1>1. B \in SUBSET SUBSET S
  OBVIOUS
<1>2. PICK M \in B : \A T \in B : ~(T \subseteq M /\ T # M)
  <2> HIDE DEF B
  <2> QED BY <1>1, MinimalSubset
<1>3. IsFiniteSet(M)
  BY FS_Subset
<1>4. CASE M = {}
  BY <1>4, SumEmpty
<1>5. CASE M # {}
  <2>1. /\ Pick(M) \in M
        /\ SumOver(f, M) = f[Pick(M)] + SumOver(f, M \ {Pick(M)})
        /\ SumOver(g, M) = g[Pick(M)] + SumOver(g, M \ {Pick(M)})
    BY <1>3, <1>5, SumPick
  <2>2. SumOver(f, M \ {Pick(M)}) = SumOver(g, M \ {Pick(M)})
    BY <1>2, <2>1
  <2> QED
    BY <2>1, <2>2
<1> QED
  BY <1>4, <1>5

(* A sum changes by as much as the one value that changes.                 *)
LEMMA SumUpdate ==
  ASSUME NEW S, IsFiniteSet(S), NEW f, NEW g, NEW y \in S,
         \A x \in S : f[x] \in Int, g[y] \in Int, \A x \in S \ {y} : g[x] = f[x]
  PROVE  SumOver(g, S) = SumOver(f, S) + (g[y] - f[y])
<1>1. SumOver(f, S) = f[y] + SumOver(f, S \ {y})
  BY SumRemove
<1>2. SumOver(g, S) = g[y] + SumOver(g, S \ {y})
  <2>1. \A x \in S : g[x] \in Int
    OBVIOUS
  <2> QED BY <2>1, SumRemove
<1>3. IsFiniteSet(S \ {y})
  BY FS_Subset
<1>4. SumOver(f, S \ {y}) = SumOver(g, S \ {y})
  BY <1>3, SumEqual
<1>5. SumOver(f, S \ {y}) \in Int
  BY <1>3, SumInt
<1> QED
  BY <1>1, <1>2, <1>4, <1>5

(* A greater function has a greater sum; a sum of naturals is a natural.   *)
LEMMA SumMonotonic ==
  ASSUME NEW S, IsFiniteSet(S), NEW f, NEW g,
         \A x \in S : f[x] \in Int /\ g[x] \in Int /\ f[x] <= g[x]
  PROVE  SumOver(f, S) <= SumOver(g, S)
<1> DEFINE B == {U \in SUBSET S : ~(SumOver(f, U) <= SumOver(g, U))}
<1> SUFFICES ASSUME B # {} PROVE FALSE
  OBVIOUS
<1>1. B \in SUBSET SUBSET S
  OBVIOUS
<1>2. PICK M \in B : \A T \in B : ~(T \subseteq M /\ T # M)
  <2> HIDE DEF B
  <2> QED BY <1>1, MinimalSubset
<1>3. IsFiniteSet(M)
  BY FS_Subset
<1>4. CASE M = {}
  BY <1>4, SumEmpty
<1>5. CASE M # {}
  <2>1. /\ Pick(M) \in M
        /\ SumOver(f, M) = f[Pick(M)] + SumOver(f, M \ {Pick(M)})
        /\ SumOver(g, M) = g[Pick(M)] + SumOver(g, M \ {Pick(M)})
    BY <1>3, <1>5, SumPick
  <2>2. SumOver(f, M \ {Pick(M)}) <= SumOver(g, M \ {Pick(M)})
    BY <1>2, <2>1
  <2>3. IsFiniteSet(M \ {Pick(M)}) /\ \A z \in M \ {Pick(M)} : f[z] \in Int /\ g[z] \in Int
    BY <1>3, FS_Subset
  <2>4. SumOver(f, M \ {Pick(M)}) \in Int /\ SumOver(g, M \ {Pick(M)}) \in Int
    BY <2>3, SumInt
  <2>5. f[Pick(M)] \in Int /\ g[Pick(M)] \in Int /\ f[Pick(M)] <= g[Pick(M)]
    BY <2>1
  <2>6. SumOver(f, M) <= SumOver(g, M)
    BY <2>1, <2>2, <2>4, <2>5
  <2> QED
    BY <2>6
<1> QED
  BY <1>4, <1>5

LEMMA SumNat ==
  ASSUME NEW S, IsFiniteSet(S), NEW f, \A x \in S : f[x] \in Nat
  PROVE  SumOver(f, S) \in Nat
<1> DEFINE B == {U \in SUBSET S : SumOver(f, U) \notin Nat}
<1> SUFFICES ASSUME B # {} PROVE FALSE
  OBVIOUS
<1>1. B \in SUBSET SUBSET S
  OBVIOUS
<1>2. PICK M \in B : \A T \in B : ~(T \subseteq M /\ T # M)
  <2> HIDE DEF B
  <2> QED BY <1>1, MinimalSubset
<1>3. IsFiniteSet(M)
  BY FS_Subset
<1>4. CASE M = {}
  BY <1>4, SumEmpty
<1>5. CASE M # {}
  <2>1. Pick(M) \in M /\ SumOver(f, M) = f[Pick(M)] + SumOver(f, M \ {Pick(M)})
    BY <1>3, <1>5, SumPick
  <2>2. SumOver(f, M \ {Pick(M)}) \in Nat
    BY <1>2, <2>1
  <2> QED
    BY <2>1, <2>2
<1> QED
  BY <1>4, <1>5

(* No value of a sum of naturals is greater than the sum.                  *)
LEMMA SumBoundsValue ==
  ASSUME NEW S, IsFiniteSet(S), NEW f, \A x \in S : f[x] \in Nat, NEW y \in S
  PROVE  f[y] <= SumOver(f, S)
<1>1. SumOver(f, S) = f[y] + SumOver(f, S \ {y})
  BY SumRemove
<1>2. IsFiniteSet(S \ {y})
  BY FS_Subset
<1>3. SumOver(f, S \ {y}) \in Nat
  BY <1>2, SumNat
<1> QED
  BY <1>1, <1>3

LEMMA SumZero ==
  ASSUME NEW S, IsFiniteSet(S), NEW f, \A x \in S : f[x] = 0
  PROVE  SumOver(f, S) = 0
<1> DEFINE B == {U \in SUBSET S : SumOver(f, U) # 0}
<1> SUFFICES ASSUME B # {} PROVE FALSE
  OBVIOUS
<1>1. B \in SUBSET SUBSET S
  OBVIOUS
<1>2. PICK M \in B : \A T \in B : ~(T \subseteq M /\ T # M)
  <2> HIDE DEF B
  <2> QED BY <1>1, MinimalSubset
<1>3. IsFiniteSet(M)
  BY FS_Subset
<1>4. CASE M = {}
  BY <1>4, SumEmpty
<1>5. CASE M # {}
  <2>1. Pick(M) \in M /\ SumOver(f, M) = f[Pick(M)] + SumOver(f, M \ {Pick(M)})
    BY <1>3, <1>5, SumPick
  <2>2. SumOver(f, M \ {Pick(M)}) = 0
    BY <1>2, <2>1
  <2> QED
    BY <2>1, <2>2
<1> QED
  BY <1>4, <1>5

(* Induction on the subsets of a finite set, for a set of subsets.         *)
LEMMA SubsetInduction ==
  ASSUME NEW S, IsFiniteSet(S), NEW P, {} \in P,
         \A U \in SUBSET S, x \in S : x \in U /\ U \ {x} \in P => U \in P
  PROVE  S \in P
<1> DEFINE B == {U \in SUBSET S : U \notin P}
<1> SUFFICES ASSUME S \notin P PROVE FALSE
  OBVIOUS
<1>1. B \in SUBSET SUBSET S /\ B # {}
  OBVIOUS
<1>2. PICK M \in B : \A T \in B : ~(T \subseteq M /\ T # M)
  <2> HIDE DEF B
  <2> QED BY <1>1, MinimalSubset
<1>3. M # {} /\ M \in SUBSET S /\ M \notin P
  OBVIOUS
<1>4. PICK x : x \in M
  BY <1>3
<1>5. M \ {x} \in P
  BY <1>2, <1>3, <1>4
<1> QED
  BY <1>3, <1>4, <1>5

(* Sums are linear.                                                        *)
LEMMA SumAdd ==
  ASSUME NEW S, IsFiniteSet(S), NEW f, NEW g, NEW h,
         \A x \in S : f[x] \in Int /\ g[x] \in Int /\ h[x] = f[x] + g[x]
  PROVE  SumOver(h, S) = SumOver(f, S) + SumOver(g, S)
<1> DEFINE P == {U \in SUBSET S : SumOver(h, U) = SumOver(f, U) + SumOver(g, U)}
<1>1. {} \in P
  BY SumEmpty
<1>2. ASSUME NEW U \in SUBSET S, NEW x \in S, x \in U, U \ {x} \in P
      PROVE  U \in P
  <2>1. IsFiniteSet(U) /\ IsFiniteSet(U \ {x})
    BY FS_Subset
  <2>2. \A y \in U : f[y] \in Int /\ g[y] \in Int /\ h[y] \in Int
    OBVIOUS
  <2>3. /\ SumOver(f, U) = f[x] + SumOver(f, U \ {x})
        /\ SumOver(g, U) = g[x] + SumOver(g, U \ {x})
        /\ SumOver(h, U) = h[x] + SumOver(h, U \ {x})
    BY <1>2, <2>1, <2>2, SumRemove
  <2>4. SumOver(f, U \ {x}) \in Int /\ SumOver(g, U \ {x}) \in Int
    BY <2>1, <2>2, SumInt
  <2>5. /\ SumOver(h, U \ {x}) = SumOver(f, U \ {x}) + SumOver(g, U \ {x})
        /\ f[x] \in Int /\ g[x] \in Int /\ h[x] = f[x] + g[x]
    BY <1>2
  <2>6. SumOver(h, U) = SumOver(f, U) + SumOver(g, U)
    BY <2>3, <2>4, <2>5
  <2> QED
    BY <2>6
<1> HIDE DEF P
<1>3. S \in P
  BY <1>1, <1>2, SubsetInduction
<1> QED
  BY <1>3 DEF P

LEMMA Distributes ==
  ASSUME NEW c \in Int, NEW m \in Int, NEW n \in Int
  PROVE  c * (m + n) = c * m + c * n
OBVIOUS

LEMMA SumScale ==
  ASSUME NEW S, IsFiniteSet(S), NEW c \in Int, NEW f, NEW h,
         \A x \in S : f[x] \in Int /\ h[x] = c * f[x]
  PROVE  SumOver(h, S) = c * SumOver(f, S)
<1> DEFINE P == {U \in SUBSET S : SumOver(h, U) = c * SumOver(f, U)}
<1>1. {} \in P
  BY SumEmpty
<1>2. ASSUME NEW U \in SUBSET S, NEW x \in S, x \in U, U \ {x} \in P
      PROVE  U \in P
  <2>1. IsFiniteSet(U) /\ IsFiniteSet(U \ {x})
    BY FS_Subset
  <2>2. \A y \in U : f[y] \in Int /\ h[y] \in Int
    OBVIOUS
  <2>3. /\ SumOver(f, U) = f[x] + SumOver(f, U \ {x})
        /\ SumOver(h, U) = h[x] + SumOver(h, U \ {x})
    BY <1>2, <2>1, <2>2, SumRemove
  <2>4. SumOver(f, U \ {x}) \in Int
    BY <2>1, <2>2, SumInt
  <2>5. c * (f[x] + SumOver(f, U \ {x})) = c * f[x] + c * SumOver(f, U \ {x})
    BY <2>4, <2>2, <1>2, Distributes
  <2>6. SumOver(h, U) = c * SumOver(f, U)
    BY <1>2, <2>3, <2>5
  <2> QED
    BY <2>6
<1> HIDE DEF P
<1>3. S \in P
  BY <1>1, <1>2, SubsetInduction
<1> QED
  BY <1>3 DEF P

(* Adding up within groups first, the members of a group being those that  *)
(* key maps to the same element of T.                                      *)
LEMMA SumByGroups ==
  ASSUME NEW S, IsFiniteSet(S), NEW T, IsFiniteSet(T), NEW f, NEW key,
         \A x \in S : f[x] \in Int /\ key[x] \in T
  PROVE  SumOver(f, S) = SumOver([t \in T |-> SumOver(f, {x \in S : key[x] = t})], T)
<1> DEFINE groups(U) == [t \in T |-> SumOver(f, {x \in U : key[x] = t})]
           P == {U \in SUBSET S : SumOver(f, U) = SumOver(groups(U), T)}
<1>1. {} \in P
  <2>1. \A t \in T : groups({})[t] = 0
    <3>1. \A t \in T : {x \in {} : key[x] = t} = {}
      OBVIOUS
    <3> QED BY <3>1, SumEmpty
  <2> HIDE DEF groups
  <2>2. SumOver(groups({}), T) = 0
    BY <2>1, SumZero
  <2> QED BY <2>2, SumEmpty
<1>2. ASSUME NEW U \in SUBSET S, NEW y \in S, y \in U, U \ {y} \in P
      PROVE  U \in P
  <2> DEFINE of(V, t) == {x \in V : key[x] = t}
  <2>1. \A V \in SUBSET S, t \in T : IsFiniteSet(of(V, t)) /\ \A x \in of(V, t) : f[x] \in Int
    <3>1. \A V \in SUBSET S, t \in T : of(V, t) \in SUBSET S
      OBVIOUS
    <3> HIDE DEF of
    <3>2. \A W \in SUBSET S : IsFiniteSet(W) /\ \A x \in W : f[x] \in Int
      BY FS_Subset
    <3> QED BY <3>1, <3>2
  <2>2. \A V \in SUBSET S, t \in T : groups(V)[t] \in Int /\ groups(V)[t] = SumOver(f, of(V, t))
    <3>1. \A V \in SUBSET S, t \in T : groups(V)[t] = SumOver(f, of(V, t))
      OBVIOUS
    <3> HIDE DEF groups, of
    <3> QED BY <2>1, <3>1, SumInt
  <2>3. groups(U)[key[y]] = f[y] + groups(U \ {y})[key[y]]
    <3>1. /\ y \in of(U, key[y])
          /\ of(U \ {y}, key[y]) = of(U, key[y]) \ {y}
          /\ key[y] \in T /\ U \ {y} \in SUBSET S
      BY <1>2
    <3> HIDE DEF groups, of
    <3>2. SumOver(f, of(U, key[y])) = f[y] + SumOver(f, of(U, key[y]) \ {y})
      BY <2>1, <3>1, SumRemove
    <3> QED BY <2>2, <3>1, <3>2
  <2>4. \A t \in T \ {key[y]} : groups(U)[t] = groups(U \ {y})[t]
    <3>1. \A t \in T \ {key[y]} : of(U, t) = of(U \ {y}, t)
      OBVIOUS
    <3> HIDE DEF groups, of
    <3> QED BY <2>2, <3>1
  <2>5. key[y] \in T /\ f[y] \in Int /\ U \ {y} \in SUBSET S
    OBVIOUS
  <2> HIDE DEF groups, of
  <2>6. SumOver(groups(U), T) =
          SumOver(groups(U \ {y}), T) + (groups(U)[key[y]] - groups(U \ {y})[key[y]])
    <3>1. \A t \in T : groups(U \ {y})[t] \in Int
      BY <2>2, <2>5
    <3>2. groups(U)[key[y]] \in Int
      BY <2>2, <2>5
    <3> DEFINE old == groups(U \ {y})
               new == groups(U)
    <3>3. /\ \A t \in T : old[t] \in Int
          /\ new[key[y]] \in Int
          /\ \A t \in T \ {key[y]} : new[t] = old[t]
      BY <2>4, <3>1, <3>2
    <3> HIDE DEF old, new
    <3>4. SumOver(new, T) = SumOver(old, T) + (new[key[y]] - old[key[y]])
      BY <2>5, <3>3, SumUpdate
    <3> QED BY <3>4 DEF old, new
  <2>7. SumOver(groups(U \ {y}), T) \in Int
    BY <2>2, <2>5, SumInt
  <2>8. SumOver(f, U) = f[y] + SumOver(f, U \ {y})
    <3>1. IsFiniteSet(U) /\ \A x \in U : f[x] \in Int
      BY FS_Subset
    <3> QED BY <1>2, <3>1, SumRemove
  <2>9. SumOver(f, U \ {y}) = SumOver(groups(U \ {y}), T)
    BY <1>2
  <2>10. groups(U)[key[y]] \in Int /\ groups(U \ {y})[key[y]] \in Int
    BY <2>2, <2>5
  <2>11. SumOver(f, U) = SumOver(groups(U), T)
    BY <2>3, <2>5, <2>6, <2>7, <2>8, <2>9, <2>10
  <2> QED BY <2>11
<1> HIDE DEF P
<1>3. S \in P
  BY <1>1, <1>2, SubsetInduction
<1> QED
  BY <1>3 DEF P

(* The sum over a set that key maps onto one by one.                       *)
LEMMA SumRenamed ==
  ASSUME NEW S, IsFiniteSet(S), NEW f, NEW g, NEW key,
         \A x \in S : f[key[x]] \in Int /\ g[x] = f[key[x]],
         \A x, y \in S : key[x] = key[y] => x = y
  PROVE  SumOver(g, S) = SumOver(f, {key[x] : x \in S})
<1> DEFINE image(U) == {key[x] : x \in U}
           P == {U \in SUBSET S : /\ IsFiniteSet(image(U))
                                  /\ SumOver(g, U) = SumOver(f, image(U))}
<1>1. {} \in P
  <2>1. image({}) = {}
    OBVIOUS
  <2> QED BY <2>1, SumEmpty, FS_EmptySet
<1>2. ASSUME NEW U \in SUBSET S, NEW y \in S, y \in U, U \ {y} \in P
      PROVE  U \in P
  <2>1. IsFiniteSet(U) /\ \A x \in U : g[x] \in Int
    BY FS_Subset
  <2>2. /\ image(U \ {y}) = image(U) \ {key[y]}
        /\ key[y] \in image(U)
        /\ \A z \in image(U) : f[z] \in Int
    BY <1>2
  <2>3. IsFiniteSet(image(U))
    <3>1. IsFiniteSet(image(U \ {y})) /\ image(U) = image(U \ {y}) \cup {key[y]}
      BY <1>2
    <3> DEFINE W == image(U \ {y})
    <3>2. IsFiniteSet(W \cup {key[y]})
      <4>1. IsFiniteSet(W)
        BY <3>1
      <4> HIDE DEF W
      <4> QED BY <4>1, FS_AddElement
    <3> QED BY <3>1, <3>2
  <2>4. SumOver(g, U \ {y}) = SumOver(f, image(U \ {y})) /\ g[y] = f[key[y]]
    BY <1>2
  <2> HIDE DEF image
  <2>5. SumOver(g, U) = g[y] + SumOver(g, U \ {y})
    BY <1>2, <2>1, SumRemove
  <2>6. SumOver(f, image(U)) = f[key[y]] + SumOver(f, image(U) \ {key[y]})
    BY <2>2, <2>3, SumRemove
  <2>7. SumOver(g, U) = SumOver(f, image(U))
    BY <2>2, <2>4, <2>5, <2>6
  <2> QED BY <2>3, <2>7
<1> HIDE DEF P
<1>3. S \in P
  BY <1>1, <1>2, SubsetInduction
<1> QED
  BY <1>3 DEF P

(* The sum over a set is that over a part of it and that over the rest.    *)
LEMMA SumSplit ==
  ASSUME NEW S, IsFiniteSet(S), NEW V \in SUBSET S, NEW f, \A x \in S : f[x] \in Int
  PROVE  /\ SumOver(f, S) = SumOver(f, V) + SumOver(f, S \ V)
         /\ SumOver(f, V) \in Int /\ SumOver(f, S \ V) \in Int
<1> DEFINE part == [x \in S |-> IF x \in V THEN 0 ELSE 1]
           sides == {0, 1}
           sums == [t \in sides |-> SumOver(f, {x \in S : part[x] = t})]
<1>1. IsFiniteSet(V) /\ IsFiniteSet(S \ V)
  <2>1. S \ V \in SUBSET S
    OBVIOUS
  <2> QED
    BY <2>1, FS_Subset
<1>2. SumOver(f, V) \in Int /\ SumOver(f, S \ V) \in Int
  BY <1>1, SumInt
<1>3. IsFiniteSet({0}) /\ IsFiniteSet({1}) /\ IsFiniteSet(sides)
  <2>1. {} \cup {0} = {0} /\ {} \cup {1} = {1} /\ {0} \cup {1} = sides
    OBVIOUS
  <2>2. IsFiniteSet({} \cup {0}) /\ IsFiniteSet({} \cup {1})
    BY FS_EmptySet, FS_AddElement
  <2> QED
    BY <2>1, <2>2, FS_AddElement
<1>4. \A x \in S : f[x] \in Int /\ part[x] \in sides
  OBVIOUS
<1>5. {x \in S : part[x] = 0} = V /\ {x \in S : part[x] = 1} = S \ V
  OBVIOUS
<1>6. sums[0] = SumOver(f, V) /\ sums[1] = SumOver(f, S \ V)
  BY <1>5
<1>7. SumOver(f, S) = SumOver(sums, sides)
  <2> HIDE DEF part, sides
  <2> QED
    BY <1>3, <1>4, SumByGroups
<1> HIDE DEF sums
<1>8. SumOver(sums, sides) = sums[0] + SumOver(sums, {1})
  <2>1. \A t \in sides : sums[t] \in Int
    BY <1>2, <1>6
  <2>2. sides \ {0} = {1} /\ 0 \in sides
    OBVIOUS
  <2> HIDE DEF sides
  <2> QED
    BY <1>3, <2>1, <2>2, SumRemove
<1>9. SumOver(sums, {1}) = sums[1] + SumOver(sums, {})
  <2>1. {1} \ {1} = {} /\ \A t \in {1} : sums[t] \in Int
    BY <1>2, <1>6
  <2> QED
    BY <1>3, <2>1, SumRemove
<1> QED
  BY <1>2, <1>6, <1>7, <1>8, <1>9, SumEmpty

(* A sum of ones counts.                                                   *)
LEMMA SumOnes ==
  ASSUME NEW S, IsFiniteSet(S), NEW f, \A x \in S : f[x] = 1
  PROVE  SumOver(f, S) = Cardinality(S)
<1> DEFINE P == {U \in SUBSET S : SumOver(f, U) = Cardinality(U)}
<1>1. {} \in P
  BY SumEmpty, FS_EmptySet
<1>2. ASSUME NEW U \in SUBSET S, NEW x \in S, x \in U, U \ {x} \in P
      PROVE  U \in P
  <2>1. IsFiniteSet(U) /\ \A y \in U : f[y] \in Int
    BY FS_Subset
  <2>2. SumOver(f, U) = f[x] + SumOver(f, U \ {x})
    BY <1>2, <2>1, SumRemove
  <2>3. Cardinality(U \ {x}) = Cardinality(U) - 1 /\ Cardinality(U) \in Nat
    BY <1>2, <2>1, FS_RemoveElement, FS_CardinalityType
  <2> QED
    BY <1>2, <2>2, <2>3
<1> HIDE DEF P
<1>3. S \in P
  BY <1>1, <1>2, SubsetInduction
<1> QED
  BY <1>3 DEF P
=============================================================================
