------------------------------- MODULE FiniteSums -------------------------------
(***************************************************************************)
(* Lemmas about sums over finite sets and about iterating a function, for  *)
(* the accounting of the other modules.  Induction is by a least           *)
(* counterexample: a set of numbers has a least one, and a set of finite   *)
(* sets a minimal one.                                                     *)
(***************************************************************************)
EXTENDS Integers, FiniteSets, Functions, FiniteSetTheorems, TLAPS

\* Every set of natural numbers but the empty one has a least element.
LEMMA LeastNatural ==
    ASSUME NEW T \in SUBSET Nat, T # {}
    PROVE  \E n \in T : \A m \in T : n =< m
<1>1. PICK n \in T : \A m \in T : ~(<<m, n>> \in OpToRel(<, Nat))
  BY NatLessThanWellFounded, WFMin, Zenon
<1>2. ASSUME NEW m \in T PROVE n =< m
  <2>1. n \in Nat /\ m \in Nat /\ <<m, n>> \in Nat \X Nat
    OBVIOUS
  <2>2. (<<m, n>>)[1] = m /\ (<<m, n>>)[2] = n
    OBVIOUS
  <2>3. ~(m < n)
    BY <1>1, <2>1, <2>2 DEF OpToRel
  <2> QED BY <2>1, <2>3
<1> QED BY <1>2

\* Induction over the natural numbers, for a set of them.
LEMMA NaturalInduction ==
    ASSUME NEW D, 0 \in D, \A n \in Nat : n \in D => n + 1 \in D
    PROVE  Nat \subseteq D
<1> SUFFICES ASSUME Nat \ D # {} PROVE FALSE
  OBVIOUS
<1>1. PICK n \in Nat \ D : \A m \in Nat \ D : n =< m
  BY LeastNatural, Zenon
<1>2. n - 1 \in Nat /\ n - 1 \in D
  BY <1>1
<1> QED BY <1>1, <1>2

\* Induction over the subsets of a finite set, for a set of them.
LEMMA SubsetInduction ==
    ASSUME NEW S, IsFiniteSet(S), NEW D,
           \A T \in SUBSET S : (\A U \in SUBSET T : U # T => U \in D) => T \in D
    PROVE  SUBSET S \subseteq D
<1> DEFINE B == {T \in SUBSET S : T \notin D}
<1> SUFFICES ASSUME B # {} PROVE FALSE
  OBVIOUS
<1>1. IsWellFoundedOn(StrictSubsetOrdering(S), SUBSET S)
  <2>1. FiniteSubsetsOf(S) = SUBSET S
    BY FS_FiniteSubsetsOfFinite
  <2>2. IsWellFoundedOn(StrictSubsetOrdering(S), FiniteSubsetsOf(S))
    BY FS_StrictSubsetOrderingWellFounded
  <2> QED BY <2>1, <2>2
<1>2. PICK T \in B : \A U \in B : ~(<<U, T>> \in StrictSubsetOrdering(S))
  <2>1. B \subseteq SUBSET S
    OBVIOUS
  <2> HIDE DEF B
  <2> QED BY <1>1, <2>1, WFMin
<1>3. ASSUME NEW U \in SUBSET T, U # T PROVE U \in D
  <2>1. <<U, T>> \in (SUBSET S) \X (SUBSET S)
    OBVIOUS
  <2>2. (<<U, T>>)[1] = U /\ (<<U, T>>)[2] = T
    OBVIOUS
  <2>3. <<U, T>> \in StrictSubsetOrdering(S)
    BY <1>3, <2>1, <2>2 DEF StrictSubsetOrdering
  <2> QED BY <1>2, <2>3
<1> QED BY <1>2, <1>3

--------------------------------------------------------------------------------
(* The sum of the library is a recursive function on the subsets; it exists and *)
(* does not depend on the set its recursion starts from.                        *)

Pick(s) == CHOOSE x \in s : TRUE

SumStep(g, f, s) == IF s = {} THEN 0 ELSE g[Pick(s)] + f[s \ {Pick(s)}]

IsSum(g, f, S) == f = [s \in SUBSET S |-> SumStep(g, f, s)]

LEMMA PickIn == ASSUME NEW S, S # {} PROVE Pick(S) \in S
BY DEF Pick

LEMMA SumExists ==
    ASSUME NEW S, IsFiniteSet(S), NEW g
    PROVE  \E f : IsSum(g, f, S)
<1> DEFINE Small(n) == {s \in SUBSET S : Cardinality(s) =< n}
           Has(n) == \E f : f = [s \in Small(n) |-> SumStep(g, f, s)]
           D == {n \in Nat : Has(n)}
<1>0. \A s \in SUBSET S : IsFiniteSet(s) /\ Cardinality(s) \in Nat /\ Cardinality(s) =< Cardinality(S)
  BY FS_Subset, FS_CardinalityType
<1>1. 0 \in D
  <2> DEFINE f == [s \in Small(0) |-> 0]
  <2>1. \A s \in Small(0) : s = {}
    BY <1>0, FS_EmptySet
  <2>2. f = [s \in Small(0) |-> SumStep(g, f, s)]
    BY <2>1 DEF SumStep
  <2> QED BY <2>2, Zenon
<1>2. ASSUME NEW n \in Nat, n \in D PROVE n + 1 \in D
  <2>1. PICK f : f = [s \in Small(n) |-> SumStep(g, f, s)]
    BY <1>2
  <2> DEFINE h == [s \in Small(n + 1) |-> SumStep(g, f, s)]
  <2>2. ASSUME NEW s \in Small(n) PROVE h[s] = f[s] /\ s \in Small(n + 1)
    <3>1. s \in Small(n + 1)
      BY <1>0
    <3>2. f[s] = SumStep(g, f, s)
      BY <2>1
    <3> QED BY <3>1, <3>2
  <2>3. ASSUME NEW s \in Small(n + 1) PROVE h[s] = SumStep(g, h, s)
    <3>1. CASE s = {}
      BY <3>1 DEF SumStep
    <3>2. CASE s # {}
      <4>1. Pick(s) \in s /\ IsFiniteSet(s)
        BY <3>2, <1>0, PickIn
      <4>2. Cardinality(s \ {Pick(s)}) = Cardinality(s) - 1
        BY <4>1, FS_RemoveElement
      <4>3. s \ {Pick(s)} \in Small(n)
        BY <4>2, <1>0
      <4>4. h[s \ {Pick(s)}] = f[s \ {Pick(s)}]
        BY <4>3, <2>2, Zenon
      <4>5. h[s] = SumStep(g, f, s)
        OBVIOUS
      <4> HIDE DEF h
      <4> QED BY <4>4, <4>5 DEF SumStep
    <3> QED BY <3>1, <3>2
  <2>4. h = [s \in Small(n + 1) |-> SumStep(g, h, s)]
    BY <2>3
  <2>5. Has(n + 1)
    <3> HIDE DEF h
    <3> QED BY <2>4, Zenon
  <2> HIDE DEF Has
  <2> QED BY <2>5
<1>3. Nat \subseteq D
  <2> HIDE DEF D
  <2> QED BY <1>1, <1>2, NaturalInduction
<1>4. Cardinality(S) \in D
  BY <1>3, FS_CardinalityType, Zenon
<1>5. Small(Cardinality(S)) = SUBSET S
  BY <1>0
<1> QED BY <1>4, <1>5 DEF IsSum

LEMMA SumUnfold ==
    ASSUME NEW S, IsFiniteSet(S), NEW g
    PROVE  \E f : IsSum(g, f, S) /\ SumFunctionOnSet(g, S) = f[S]
<1> DEFINE F == CHOOSE f : f = [s \in SUBSET S |-> SumStep(g, f, s)]
<1>1. F = [s \in SUBSET S |-> SumStep(g, F, s)]
  BY SumExists DEF IsSum
<1>2. SumFunctionOnSet(g, S) = F[S]
  BY DEF SumFunctionOnSet, FoldFunctionOnSet, MapThenFoldSet, SumStep, Pick
<1> HIDE DEF F
<1> QED BY <1>1, <1>2 DEF IsSum

LEMMA SumUnique ==
    ASSUME NEW S, NEW T \in SUBSET S, IsFiniteSet(T), NEW g, NEW f, NEW h,
           IsSum(g, f, S), IsSum(g, h, T)
    PROVE  f[T] = h[T]
<1> DEFINE D == {U \in SUBSET T : f[U] = h[U]}
<1>1. ASSUME NEW U \in SUBSET T, \A V \in SUBSET U : V # U => V \in D
      PROVE  U \in D
  <2>1. f[U] = SumStep(g, f, U) /\ h[U] = SumStep(g, h, U)
    BY DEF IsSum
  <2>2. CASE U = {}
    BY <2>1, <2>2 DEF SumStep
  <2>3. CASE U # {}
    <3>1. Pick(U) \in U
      BY <2>3, PickIn
    <3>2. f[U \ {Pick(U)}] = h[U \ {Pick(U)}]
      BY <3>1, <1>1
    <3> QED BY <2>1, <3>2 DEF SumStep
  <2> QED BY <2>2, <2>3
<1>2. SUBSET T \subseteq D
  <2> HIDE DEF D
  <2> QED BY <1>1, SubsetInduction
<1> QED BY <1>2

\* The sum over a set is one element and the sum over the others.
LEMMA SumRecursion ==
    ASSUME NEW S, IsFiniteSet(S), S # {}, NEW g
    PROVE  SumFunctionOnSet(g, S) = g[Pick(S)] + SumFunctionOnSet(g, S \ {Pick(S)})
<1> DEFINE T == S \ {Pick(S)}
<1>1. IsFiniteSet(T) /\ T \in SUBSET S
  BY FS_Subset
<1>2. PICK f : IsSum(g, f, S) /\ SumFunctionOnSet(g, S) = f[S]
  BY SumUnfold
<1>3. PICK h : IsSum(g, h, T) /\ SumFunctionOnSet(g, T) = h[T]
  BY <1>1, SumUnfold
<1>4. f[T] = h[T]
  BY <1>1, <1>2, <1>3, SumUnique
<1>5. f[S] = SumStep(g, f, S)
  BY <1>2 DEF IsSum
<1> QED BY <1>2, <1>3, <1>4, <1>5 DEF SumStep

\* What follows is all that the other modules use.
LEMMA SumEmpty == ASSUME NEW g PROVE SumFunctionOnSet(g, {}) = 0
<1>1. PICK f : IsSum(g, f, {}) /\ SumFunctionOnSet(g, {}) = f[{}]
  BY SumUnfold, FS_EmptySet
<1> QED BY <1>1 DEF IsSum, SumStep

LEMMA SumInt ==
    ASSUME NEW S, IsFiniteSet(S), NEW g, \A x \in S : g[x] \in Int
    PROVE  SumFunctionOnSet(g, S) \in Int
<1> DEFINE D == {T \in SUBSET S : SumFunctionOnSet(g, T) \in Int}
<1>1. ASSUME NEW T \in SUBSET S, \A U \in SUBSET T : U # T => U \in D PROVE T \in D
  <2>1. CASE T = {}
    BY <2>1, SumEmpty
  <2>2. CASE T # {}
    <3>1. Pick(T) \in T /\ IsFiniteSet(T)
      BY <2>2, PickIn, FS_Subset
    <3>2. T \ {Pick(T)} \in D
      BY <3>1, <1>1
    <3>3. SumFunctionOnSet(g, T) = g[Pick(T)] + SumFunctionOnSet(g, T \ {Pick(T)})
      BY <2>2, <3>1, SumRecursion
    <3> QED BY <3>1, <3>2, <3>3
  <2> QED BY <2>1, <2>2
<1>2. SUBSET S \subseteq D
  <2> HIDE DEF D
  <2> QED BY <1>1, SubsetInduction
<1> QED BY <1>2

LEMMA SumNat ==
    ASSUME NEW S, IsFiniteSet(S), NEW g, \A x \in S : g[x] \in Nat
    PROVE  SumFunctionOnSet(g, S) \in Nat
<1> DEFINE D == {T \in SUBSET S : SumFunctionOnSet(g, T) \in Nat}
<1>1. ASSUME NEW T \in SUBSET S, \A U \in SUBSET T : U # T => U \in D PROVE T \in D
  <2>1. CASE T = {}
    BY <2>1, SumEmpty
  <2>2. CASE T # {}
    <3>1. Pick(T) \in T /\ IsFiniteSet(T)
      BY <2>2, PickIn, FS_Subset
    <3>2. T \ {Pick(T)} \in D
      BY <3>1, <1>1
    <3>3. SumFunctionOnSet(g, T) = g[Pick(T)] + SumFunctionOnSet(g, T \ {Pick(T)})
      BY <2>2, <3>1, SumRecursion
    <3> QED BY <3>1, <3>2, <3>3
  <2> QED BY <2>1, <2>2
<1>2. SUBSET S \subseteq D
  <2> HIDE DEF D
  <2> QED BY <1>1, SubsetInduction
<1> QED BY <1>2

\* Any element may be taken out first.
LEMMA SumRemove ==
    ASSUME NEW S, IsFiniteSet(S), NEW g, \A x \in S : g[x] \in Int, NEW x \in S
    PROVE  SumFunctionOnSet(g, S) = g[x] + SumFunctionOnSet(g, S \ {x})
<1> DEFINE sum(T) == SumFunctionOnSet(g, T)
           D == {T \in SUBSET S : \A y \in T : sum(T) = g[y] + sum(T \ {y})}
<1>1. ASSUME NEW T \in SUBSET S, \A U \in SUBSET T : U # T => U \in D PROVE T \in D
  <2> SUFFICES ASSUME NEW y \in T PROVE sum(T) = g[y] + sum(T \ {y})
    OBVIOUS
  <2> DEFINE p == Pick(T)
  <2>1. p \in T /\ IsFiniteSet(T)
    BY PickIn, FS_Subset
  <2>2. sum(T) = g[p] + sum(T \ {p})
    BY <2>1, SumRecursion, Zenon
  <2>3. CASE y = p
    BY <2>2, <2>3
  <2>4. CASE y # p
    <3> HIDE DEF p
    <3>1. T \ {p} \in D /\ T \ {y} \in D
      BY <1>1, <2>1
    <3>2. sum(T \ {p}) = g[y] + sum((T \ {p}) \ {y})
      BY <3>1, <2>4
    <3>3. sum(T \ {y}) = g[p] + sum((T \ {y}) \ {p})
      BY <3>1, <2>1, <2>4, Zenon
    <3>4. (T \ {p}) \ {y} = (T \ {y}) \ {p} /\ IsFiniteSet((T \ {p}) \ {y})
      BY <2>1, FS_Subset
    <3>5. g[p] \in Int /\ g[y] \in Int /\ sum((T \ {p}) \ {y}) \in Int
      BY <2>1, <3>4, SumInt
    <3>6. \E r \in Int : sum(T \ {p}) = g[y] + r /\ sum(T \ {y}) = g[p] + r
      BY <3>2, <3>3, <3>4, <3>5
    <3> HIDE DEF sum
    <3> QED BY <2>2, <3>5, <3>6
  <2> QED BY <2>3, <2>4
<1>2. SUBSET S \subseteq D
  <2> HIDE DEF D
  <2> QED BY <1>1, SubsetInduction
<1> QED BY <1>2

LEMMA SumAdd ==
    ASSUME NEW S, IsFiniteSet(S), NEW x, x \notin S, NEW g, \A y \in S \cup {x} : g[y] \in Int
    PROVE  SumFunctionOnSet(g, S \cup {x}) = g[x] + SumFunctionOnSet(g, S)
<1>1. IsFiniteSet(S \cup {x}) /\ (S \cup {x}) \ {x} = S
  BY FS_AddElement
<1> QED BY <1>1, SumRemove

\* Functions that agree on a set have the same sum over it.
LEMMA SumSame ==
    ASSUME NEW S, IsFiniteSet(S), NEW g, NEW h, \A x \in S : g[x] = h[x]
    PROVE  SumFunctionOnSet(g, S) = SumFunctionOnSet(h, S)
<1> DEFINE D == {T \in SUBSET S : SumFunctionOnSet(g, T) = SumFunctionOnSet(h, T)}
<1>1. ASSUME NEW T \in SUBSET S, \A U \in SUBSET T : U # T => U \in D PROVE T \in D
  <2>1. CASE T = {}
    BY <2>1, SumEmpty
  <2>2. CASE T # {}
    <3>1. Pick(T) \in T /\ IsFiniteSet(T)
      BY <2>2, PickIn, FS_Subset
    <3>2. T \ {Pick(T)} \in D
      BY <3>1, <1>1
    <3> QED BY <2>2, <3>1, <3>2, SumRecursion
  <2> QED BY <2>1, <2>2
<1>2. SUBSET S \subseteq D
  <2> HIDE DEF D
  <2> QED BY <1>1, SubsetInduction
<1> QED BY <1>2

\* A sum changes by as much as one of its terms.
LEMMA SumUpdate ==
    ASSUME NEW S, IsFiniteSet(S), NEW g, NEW h, NEW x \in S,
           \A y \in S : g[y] \in Int /\ h[y] \in Int, \A y \in S : y # x => g[y] = h[y]
    PROVE  SumFunctionOnSet(h, S) = SumFunctionOnSet(g, S) + h[x] - g[x]
<1>1. IsFiniteSet(S \ {x})
  BY FS_Subset
<1>2. SumFunctionOnSet(g, S \ {x}) = SumFunctionOnSet(h, S \ {x})
  BY <1>1, SumSame
<1>3. SumFunctionOnSet(g, S \ {x}) \in Int
  BY <1>1, SumInt
<1>4. /\ SumFunctionOnSet(g, S) = g[x] + SumFunctionOnSet(g, S \ {x})
      /\ SumFunctionOnSet(h, S) = h[x] + SumFunctionOnSet(h, S \ {x})
  BY SumRemove
<1> QED BY <1>2, <1>3, <1>4

\* Terms that are no larger have a sum that is no larger.
LEMMA SumMonotone ==
    ASSUME NEW S, IsFiniteSet(S), NEW g, NEW h,
           \A x \in S : g[x] \in Int /\ h[x] \in Int /\ g[x] =< h[x]
    PROVE  SumFunctionOnSet(g, S) =< SumFunctionOnSet(h, S)
<1> DEFINE D == {T \in SUBSET S : SumFunctionOnSet(g, T) =< SumFunctionOnSet(h, T)}
<1>1. ASSUME NEW T \in SUBSET S, \A U \in SUBSET T : U # T => U \in D PROVE T \in D
  <2>1. CASE T = {}
    BY <2>1, SumEmpty
  <2>2. CASE T # {}
    <3>1. Pick(T) \in T /\ IsFiniteSet(T) /\ IsFiniteSet(T \ {Pick(T)})
      BY <2>2, PickIn, FS_Subset
    <3>2. T \ {Pick(T)} \in D
      BY <3>1, <1>1
    <3>3. /\ SumFunctionOnSet(g, T \ {Pick(T)}) \in Int
          /\ SumFunctionOnSet(h, T \ {Pick(T)}) \in Int
      BY <3>1, SumInt
    <3> QED BY <2>2, <3>1, <3>2, <3>3, SumRecursion
  <2> QED BY <2>1, <2>2
<1>2. SUBSET S \subseteq D
  <2> HIDE DEF D
  <2> QED BY <1>1, SubsetInduction
<1> QED BY <1>2

\* A sum of zeros.
LEMMA SumZero ==
    ASSUME NEW S, IsFiniteSet(S), NEW g, \A x \in S : g[x] = 0
    PROVE  SumFunctionOnSet(g, S) = 0
<1> DEFINE D == {T \in SUBSET S : SumFunctionOnSet(g, T) = 0}
<1>1. ASSUME NEW T \in SUBSET S, \A U \in SUBSET T : U # T => U \in D PROVE T \in D
  <2>1. CASE T = {}
    BY <2>1, SumEmpty
  <2>2. CASE T # {}
    <3>1. PICK x \in T : TRUE
      BY <2>2
    <3>2. IsFiniteSet(T) /\ SumFunctionOnSet(g, T \ {x}) = 0
      BY <1>1, <3>1, FS_Subset
    <3>3. SumFunctionOnSet(g, T) = g[x] + SumFunctionOnSet(g, T \ {x})
      BY <3>1, <3>2, SumRemove
    <3> QED BY <3>1, <3>2, <3>3
  <2> QED BY <2>1, <2>2
<1>2. SUBSET S \subseteq D
  <2> HIDE DEF D
  <2> QED BY <1>1, SubsetInduction, Zenon
<1> QED BY <1>2

\* The sum over two disjoint sets.
LEMMA SumDisjoint ==
    ASSUME NEW S, IsFiniteSet(S), NEW T, IsFiniteSet(T), S \cap T = {},
           NEW g, \A x \in S \cup T : g[x] \in Int
    PROVE  SumFunctionOnSet(g, S \cup T) = SumFunctionOnSet(g, S) + SumFunctionOnSet(g, T)
<1> DEFINE sum(U) == SumFunctionOnSet(g, U)
           D == {U \in SUBSET T : sum(S \cup U) = sum(S) + sum(U)}
<1>1. ASSUME NEW U \in SUBSET T, \A V \in SUBSET U : V # U => V \in D PROVE U \in D
  <2>0. IsFiniteSet(U) /\ sum(S) \in Int
    BY FS_Subset, SumInt
  <2>1. CASE U = {}
    <3>1. S \cup U = S /\ sum(U) = 0
      BY <2>1, SumEmpty
    <3>2. sum(S \cup U) = sum(S)
      BY <3>1, Zenon
    <3>3. sum(S \cup U) = sum(S) + sum(U)
      <4> HIDE DEF sum
      <4> QED BY <2>0, <3>1, <3>2
    <3> QED BY <3>3
  <2>2. CASE U # {}
    <3>1. PICK x \in U : TRUE
      BY <2>2
    <3> DEFINE V == U \ {x}
    <3>2. /\ IsFiniteSet(V) /\ x \notin V /\ x \notin S \cup V /\ IsFiniteSet(S \cup V)
          /\ V \cup {x} = U /\ (S \cup V) \cup {x} = S \cup U
      BY <2>0, <3>1, FS_Subset, FS_Union, Zenon
    <3>3. sum(S \cup V) = sum(S) + sum(V)
      BY <1>1, <3>1
    <3>4. \A y \in S \cup U : g[y] \in Int
      OBVIOUS
    <3> HIDE DEF V
    <3>5. sum(U) = g[x] + sum(V)
      BY <3>2, <3>4, SumAdd, Zenon
    <3>6. sum(S \cup U) = g[x] + sum(S \cup V)
      BY <3>2, <3>4, SumAdd, ZenonT(40)
    <3>7. g[x] \in Int /\ sum(V) \in Int
      BY <3>2, <3>4, SumInt
    <3>8. sum(S \cup U) = sum(S) + sum(U)
      <4> HIDE DEF sum
      <4> QED BY <2>0, <3>3, <3>5, <3>6, <3>7
    <3> QED BY <3>8
  <2> QED BY <2>1, <2>2
<1>2. SUBSET T \subseteq D
  <2> HIDE DEF D
  <2> QED BY <1>1, SubsetInduction
<1> QED BY <1>2

\* A sum by parts: h[i] is the sum over part f[i] of a finite set.
LEMMA SumPartition ==
    ASSUME NEW I, IsFiniteSet(I), NEW B, IsFiniteSet(B), NEW f, \A i \in I : f[i] \subseteq B,
           \A i, j \in I : i # j => f[i] \cap f[j] = {},
           NEW g, \A x \in B : g[x] \in Int,
           NEW h, \A i \in I : h[i] = SumFunctionOnSet(g, f[i])
    PROVE  SumFunctionOnSet(h, I) = SumFunctionOnSet(g, UNION {f[i] : i \in I})
<1> DEFINE All(J) == UNION {f[i] : i \in J}
           D == {J \in SUBSET I : SumFunctionOnSet(h, J) = SumFunctionOnSet(g, All(J))}
<1>0. \A i \in I : IsFiniteSet(f[i]) /\ h[i] \in Int
  <2>1. ASSUME NEW i \in I PROVE IsFiniteSet(f[i]) /\ \A x \in f[i] : g[x] \in Int
    BY FS_Subset
  <2> QED BY <2>1, SumInt
<1>1. ASSUME NEW J \in SUBSET I, \A K \in SUBSET J : K # J => K \in D PROVE J \in D
  <2>1. CASE J = {}
    BY <2>1, SumEmpty
  <2>2. CASE J # {}
    <3>1. PICK i \in J : TRUE
      BY <2>2
    <3> DEFINE K == J \ {i}
    <3>2. IsFiniteSet(J) /\ IsFiniteSet(f[i]) /\ IsFiniteSet(All(K))
      <4>1. All(K) \subseteq B
        OBVIOUS
      <4> QED BY <1>0, <4>1, FS_Subset
    <3>3. SumFunctionOnSet(h, J) = h[i] + SumFunctionOnSet(h, K)
      BY <1>0, <3>2, SumRemove
    <3>4. SumFunctionOnSet(h, K) = SumFunctionOnSet(g, All(K))
      BY <1>1, <3>1
    <3>5. All(J) = f[i] \cup All(K) /\ f[i] \cap All(K) = {}
      OBVIOUS
    <3>6. \A x \in f[i] \cup All(K) : g[x] \in Int
      OBVIOUS
    <3>7. SumFunctionOnSet(g, f[i] \cup All(K)) = SumFunctionOnSet(g, f[i]) + SumFunctionOnSet(g, All(K))
      <4> DEFINE R == f[i]
                 A == All(K)
      <4>1. IsFiniteSet(R) /\ IsFiniteSet(A) /\ R \cap A = {} /\ \A x \in R \cup A : g[x] \in Int
        BY <3>2, <3>5, <3>6
      <4> HIDE DEF R, A
      <4>2. SumFunctionOnSet(g, R \cup A) = SumFunctionOnSet(g, R) + SumFunctionOnSet(g, A)
        BY <4>1, SumDisjoint
      <4> QED BY <4>2 DEF R, A
    <3>8. h[i] = SumFunctionOnSet(g, f[i])
      OBVIOUS
    <3> QED BY <3>3, <3>4, <3>5, <3>7, <3>8, Zenon
  <2> QED BY <2>1, <2>2
<1>2. SUBSET I \subseteq D
  <2> HIDE DEF D
  <2> QED BY <1>1, SubsetInduction
<1>3. I \in D
  BY <1>2
<1> QED BY <1>3

\* The same when the parts cover the set.
LEMMA SumCover ==
    ASSUME NEW I, IsFiniteSet(I), NEW B, IsFiniteSet(B), NEW f, \A i \in I : f[i] \subseteq B,
           \A i, j \in I : i # j => f[i] \cap f[j] = {}, \A x \in B : \E i \in I : x \in f[i],
           NEW g, \A x \in B : g[x] \in Int,
           NEW h, \A i \in I : h[i] = SumFunctionOnSet(g, f[i])
    PROVE  SumFunctionOnSet(h, I) = SumFunctionOnSet(g, B)
<1>1. UNION {f[i] : i \in I} = B
  <2>1. ASSUME NEW x \in B PROVE x \in UNION {f[i] : i \in I}
    OBVIOUS
  <2>2. ASSUME NEW x \in UNION {f[i] : i \in I} PROVE x \in B
    <3>1. PICK i \in I : x \in f[i]
      OBVIOUS
    <3> QED BY <3>1
  <2> QED BY <2>1, <2>2
<1>2. SumFunctionOnSet(h, I) = SumFunctionOnSet(g, UNION {f[i] : i \in I})
  BY SumPartition
<1> QED BY <1>1, <1>2

\* Ones up to k, zeros after it.
LEMMA SumOnes ==
    ASSUME NEW n \in Nat, NEW k \in Nat, k <= n, NEW g,
           \A i \in 1..n : g[i] = IF i <= k THEN 1 ELSE 0
    PROVE  SumFunctionOnSet(g, 1..n) = k
<1> DEFINE D == {m \in Nat : m <= n => SumFunctionOnSet(g, 1..m) = IF m <= k THEN m ELSE k}
<1>1. 0 \in D
  <2>1. 1..0 = {}
    OBVIOUS
  <2> QED BY <2>1, SumEmpty
<1>2. ASSUME NEW m \in Nat, m \in D PROVE m + 1 \in D
  <2> SUFFICES ASSUME m + 1 <= n
               PROVE  SumFunctionOnSet(g, 1..(m + 1)) = IF m + 1 <= k THEN m + 1 ELSE k
    OBVIOUS
  <2>1. 1..(m + 1) = (1..m) \cup {m + 1} /\ m + 1 \notin 1..m
    OBVIOUS
  <2>2. IsFiniteSet(1..m)
    BY FS_Interval
  <2>3. \A i \in (1..m) \cup {m + 1} : g[i] \in Int
    OBVIOUS
  <2>4. SumFunctionOnSet(g, (1..m) \cup {m + 1}) = g[m + 1] + SumFunctionOnSet(g, 1..m)
    BY <2>1, <2>2, <2>3, SumAdd, Zenon
  <2>5. SumFunctionOnSet(g, 1..m) = IF m <= k THEN m ELSE k
    BY <1>2
  <2>6. g[m + 1] = IF m + 1 <= k THEN 1 ELSE 0
    OBVIOUS
  <2> DEFINE x == SumFunctionOnSet(g, 1..m)
             y == SumFunctionOnSet(g, 1..(m + 1))
  <2>7. y = g[m + 1] + x /\ (x = IF m <= k THEN m ELSE k)
    BY <2>1, <2>4, <2>5, Zenon
  <2> HIDE DEF x, y
  <2>8. y = IF m + 1 <= k THEN m + 1 ELSE k
    BY <2>6, <2>7
  <2> QED BY <2>8 DEF y
<1>3. Nat \subseteq D
  <2> HIDE DEF D
  <2> QED BY <1>1, <1>2, NaturalInduction
<1> QED BY <1>3

================================================================================
