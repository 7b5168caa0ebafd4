-------------------------- MODULE ResourceLease_proofs --------------------------
(* Proofs about ResourceLease, for any capacity, requests and owners and any *)
(* number of epochs.                                                          *)
EXTENDS ResourceLease, FiniteSums

Allocation ==
    [owner : Owners, parent : Nat, grant : Amount, remaining : Amount, child_count : Nat,
     release_pending : BOOLEAN]

Kids(A, p) == {x \in DOMAIN A : A[x].parent = p}

Grants(A, S) ==
    [cu |-> SumFunctionOnSet([x \in S |-> A[x].grant.cu], S),
     mb |-> SumFunctionOnSet([x \in S |-> A[x].grant.mb], S)]

\* Allocations A, of which u is used: a child is younger than its parent, which
\* outlives it, and every unit and byte is accounted for.
Sound(A, u) ==
    /\ IsFiniteSet(DOMAIN A) /\ DOMAIN A \subseteq Nat \ {0}
    /\ A \in [DOMAIN A -> Allocation] /\ u \in Amount
    /\ \A x \in DOMAIN A :
          A[x].parent # NoParent => A[x].parent \in DOMAIN A /\ A[x].parent < x
    /\ u = Grants(A, Kids(A, NoParent))
    /\ \A p \in DOMAIN A :
          /\ A[p].grant = Plus(A[p].remaining, Grants(A, Kids(A, p)))
          /\ A[p].child_count = Cardinality(Kids(A, p))

\* A tombstone has a child.
Tombstone(a) == a.release_pending /\ ~Ready(a)

\* The inductive invariant: an allocation has a handle or is a tombstone.
IInv ==
    /\ Sound(allocations, used) /\ Fits(used, Capacity)
    /\ next_epoch \in Nat /\ \A x \in DOMAIN allocations : x <= next_epoch
    /\ leases \subseteq DOMAIN allocations
    /\ \A x \in DOMAIN allocations :
          IF x \in leases THEN ~allocations[x].release_pending ELSE Tombstone(allocations[x])

--------------------------------------------------------------------------------
(* The loop of release_ready_allocation, from the state s0. *)

Body(loop, s0, n) ==
    IF n = 0 THEN s0
    ELSE LET prev == loop[n - 1] IN
           IF prev.result = "continue" THEN ReleaseStep(prev) ELSE prev

\* What holds of the n-th state of the loop for the release of e: what is gone is e and
\* tombstones, and the loop is at the only tombstone without a child.
LoopInv(s, e, n) ==
    /\ s = [allocations |-> s.allocations, used |-> s.used, epoch |-> s.epoch, result |-> s.result]
    /\ Sound(s.allocations, s.used) /\ Fits(s.used, Capacity)
    /\ DOMAIN s.allocations \subseteq DOMAIN allocations
    /\ \A x \in DOMAIN s.allocations :
          s.allocations[x].release_pending = allocations[x].release_pending
    /\ \A x \in DOMAIN allocations \ DOMAIN s.allocations :
          x = e \/ allocations[x].release_pending
    /\ \A x \in DOMAIN s.allocations : s.allocations[x].release_pending =>
          \/ ~Ready(s.allocations[x])
          \/ s.result = "continue" /\ x = s.epoch
    /\ \/ s.result = "continue"
          /\ s.epoch \in DOMAIN s.allocations /\ Ready(s.allocations[s.epoch])
          /\ (s.epoch = e \/ s.allocations[s.epoch].release_pending)
          /\ Cardinality(DOMAIN s.allocations) + n = Cardinality(DOMAIN allocations)
       \/ s.result = "ok"
    /\ IF n = 0 THEN s.epoch = e ELSE e \notin DOMAIN s.allocations

LEMMA LoopExists ==
    ASSUME NEW s0
    PROVE  \E f : f = [n \in Nat |-> Body(f, s0, n)]
<1> DEFINE Upto(f, n) == f = [m \in 0..n |-> Body(f, s0, m)]
           Has(n) == \E f : Upto(f, n)
           H == {n \in Nat : Has(n)}
<1>1. Has(0)
  <2> DEFINE f == [m \in 0..0 |-> s0]
  <2>1. \A m \in 0..0 : f[m] = Body(f, s0, m)
    BY DEF Body
  <2>2. Upto(f, 0)
    BY <2>1
  <2> HIDE DEF f, Upto
  <2> QED BY <2>2
<1>2. ASSUME NEW n \in Nat, Has(n) PROVE Has(n + 1)
  <2>1. PICK f : Upto(f, n)
    BY <1>2
  <2> DEFINE h == [m \in 0..(n + 1) |-> Body(f, s0, m)]
  <2>2. \A m \in 0..n : h[m] = f[m]
    BY <2>1
  <2>3. ASSUME NEW m \in 0..(n + 1) PROVE h[m] = Body(h, s0, m)
    <3>1. h[m] = Body(f, s0, m)
      OBVIOUS
    <3>2. m # 0 => m - 1 \in 0..n
      OBVIOUS
    <3> HIDE DEF h
    <3> QED BY <2>2, <3>1, <3>2 DEF Body
  <2>4. Upto(h, n + 1)
    BY <2>3
  <2> HIDE DEF h, Upto
  <2> QED BY <2>4
<1>3. \A n \in Nat : Has(n)
  <2>1. 0 \in H /\ \A n \in Nat : n \in H => n + 1 \in H
    <3> HIDE DEF Has
    <3> QED BY <1>1, <1>2
  <2> HIDE DEF Has
  <2>2. Nat \subseteq H
    <3> HIDE DEF H
    <3> QED BY <2>1, NaturalInduction
  <2> QED BY <2>2
<1> DEFINE P(n) == CHOOSE f : Upto(f, n)
           F == [n \in Nat |-> P(n)[n]]
<1>4. \A n \in Nat : Upto(P(n), n)
  <2> HIDE DEF Upto
  <2> QED BY <1>3
<1> HIDE DEF P
<1>5. ASSUME NEW n \in Nat PROVE P(n + 1)[n] = P(n)[n]
  <2> DEFINE E == {m \in Nat : m <= n => P(n + 1)[m] = P(n)[m]}
  <2>1. \A m \in 0..n : P(n)[m] = Body(P(n), s0, m)
    BY <1>4
  <2>2. \A m \in 0..(n + 1) : P(n + 1)[m] = Body(P(n + 1), s0, m)
    BY <1>4
  <2>3. 0 \in E
    BY <2>1, <2>2 DEF Body
  <2>4. ASSUME NEW m \in Nat, m \in E PROVE m + 1 \in E
    <3> SUFFICES ASSUME m + 1 <= n PROVE P(n + 1)[m + 1] = P(n)[m + 1]
      OBVIOUS
    <3>1. m + 1 \in 0..n /\ m + 1 \in 0..(n + 1) /\ m + 1 # 0 /\ (m + 1) - 1 = m
      OBVIOUS
    <3>2. P(n + 1)[m] = P(n)[m]
      BY <2>4
    <3>3. Body(P(n + 1), s0, m + 1) = Body(P(n), s0, m + 1)
      BY <3>1, <3>2 DEF Body
    <3> QED BY <2>1, <2>2, <3>1, <3>3
  <2>5. Nat \subseteq E
    <3> HIDE DEF E
    <3> QED BY <2>3, <2>4, NaturalInduction
  <2> QED BY <2>5
<1>6. ASSUME NEW n \in Nat PROVE F[n] = Body(F, s0, n)
  <2>1. F[n] = P(n)[n] /\ P(n)[n] = Body(P(n), s0, n)
    BY <1>4
  <2>2. ASSUME n # 0 PROVE F[n - 1] = P(n)[n - 1]
    <3>1. n - 1 \in Nat /\ (n - 1) + 1 = n
      BY <2>2
    <3>2. P(n)[n - 1] = P(n - 1)[n - 1]
      BY <1>5, <3>1
    <3> QED BY <3>1, <3>2
  <2> HIDE DEF F
  <2> QED BY <2>1, <2>2 DEF Body
<1>7. F = [n \in Nat |-> Body(F, s0, n)]
  BY <1>6
<1> HIDE DEF F
<1> QED BY <1>7

\* release_ready_allocation is the state its loop has reached when it has gone round
\* once more often than there are allocations.
LEMMA LoopUnfold ==
    ASSUME NEW e
    PROVE  LET s0 == [allocations |-> allocations, used |-> used,
                      epoch |-> e, result |-> "continue"] IN
           \E f : /\ f = [n \in Nat |-> Body(f, s0, n)]
                  /\ release_ready_allocation(e) = f[Cardinality(DOMAIN allocations) + 1]
<1> DEFINE s0 == [allocations |-> allocations, used |-> used,
                  epoch |-> e, result |-> "continue"]
           F == CHOOSE f : f = [n \in Nat |-> Body(f, s0, n)]
<1>1. F = [n \in Nat |-> Body(F, s0, n)]
  <2> HIDE DEF s0
  <2> QED BY LoopExists
<1>2. release_ready_allocation(e) = F[Cardinality(DOMAIN allocations) + 1]
  BY DEF release_ready_allocation, Body
<1> HIDE DEF F
<1> QED BY <1>1, <1>2

--------------------------------------------------------------------------------
(* Sums of grants. *)

LEMMA GrantsEmpty == ASSUME NEW A PROVE Grants(A, {}) = Zero
BY SumEmpty DEF Grants, Zero

LEMMA GrantsAmount ==
    ASSUME NEW A, NEW S, IsFiniteSet(S), \A x \in S : A[x].grant \in Amount
    PROVE  Grants(A, S) \in Amount
<1> DEFINE c == [x \in S |-> A[x].grant.cu]
           m == [x \in S |-> A[x].grant.mb]
<1>1. \A x \in S : c[x] \in Nat /\ m[x] \in Nat
  BY DEF Amount
<1> HIDE DEF c, m
<1>2. SumFunctionOnSet(c, S) \in Nat /\ SumFunctionOnSet(m, S) \in Nat
  BY <1>1, SumNat
<1> QED BY <1>2 DEF Grants, Amount, c, m

LEMMA GrantsSame ==
    ASSUME NEW A, NEW B, NEW S, IsFiniteSet(S), \A x \in S : A[x].grant = B[x].grant
    PROVE  Grants(A, S) = Grants(B, S)
<1>1. [x \in S |-> A[x].grant.cu] = [x \in S |-> B[x].grant.cu]
  OBVIOUS
<1>2. [x \in S |-> A[x].grant.mb] = [x \in S |-> B[x].grant.mb]
  OBVIOUS
<1> QED BY <1>1, <1>2 DEF Grants

LEMMA GrantsRemove ==
    ASSUME NEW A, NEW S, IsFiniteSet(S), \A x \in S : A[x].grant \in Amount, NEW x \in S
    PROVE  Grants(A, S) = Plus(A[x].grant, Grants(A, S \ {x}))
<1> DEFINE c == [y \in S |-> A[y].grant.cu]
           m == [y \in S |-> A[y].grant.mb]
           T == S \ {x}
           d == [y \in T |-> A[y].grant.cu]
           n == [y \in T |-> A[y].grant.mb]
<1>1. \A y \in S : c[y] \in Int /\ m[y] \in Int
  BY DEF Amount
<1>2. c[x] = A[x].grant.cu /\ m[x] = A[x].grant.mb
  OBVIOUS
<1>3. IsFiniteSet(T) /\ \A y \in T : c[y] = d[y] /\ m[y] = n[y]
  BY FS_Subset
<1>4. Grants(A, S) = [cu |-> SumFunctionOnSet(c, S), mb |-> SumFunctionOnSet(m, S)]
  BY DEF Grants
<1>5. Grants(A, T) = [cu |-> SumFunctionOnSet(d, T), mb |-> SumFunctionOnSet(n, T)]
  BY DEF Grants
<1> HIDE DEF c, m, d, n
<1>6. SumFunctionOnSet(c, S) = c[x] + SumFunctionOnSet(c, T)
  BY <1>1, SumRemove
<1>7. SumFunctionOnSet(m, S) = m[x] + SumFunctionOnSet(m, T)
  BY <1>1, SumRemove
<1>8. SumFunctionOnSet(c, T) = SumFunctionOnSet(d, T) /\ SumFunctionOnSet(m, T) = SumFunctionOnSet(n, T)
  BY <1>3, SumSame
<1> HIDE DEF T
<1>9. Grants(A, S) = Plus(A[x].grant, Grants(A, T))
  BY <1>2, <1>4, <1>5, <1>6, <1>7, <1>8 DEF Plus
<1> QED BY <1>9 DEF T

--------------------------------------------------------------------------------
(* One turn of the loop. *)

\* The facts about allocations in order that the lemmas below use.
LEMMA SoundFacts ==
    ASSUME NEW A, NEW u, Sound(A, u), NEW p
    PROVE  /\ IsFiniteSet(Kids(A, p)) /\ Grants(A, Kids(A, p)) \in Amount
           /\ Cardinality(Kids(A, p)) \in Nat
           /\ \A x \in DOMAIN A : A[x] \in Allocation /\ A[x].grant \in Amount
<1>1. IsFiniteSet(Kids(A, p)) /\ Cardinality(Kids(A, p)) \in Nat
  <2>1. Kids(A, p) \subseteq DOMAIN A
    BY DEF Kids
  <2> QED BY <2>1, FS_Subset, FS_CardinalityType DEF Sound
<1>2. \A x \in DOMAIN A : A[x] \in Allocation /\ A[x].grant \in Amount
  BY DEF Sound, Allocation
<1>3. Grants(A, Kids(A, p)) \in Amount
  BY <1>1, <1>2, GrantsAmount DEF Kids
<1> QED BY <1>1, <1>2, <1>3

\* A ready allocation is nobody's parent.
LEMMA ReadyHasNoKids ==
    ASSUME NEW A, NEW u, Sound(A, u), NEW x \in DOMAIN A, Ready(A[x])
    PROVE  Kids(A, x) = {} /\ \A y \in DOMAIN A : A[y].parent # x
<1>1. IsFiniteSet(Kids(A, x)) /\ Cardinality(Kids(A, x)) = 0
  BY SoundFacts DEF Sound, Ready
<1>2. Kids(A, x) = {}
  BY <1>1, FS_EmptySet
<1> QED BY <1>2 DEF Kids

\* An allocation that is not ready is somebody's parent.
LEMMA NotReadyHasKids ==
    ASSUME NEW A, NEW u, Sound(A, u), NEW x \in DOMAIN A, ~Ready(A[x])
    PROVE  \E y \in DOMAIN A : A[y].parent = x
<1> SUFFICES ASSUME Kids(A, x) = {} PROVE FALSE
  BY DEF Kids
<1>1. A[x].child_count = 0
  BY FS_EmptySet, Zenon DEF Sound
<1>2. A[x].grant = Plus(A[x].remaining, Zero)
  BY GrantsEmpty DEF Sound
<1>3. A[x].remaining \in Amount /\ A[x].grant = A[x].remaining
  BY <1>2, SoundFacts DEF Allocation, Amount, Plus, Zero
<1> QED BY <1>1, <1>3 DEF Ready

\* A root lease is given back to the pool.
LEMMA ReleaseRoot ==
    ASSUME NEW A, NEW u, Sound(A, u), NEW x \in DOMAIN A, Ready(A[x]), A[x].parent = NoParent
    PROVE  /\ Fits(A[x].grant, u)
           /\ Sound(Restrict(A, DOMAIN A \ {x}), Minus(u, A[x].grant))
           /\ Minus(u, A[x].grant) \in Amount
<1> DEFINE B == Restrict(A, DOMAIN A \ {x})
           v == Minus(u, A[x].grant)
           R == Kids(A, NoParent)
<1>1. DOMAIN B = DOMAIN A \ {x} /\ \A y \in DOMAIN B : B[y] = A[y] /\ y \in DOMAIN A
  BY DEF Restrict
<1>2. x \in R /\ IsFiniteSet(R) /\ \A y \in R : A[y].grant \in Amount
  BY SoundFacts, Zenon DEF Kids
<1>3. u = Plus(A[x].grant, Grants(A, R \ {x}))
  BY <1>2, GrantsRemove DEF Sound
<1>4. IsFiniteSet(R \ {x}) /\ Grants(A, R \ {x}) \in Amount
  BY <1>2, GrantsAmount, FS_Subset
<1>5. Fits(A[x].grant, u) /\ v = Grants(A, R \ {x}) /\ v \in Amount
  BY <1>2, <1>3, <1>4 DEF Fits, Plus, Minus, Amount
<1> HIDE DEF B, v
<1>6. Kids(B, NoParent) = R \ {x}
  BY <1>1 DEF Kids
<1>7. \A p \in DOMAIN B : Kids(B, p) = Kids(A, p)
  BY <1>1 DEF Kids, Sound, NoParent
<1>8. v = Grants(B, Kids(B, NoParent))
  BY <1>1, <1>4, <1>5, <1>6, GrantsSame DEF Kids
<1>9. ASSUME NEW p \in DOMAIN B PROVE Grants(B, Kids(B, p)) = Grants(A, Kids(A, p))
  <2>1. \A y \in Kids(B, p) : B[y] = A[y]
    BY <1>1 DEF Kids
  <2> QED BY <2>1, <1>7, SoundFacts, GrantsSame
<1>10. IsFiniteSet(DOMAIN B) /\ DOMAIN B \subseteq Nat \ {0} /\ B \in [DOMAIN B -> Allocation]
  <2>1. B = [y \in DOMAIN B |-> A[y]]
    BY <1>1 DEF B, Restrict
  <2>2. \A y \in DOMAIN B : A[y] \in Allocation
    BY <1>1, SoundFacts
  <2> QED BY <1>1, <2>1, <2>2, FS_Subset DEF Sound
<1>11. \A y \in DOMAIN B : B[y].parent # NoParent => B[y].parent \in DOMAIN B /\ B[y].parent < y
  BY <1>1, ReadyHasNoKids DEF Sound
<1>12. \A p \in DOMAIN B :
          /\ B[p].grant = Plus(B[p].remaining, Grants(B, Kids(B, p)))
          /\ B[p].child_count = Cardinality(Kids(B, p))
  BY <1>1, <1>7, <1>9 DEF Sound
<1>13. Sound(B, v)
  BY <1>5, <1>8, <1>10, <1>11, <1>12 DEF Sound
<1> QED BY <1>5, <1>13 DEF B, v

\* What the release of a child makes of its parent.
Whole(A, x) ==
    LET parent == A[A[x].parent] IN
    [parent EXCEPT !.remaining = Plus(parent.remaining, A[x].grant), !.child_count = @ - 1]

\* A child lease is given back to its parent.
LEMMA ReleaseChild ==
    ASSUME NEW A, NEW u, Sound(A, u), NEW x \in DOMAIN A, Ready(A[x]), A[x].parent # NoParent
    PROVE  LET p == A[x].parent
               B == Insert(Restrict(A, DOMAIN A \ {x}), p, Whole(A, x))
           IN  /\ p \in DOMAIN A /\ p # x
               /\ A[p].child_count # 0
               /\ Fits(Plus(A[p].remaining, A[x].grant), A[p].grant)
               /\ DOMAIN B = DOMAIN A \ {x} /\ B[p] = Whole(A, x)
               /\ \A y \in DOMAIN B : y # p => B[y] = A[y]
               /\ Sound(B, u)
<1> DEFINE p == A[x].parent
           w == Whole(A, x)
           B == Insert(Restrict(A, DOMAIN A \ {x}), p, w)
           K == Kids(A, p)
<1>0. p \in Nat /\ x \in Nat /\ p \in DOMAIN A /\ p < x /\ p # x
  BY SoundFacts DEF Sound, Allocation
<1>1. /\ A[p] \in Allocation /\ A[p].remaining \in Amount /\ A[p].grant \in Amount
      /\ A[p].child_count \in Nat /\ A[x].grant \in Amount
  BY <1>0, SoundFacts DEF Allocation
<1>2. x \in K /\ IsFiniteSet(K) /\ \A y \in K : A[y].grant \in Amount
  BY SoundFacts, Zenon DEF Kids
<1>3. Grants(A, K) = Plus(A[x].grant, Grants(A, K \ {x}))
  BY <1>2, GrantsRemove
<1>4. IsFiniteSet(K \ {x}) /\ Grants(A, K \ {x}) \in Amount
  BY <1>2, GrantsAmount, FS_Subset
<1>5. Cardinality(K \ {x}) = Cardinality(K) - 1 /\ Cardinality(K \ {x}) \in Nat
  BY <1>2, <1>4, FS_RemoveElement, FS_CardinalityType
<1>6. A[p].child_count = Cardinality(K) /\ A[p].grant = Plus(A[p].remaining, Grants(A, K))
  BY <1>0 DEF Sound
<1>7. Cardinality(K) \in Nat /\ A[p].child_count # 0 /\ A[p].child_count - 1 = Cardinality(K \ {x})
  BY <1>1, <1>5, <1>6
<1>8. Plus(A[p].remaining, A[x].grant) \in Amount
  BY <1>1, SMTT(20) DEF Plus, Amount
<1>9. /\ Fits(Plus(A[p].remaining, A[x].grant), A[p].grant)
      /\ A[p].grant = Plus(Plus(A[p].remaining, A[x].grant), Grants(A, K \ {x}))
  <2>1. A[p].grant = Plus(A[p].remaining, Plus(A[x].grant, Grants(A, K \ {x})))
    BY <1>3, <1>6
  <2> DEFINE g == Grants(A, K \ {x})
  <2>2. g \in Amount
    BY <1>4
  <2> HIDE DEF g
  <2> QED BY <1>1, <2>1, <2>2 DEF Fits, Plus, Amount, g
<1>10. /\ w \in Allocation /\ w.grant = A[p].grant /\ w.parent = A[p].parent
       /\ w.remaining = Plus(A[p].remaining, A[x].grant) /\ w.child_count = Cardinality(K \ {x})
  <2>1. w = [A[p] EXCEPT !.remaining = Plus(A[p].remaining, A[x].grant),
                         !.child_count = Cardinality(K \ {x})]
    BY <1>7, Zenon DEF Whole
  <2> HIDE DEF w
  <2> QED BY <1>1, <1>5, <1>8, <2>1, Zenon DEF Allocation
<1>11. /\ DOMAIN B = DOMAIN A \ {x} /\ B[p] = w
       /\ \A y \in DOMAIN B : y # p => B[y] = A[y]
       /\ B = [y \in DOMAIN A \ {x} |-> IF y = p THEN w ELSE A[y]]
  <2> HIDE DEF w
  <2>1. DOMAIN Restrict(A, DOMAIN A \ {x}) = DOMAIN A \ {x}
    BY DEF Restrict
  <2>2. \A y \in DOMAIN A \ {x} : Restrict(A, DOMAIN A \ {x})[y] = A[y]
    BY DEF Restrict
  <2>3. (DOMAIN A \ {x}) \cup {p} = DOMAIN A \ {x}
    BY <1>0
  <2> QED BY <2>1, <2>2, <2>3, <1>0 DEF Insert
<1> HIDE DEF B, w
<1>12. \A y \in DOMAIN B : y \in DOMAIN A /\ B[y].grant = A[y].grant /\ B[y].parent = A[y].parent
  BY <1>10, <1>11
<1>13. Kids(B, p) = K \ {x} /\ \A q : q # p => Kids(B, q) = Kids(A, q)
  BY <1>11, <1>12 DEF Kids
<1>14. ASSUME NEW q PROVE Grants(B, Kids(B, q)) = Grants(A, Kids(B, q))
  <2>1. Kids(B, q) \subseteq DOMAIN B /\ Kids(B, q) \subseteq Kids(A, q)
    BY <1>12, <1>11 DEF Kids
  <2>2. IsFiniteSet(Kids(B, q))
    BY <2>1, SoundFacts, FS_Subset
  <2> QED BY <2>1, <2>2, <1>12, GrantsSame
<1>15. u \in Amount /\ u = Grants(B, Kids(B, NoParent))
  BY <1>13, <1>14 DEF Sound
<1>16. IsFiniteSet(DOMAIN B) /\ DOMAIN B \subseteq Nat \ {0} /\ B \in [DOMAIN B -> Allocation]
  <2>1. \A y \in DOMAIN A : A[y] \in Allocation
    BY SoundFacts
  <2> QED BY <1>10, <1>11, <2>1, FS_Subset DEF Sound
<1>17. \A y \in DOMAIN B : B[y].parent # NoParent => B[y].parent \in DOMAIN B /\ B[y].parent < y
  BY <1>11, <1>12, ReadyHasNoKids DEF Sound
<1>18. ASSUME NEW q \in DOMAIN B
       PROVE  /\ B[q].grant = Plus(B[q].remaining, Grants(B, Kids(B, q)))
              /\ B[q].child_count = Cardinality(Kids(B, q))
  <2>1. CASE q = p
    BY <2>1, <1>9, <1>10, <1>11, <1>13, <1>14
  <2>2. CASE q # p
    BY <2>2, <1>11, <1>13, <1>14, Zenon DEF Sound
  <2> QED BY <2>1, <2>2
<1>19. Sound(B, u)
  BY <1>15, <1>16, <1>17, <1>18 DEF Sound
<1> QED BY <1>0, <1>7, <1>9, <1>11, <1>19 DEF B, w

\* One turn of the loop: it never fails, and goes on only at a tombstone that has just
\* lost its last child.
LEMMA LoopStep ==
    ASSUME NEW s, NEW e, NEW n \in Nat, LoopInv(s, e, n), s.result = "continue"
    PROVE  LoopInv(ReleaseStep(s), e, n + 1)
<1> DEFINE A == s.allocations
           u == s.used
           x == s.epoch
           p == A[x].parent
           t == ReleaseStep(s)
           gone == Restrict(A, DOMAIN A \ {x})
<1>1. /\ Sound(A, u) /\ x \in DOMAIN A /\ Ready(A[x]) /\ (x = e \/ A[x].release_pending)
      /\ Cardinality(DOMAIN A) + n = Cardinality(DOMAIN allocations)
      /\ s = [allocations |-> A, used |-> u, epoch |-> x, result |-> s.result]
      /\ Fits(u, Capacity) /\ DOMAIN A \subseteq DOMAIN allocations
      /\ \A y \in DOMAIN A : A[y].release_pending = allocations[y].release_pending
      /\ \A y \in DOMAIN allocations \ DOMAIN A : y = e \/ allocations[y].release_pending
      /\ \A y \in DOMAIN A : A[y].release_pending => ~Ready(A[y]) \/ y = x
      /\ IF n = 0 THEN x = e ELSE e \notin DOMAIN A
  BY SMTT(20) DEF LoopInv
<1>2. u \in Amount /\ A[x].grant \in Amount /\ IsFiniteSet(DOMAIN A)
  BY <1>1, SoundFacts DEF Sound
<1>3. Cardinality(DOMAIN A \ {x}) + (n + 1) = Cardinality(DOMAIN allocations)
  <2>1. /\ Cardinality(DOMAIN A \ {x}) = Cardinality(DOMAIN A) - 1
        /\ Cardinality(DOMAIN A) \in Nat
    BY <1>1, <1>2, FS_RemoveElement, FS_CardinalityType
  <2> QED BY <1>1, <2>1
<1>4. e \notin DOMAIN A \ {x}
  BY <1>1, SMTT(20)
<1>5. CASE p = NoParent
  <2>1. /\ Fits(A[x].grant, u) /\ Sound(gone, Minus(u, A[x].grant))
        /\ Minus(u, A[x].grant) \in Amount
    BY <1>1, <1>5, ReleaseRoot
  <2>2. t = [s EXCEPT !.result = "ok", !.allocations = gone, !.used = Minus(u, A[x].grant)]
    BY <1>1, <1>5, <2>1 DEF ReleaseStep
  <2>3. t = [allocations |-> gone, used |-> Minus(u, A[x].grant), epoch |-> x, result |-> "ok"]
    BY <1>1, <2>2, Zenon
  <2>4. Fits(Minus(u, A[x].grant), Capacity)
    BY <1>1, <1>2, CapacityAssumption DEF Fits, Minus, Amount
  <2>5. DOMAIN gone = DOMAIN A \ {x} /\ \A y \in DOMAIN gone : gone[y] = A[y]
    BY SMTT(20) DEF Restrict
  <2> HIDE DEF t, gone, A, u, x
  <2> QED BY <1>1, <1>4, <2>1, <2>3, <2>4, <2>5 DEF LoopInv, t
<1>6. CASE p # NoParent
  <2> DEFINE w == Whole(A, x)
             B == Insert(gone, p, w)
             r == IF Cascades(w) THEN "continue" ELSE "ok"
  <2>1. /\ p \in DOMAIN A /\ p # x /\ A[p].child_count # 0
        /\ Fits(Plus(A[p].remaining, A[x].grant), A[p].grant)
        /\ DOMAIN B = DOMAIN A \ {x} /\ B[p] = w
        /\ \A y \in DOMAIN B : y # p => B[y] = A[y]
        /\ Sound(B, u)
    <3>1. Sound(A, u) /\ x \in DOMAIN A /\ Ready(A[x]) /\ A[x].parent # NoParent
      BY <1>1, <1>6
    <3>2. p = A[x].parent /\ w = Whole(A, x) /\ B = Insert(Restrict(A, DOMAIN A \ {x}), p, w)
      BY Zenon
    <3> HIDE DEF A, u, x, p, w, B
    <3> QED BY <3>1, <3>2, ReleaseChild, SMTT(30)
  <2>2. t = [s EXCEPT !.allocations = B, !.epoch = p, !.result = r]
    BY <1>1, <1>6, <2>1, Zenon DEF ReleaseStep, Whole
  <2>3. t = [allocations |-> B, used |-> u, epoch |-> p, result |-> r]
    BY <1>1, <2>2, Zenon
  <2>4. w.release_pending = A[p].release_pending
    <3>1. A[p] \in Allocation
      BY <1>1, <2>1, SoundFacts, Zenon
    <3> QED BY <3>1 DEF Whole, Allocation
  <2>5. \A y \in DOMAIN B : y \in DOMAIN A /\ B[y].release_pending = A[y].release_pending
    BY <2>1, <2>4, Zenon
  <2>6. r = "continue" <=> (w.release_pending /\ Ready(w))
    BY DEF Cascades
  <2>7. r = "continue" \/ r = "ok"
    OBVIOUS
  <2>8. \A y \in DOMAIN B : B[y].release_pending => ~Ready(B[y]) \/ (r = "continue" /\ y = p)
    BY <1>1, <2>1, <2>5, <2>6, ZenonT(40)
  <2>9. \A y \in DOMAIN allocations \ DOMAIN B : y = e \/ allocations[y].release_pending
    BY <1>1, <2>1, Zenon
  <2>10. p \in DOMAIN B /\ e \notin DOMAIN B
    BY <1>4, <2>1, Zenon
  <2> HIDE DEF t, gone, A, u, x, p, w, B, r
  <2> QED BY <1>1, <1>3, <2>1, <2>3, <2>5, <2>6, <2>7, <2>8, <2>9, <2>10 DEF LoopInv, t
<1> QED BY <1>5, <1>6

\* The release of a ready allocation succeeds.
LEMMA ReleaseSucceeds ==
    ASSUME IInv, NEW e \in DOMAIN allocations, Ready(allocations[e])
    PROVE  LET done == release_ready_allocation(e) IN
           done.result = "ok" /\ \E n \in Nat \ {0} : LoopInv(done, e, n)
<1> DEFINE C == Cardinality(DOMAIN allocations)
           s0 == [allocations |-> allocations, used |-> used, epoch |-> e, result |-> "continue"]
<1>1. PICK f : f = [n \in Nat |-> Body(f, s0, n)] /\ release_ready_allocation(e) = f[C + 1]
  BY LoopUnfold, SMTT(20)
<1>2. LoopInv(s0, e, 0)
  <2>1. C \in Nat
    BY FS_CardinalityType DEF IInv, Sound
  <2>2. \A x \in DOMAIN allocations : allocations[x].release_pending => ~Ready(allocations[x])
    BY DEF IInv, Tombstone
  <2> QED BY <2>1, <2>2 DEF IInv, LoopInv
<1> HIDE DEF s0
<1> DEFINE D == {n \in Nat : LoopInv(f[n], e, n)}
<1>3. 0 \in D
  BY <1>1, <1>2 DEF Body
<1>4. ASSUME NEW n \in Nat, n \in D PROVE n + 1 \in D
  <2>1. f[n + 1] = IF f[n].result = "continue" THEN ReleaseStep(f[n]) ELSE f[n]
    <3>1. n + 1 \in Nat /\ n + 1 # 0 /\ (n + 1) - 1 = n
      OBVIOUS
    <3>2. f[n + 1] = Body(f, s0, n + 1)
      BY <1>1, <3>1
    <3> QED BY <3>1, <3>2 DEF Body
  <2>2. LoopInv(f[n], e, n)
    BY <1>4
  <2>3. CASE f[n].result = "continue"
    BY <2>1, <2>2, <2>3, LoopStep
  <2>4. CASE f[n].result # "continue"
    <3>1. f[n].result = "ok" /\ LoopInv(f[n], e, n + 1)
      <4>1. n > 0
        <5>1. f[0] = s0
          BY <1>1, SMTT(20) DEF Body
        <5>2. f[0].result = "continue"
          BY <5>1 DEF s0
        <5> QED BY <2>4, <5>2
      <4> QED BY <2>2, <2>4, <4>1 DEF LoopInv
    <3> QED BY <2>1, <2>4, <3>1
  <2> QED BY <2>3, <2>4
<1>5. Nat \subseteq D
  <2> HIDE DEF D
  <2> QED BY <1>3, <1>4, NaturalInduction
<1>6. C \in Nat /\ C + 1 \in Nat \ {0}
  BY FS_CardinalityType DEF IInv, Sound
<1>7. LoopInv(f[C + 1], e, C + 1)
  BY <1>5, <1>6
<1>8. f[C + 1].result = "ok"
  <2> DEFINE s == f[C + 1]
  <2>1. Cardinality(DOMAIN s.allocations) \in Nat
    BY <1>7, FS_CardinalityType, Zenon DEF LoopInv, Sound
  <2>2. Cardinality(DOMAIN s.allocations) + (C + 1) # C
    BY <1>6, <2>1
  <2> HIDE DEF s
  <2> QED BY <1>7, <2>2, Zenon DEF LoopInv, s
<1> QED BY <1>1, <1>6, <1>7, <1>8

--------------------------------------------------------------------------------
(* Acquiring, and abandoning a lease that has children. *)

\* A new allocation has no children, and what it is granted is taken from the pool.
LEMMA AcquireRoot ==
    ASSUME NEW A, NEW u, Sound(A, u), NEW x \in Nat \ {0}, x \notin DOMAIN A,
           NEW o \in Owners, NEW r \in Amount
    PROVE  Sound(Insert(A, x, NewAllocation(o, NoParent, r)), Plus(u, r)) /\ Plus(u, r) \in Amount
<1> DEFINE a == NewAllocation(o, NoParent, r)
           B == Insert(A, x, a)
           R == Kids(A, NoParent)
           v == Plus(u, r)
<1>1. a \in Allocation /\ a.parent = NoParent /\ a.grant = r /\ a.remaining = r /\ a.child_count = 0
  BY DEF NewAllocation, Allocation, NoParent
<1> HIDE DEF a
<1>2. DOMAIN B = DOMAIN A \cup {x} /\ B[x] = a /\ (\A y \in DOMAIN A : B[y] = A[y])
      /\ B = [y \in DOMAIN A \cup {x} |-> IF y = x THEN a ELSE A[y]]
  BY SMTT(20) DEF Insert
<1> HIDE DEF B
<1>3. u \in Amount /\ u = Grants(A, R) /\ IsFiniteSet(R) /\ R \subseteq DOMAIN A
  BY SoundFacts, Zenon DEF Sound, Kids
<1>4. v \in Amount /\ Plus(r, u) = v
  BY <1>3, SMTT(20) DEF Amount, Plus
<1> HIDE DEF v
<1>5. Kids(B, NoParent) = R \cup {x} /\ x \notin R
  BY <1>1, <1>2 DEF Kids
<1>6. \A y \in DOMAIN A : A[y].parent # x
  BY DEF Sound, NoParent
<1>7. Kids(B, x) = {} /\ \A p \in DOMAIN A : Kids(B, p) = Kids(A, p)
  BY <1>1, <1>2, <1>6 DEF Kids, Sound, NoParent
<1>8. v = Grants(B, Kids(B, NoParent))
  <2>1. IsFiniteSet(R \cup {x}) /\ (R \cup {x}) \ {x} = R
    BY <1>3, <1>5, FS_AddElement, SMTT(20)
  <2>2. \A y \in R \cup {x} : B[y].grant \in Amount
    BY <1>1, <1>2, <1>3, SoundFacts, SMTT(20)
  <2>3. Grants(B, R \cup {x}) = Plus(r, Grants(B, R))
    BY <2>1, <2>2, <1>1, <1>2, GrantsRemove
  <2>4. Grants(B, R) = u
    BY <1>2, <1>3, GrantsSame
  <2> QED BY <1>4, <1>5, <2>3, <2>4, SMTT(20)
<1>9. IsFiniteSet(DOMAIN B) /\ DOMAIN B \subseteq Nat \ {0} /\ B \in [DOMAIN B -> Allocation]
  <2>1. \A y \in DOMAIN A : A[y] \in Allocation
    BY SoundFacts, SMTT(20)
  <2> QED BY <1>1, <1>2, <2>1, FS_AddElement DEF Sound
<1>10. \A y \in DOMAIN B : B[y].parent # NoParent => B[y].parent \in DOMAIN B /\ B[y].parent < y
  BY <1>1, <1>2, SMTT(20) DEF Sound
<1>11. ASSUME NEW p \in DOMAIN B
       PROVE  /\ B[p].grant = Plus(B[p].remaining, Grants(B, Kids(B, p)))
              /\ B[p].child_count = Cardinality(Kids(B, p))
  <2>1. CASE p = x
    <3>1. r = Plus(r, Zero)
      BY SMTT(20) DEF Plus, Zero, Amount
    <3> QED BY <2>1, <3>1, <1>1, <1>2, <1>7, GrantsEmpty, FS_EmptySet
  <2>2. CASE p \in DOMAIN A
    <3>1. \A y \in Kids(A, p) : B[y].grant = A[y].grant
      BY <1>2 DEF Kids
    <3>2. Grants(B, Kids(A, p)) = Grants(A, Kids(A, p))
      BY <3>1, SoundFacts, GrantsSame
    <3> QED BY <2>2, <3>2, <1>2, <1>7, Zenon DEF Sound
  <2> QED BY <2>1, <2>2, <1>2
<1>12. Sound(B, v)
  BY <1>4, <1>8, <1>9, <1>10, <1>11 DEF Sound
<1> QED BY <1>4, <1>12 DEF B, a, v

\* What a new child makes of its parent p.
Parted(A, p, r) == [A[p] EXCEPT !.remaining = Minus(@, r), !.child_count = @ + 1]

\* What a child is granted is taken from what its parent has left.
LEMMA AcquireChild ==
    ASSUME NEW A, NEW u, Sound(A, u), NEW x \in Nat \ {0}, x \notin DOMAIN A,
           NEW o \in Owners, NEW r \in Amount, NEW p \in DOMAIN A, p < x,
           Fits(r, A[p].remaining)
    PROVE  Sound(Insert([A EXCEPT ![p] = Parted(A, p, r)], x, NewAllocation(o, p, r)), u)
<1> DEFINE a == NewAllocation(o, p, r)
           w == Parted(A, p, r)
           B == Insert([A EXCEPT ![p] = w], x, a)
           K == Kids(A, p)
<1>0. p \in Nat \ {0} /\ p # x
  BY DEF Sound
<1>1. a \in Allocation /\ a.parent = p /\ a.grant = r /\ a.remaining = r /\ a.child_count = 0
  BY <1>0, Zenon DEF NewAllocation, Allocation
<1> HIDE DEF a
<1>2. /\ A[p] \in Allocation /\ A[p].remaining \in Amount /\ A[p].grant \in Amount
      /\ A[p].child_count \in Nat
  BY SoundFacts, SMTT(20) DEF Allocation
<1>3. Minus(A[p].remaining, r) \in Amount /\ Plus(Minus(A[p].remaining, r), r) = A[p].remaining
  BY <1>2, SMTT(20) DEF Minus, Plus, Amount, Fits
<1>4. /\ w \in Allocation /\ w.grant = A[p].grant /\ w.parent = A[p].parent
      /\ w.remaining = Minus(A[p].remaining, r) /\ w.child_count = A[p].child_count + 1
  <2> DEFINE m == Minus(A[p].remaining, r)
             k == A[p].child_count + 1
  <2>1. m \in Amount /\ k \in Nat /\ w = [A[p] EXCEPT !.remaining = m, !.child_count = k]
    BY <1>2, <1>3 DEF Parted
  <2> HIDE DEF m, k, w
  <2>2. w \in Allocation /\ w.grant = A[p].grant /\ w.parent = A[p].parent
        /\ w.remaining = m /\ w.child_count = k
    BY <1>2, <2>1, Zenon DEF Allocation
  <2> QED BY <2>2 DEF m, k
<1> HIDE DEF w
<1>5. /\ DOMAIN B = DOMAIN A \cup {x} /\ B[x] = a /\ B[p] = w
      /\ \A y \in DOMAIN A : y # p => B[y] = A[y]
      /\ B = [y \in DOMAIN A \cup {x} |-> IF y = x THEN a ELSE IF y = p THEN w ELSE A[y]]
  BY <1>0 DEF Insert
<1> HIDE DEF B
<1>6. \A y \in DOMAIN A : B[y].grant = A[y].grant /\ B[y].parent = A[y].parent
  BY <1>4, <1>5
<1>7. \A y \in DOMAIN A : A[y].parent # x
  BY SMTT(20) DEF Sound, NoParent
<1>8. /\ Kids(B, x) = {} /\ Kids(B, p) = K \cup {x} /\ x \notin K
      /\ \A q : q # p /\ q # x => Kids(B, q) = Kids(A, q)
  BY <1>0, <1>1, <1>5, <1>6, <1>7 DEF Kids
<1>9. ASSUME NEW q PROVE Grants(B, Kids(A, q)) = Grants(A, Kids(A, q))
  <2>1. \A y \in Kids(A, q) : B[y].grant = A[y].grant
    BY <1>6, SMTT(20) DEF Kids
  <2> QED BY <2>1, SoundFacts, GrantsSame, SMTT(20)
<1>10. Grants(B, Kids(B, p)) = Plus(r, Grants(A, K)) /\ Cardinality(Kids(B, p)) = Cardinality(K) + 1
  <2>1. IsFiniteSet(K) /\ IsFiniteSet(K \cup {x}) /\ (K \cup {x}) \ {x} = K
    BY <1>8, SoundFacts, FS_AddElement, SMTT(20)
  <2>2. \A y \in K \cup {x} : B[y].grant \in Amount
    BY <1>1, <1>5, <1>6, SoundFacts, Zenon DEF Kids
  <2>3. Grants(B, K \cup {x}) = Plus(r, Grants(B, K))
    BY <2>1, <2>2, <1>1, <1>5, GrantsRemove
  <2>4. Cardinality(K \cup {x}) = Cardinality(K) + 1
    BY <2>1, <1>8, FS_AddElement, SMTT(20)
  <2> QED BY <2>3, <2>4, <1>8, <1>9, SMTT(20)
<1>11. u \in Amount /\ u = Grants(B, Kids(B, NoParent))
  <2>1. Kids(B, NoParent) = Kids(A, NoParent)
    BY <1>0, <1>8, SMTT(20) DEF NoParent
  <2> QED BY <1>9, <2>1 DEF Sound
<1>12. IsFiniteSet(DOMAIN B) /\ DOMAIN B \subseteq Nat \ {0} /\ B \in [DOMAIN B -> Allocation]
  <2>1. \A y \in DOMAIN A : A[y] \in Allocation
    BY SoundFacts, SMTT(20)
  <2> QED BY <1>1, <1>4, <1>5, <2>1, FS_AddElement DEF Sound
<1>13. \A y \in DOMAIN B : B[y].parent # NoParent => B[y].parent \in DOMAIN B /\ B[y].parent < y
  BY <1>1, <1>5, <1>6, SMTT(20) DEF Sound
<1>14. ASSUME NEW q \in DOMAIN B
       PROVE  /\ B[q].grant = Plus(B[q].remaining, Grants(B, Kids(B, q)))
              /\ B[q].child_count = Cardinality(Kids(B, q))
  <2>1. CASE q = x
    <3>1. r = Plus(r, Zero)
      BY DEF Plus, Zero, Amount
    <3> QED BY <2>1, <3>1, <1>1, <1>5, <1>8, GrantsEmpty, FS_EmptySet, SMTT(20)
  <2>2. CASE q = p
    <3> DEFINE g == Grants(A, K)
    <3>1. A[p].grant = Plus(A[p].remaining, g) /\ A[p].child_count = Cardinality(K) /\ g \in Amount
      BY SoundFacts DEF Sound
    <3> HIDE DEF g
    <3>2. A[p].grant = Plus(Minus(A[p].remaining, r), Plus(r, g))
      BY <1>2, <3>1 DEF Plus, Minus, Amount
    <3> QED BY <2>2, <1>4, <1>5, <1>10, <3>1, <3>2 DEF g
  <2>3. CASE q \in DOMAIN A /\ q # p
    <3>1. q # x /\ Kids(B, q) = Kids(A, q) /\ B[q] = A[q]
      BY <2>3, <1>5, <1>8
    <3> QED BY <2>3, <3>1, <1>9 DEF Sound
  <2> QED BY <2>1, <2>2, <2>3, <1>5
<1>15. Sound(B, u)
  BY <1>11, <1>12, <1>13, <1>14 DEF Sound
<1> QED BY <1>15 DEF B, a, w

\* A mark changes nothing of the accounting.
LEMMA Mark ==
    ASSUME NEW A, NEW u, Sound(A, u), NEW x \in DOMAIN A
    PROVE  LET B == [A EXCEPT ![x].release_pending = TRUE] IN
           /\ Sound(B, u) /\ DOMAIN B = DOMAIN A /\ B[x].release_pending
           /\ \A y \in DOMAIN A : y # x => B[y] = A[y]
           /\ \A y \in DOMAIN A : Ready(B[y]) <=> Ready(A[y])
<1> DEFINE B == [A EXCEPT ![x].release_pending = TRUE]
           w == [A[x] EXCEPT !.release_pending = TRUE]
<1>1. /\ w \in Allocation /\ w.parent = A[x].parent /\ w.grant = A[x].grant
      /\ w.remaining = A[x].remaining /\ w.child_count = A[x].child_count /\ w.release_pending
  BY SoundFacts, Zenon DEF Allocation
<1> HIDE DEF w
<1>2. /\ DOMAIN B = DOMAIN A /\ B[x] = w /\ B \in [DOMAIN B -> Allocation]
      /\ \A y \in DOMAIN A : y # x => B[y] = A[y]
  <2>1. \A y \in DOMAIN A : A[y] \in Allocation
    BY SoundFacts
  <2>2. A = [y \in DOMAIN A |-> A[y]]
    BY DEF Sound
  <2>3. B = [A EXCEPT ![x] = w]
    BY <2>2 DEF w
  <2> HIDE DEF B
  <2> QED BY <1>1, <2>1, <2>2, <2>3
<1> HIDE DEF B
<1>3. \A y \in DOMAIN A : /\ B[y].parent = A[y].parent /\ B[y].grant = A[y].grant
                          /\ B[y].remaining = A[y].remaining /\ B[y].child_count = A[y].child_count
  BY <1>1, <1>2
<1>4. \A q : Kids(B, q) = Kids(A, q)
  BY <1>2, <1>3 DEF Kids
<1>5. ASSUME NEW q PROVE Grants(B, Kids(B, q)) = Grants(A, Kids(A, q))
  <2>1. \A y \in Kids(A, q) : B[y].grant = A[y].grant
    BY <1>3 DEF Kids
  <2> QED BY <2>1, <1>4, SoundFacts, GrantsSame
<1>6. Sound(B, u)
  BY <1>2, <1>3, <1>4, <1>5 DEF Sound
<1> QED BY <1>1, <1>2, <1>3, <1>6 DEF B, Ready

--------------------------------------------------------------------------------
(* The steps. *)

LEMMA InitIInv == Init => IInv
<1> SUFFICES ASSUME Init PROVE IInv
  OBVIOUS
<1>1. DOMAIN allocations = {} /\ used = Zero /\ next_epoch = 0 /\ leases = {}
  BY DEF Init
<1>2. IsFiniteSet(DOMAIN allocations) /\ \A p : Kids(allocations, p) = {}
  BY <1>1, FS_EmptySet DEF Kids
<1>3. allocations \in [DOMAIN allocations -> Allocation]
  BY DEF Init
<1>4. used \in Amount /\ Fits(used, Capacity)
  BY <1>1, CapacityAssumption DEF Zero, Amount, Fits
<1>5. Sound(allocations, used)
  BY <1>1, <1>2, <1>3, <1>4, GrantsEmpty, Zenon DEF Sound
<1> QED BY <1>1, <1>4, <1>5 DEF IInv

\* A release of the handle e, by its owner or by its drop.
LEMMA ReleaseKeeps ==
    ASSUME IInv, NEW e \in leases, Ready(allocations[e]),
           allocations' = release_ready_allocation(e).allocations,
           used' = release_ready_allocation(e).used,
           leases' = leases \ {e}, next_epoch' = next_epoch
    PROVE  IInv'
<1> DEFINE done == release_ready_allocation(e)
<1>0. e \in DOMAIN allocations
  BY DEF IInv
<1>1. PICK n \in Nat \ {0} : LoopInv(done, e, n)
  BY <1>0, ReleaseSucceeds
<1>2. done.result = "ok"
  BY <1>0, ReleaseSucceeds
<1> HIDE DEF done
<1>3. allocations' = done.allocations /\ used' = done.used
  BY DEF done
<1>4. /\ Sound(allocations', used') /\ Fits(used', Capacity)
      /\ DOMAIN allocations' \subseteq DOMAIN allocations /\ e \notin DOMAIN allocations'
      /\ \A x \in DOMAIN allocations' : allocations'[x].release_pending = allocations[x].release_pending
      /\ \A x \in DOMAIN allocations \ DOMAIN allocations' : x = e \/ allocations[x].release_pending
      /\ \A x \in DOMAIN allocations' : allocations'[x].release_pending => ~Ready(allocations'[x])
  BY <1>1, <1>2, <1>3 DEF LoopInv
<1>5. leases' \subseteq DOMAIN allocations'
  BY <1>4 DEF IInv
<1>6. \A x \in DOMAIN allocations' :
          IF x \in leases' THEN ~allocations'[x].release_pending ELSE Tombstone(allocations'[x])
  BY <1>4 DEF IInv, Tombstone
<1>7. next_epoch' \in Nat /\ \A x \in DOMAIN allocations' : x <= next_epoch'
  BY <1>4 DEF IInv
<1> QED BY <1>4, <1>5, <1>6, <1>7 DEF IInv

\* Every step keeps the invariant.
LEMMA NextIInv == IInv /\ [Next]_vars => IInv'
<1> SUFFICES ASSUME IInv, [Next]_vars PROVE IInv'
  OBVIOUS
<1> DEFINE n == next_epoch + 1
<1>0. /\ n \in Nat \ {0} /\ n \notin DOMAIN allocations /\ \A x \in DOMAIN allocations : x < n
      /\ Sound(allocations, used) /\ used \in Amount /\ Fits(used, Capacity)
      /\ DOMAIN allocations \subseteq Nat
  BY DEF IInv, Sound
<1>1. ASSUME NEW o \in Owners, NEW r \in Requests, try_acquire(o, r) PROVE IInv'
  <2> DEFINE a == NewAllocation(o, NoParent, r)
  <2>1. r \in Amount /\ r.cu > 0
    BY RequestsAssumption
  <2>2. Sound(allocations', used')
    BY <1>0, <1>1, <2>1, AcquireRoot DEF try_acquire
  <2>3. Fits(used', Capacity)
    BY <1>0, <1>1, <2>1, CapacityAssumption DEF try_acquire, Fits, Plus, Minus, Amount
  <2>4. /\ DOMAIN allocations' = DOMAIN allocations \cup {n} /\ allocations'[n] = a
        /\ \A x \in DOMAIN allocations : allocations'[x] = allocations[x]
    BY <1>0, <1>1 DEF try_acquire, Insert
  <2>5. ~a.release_pending
    BY DEF NewAllocation
  <2>6. next_epoch' = n /\ leases' = leases \cup {n}
    BY <1>1 DEF try_acquire
  <2> HIDE DEF a, n
  <2>7. \A x \in DOMAIN allocations' : x <= next_epoch'
    BY <1>0, <2>4, <2>6
  <2> QED BY <1>0, <2>2, <2>3, <2>4, <2>5, <2>6, <2>7 DEF IInv
<1>2. ASSUME NEW p \in leases, NEW o \in Owners, NEW r \in Requests, try_child(p, o, r)
      PROVE  IInv'
  <2> DEFINE a == NewAllocation(o, p, r)
             w == Parted(allocations, p, r)
  <2>1. r \in Amount /\ p \in DOMAIN allocations /\ Fits(r, allocations[p].remaining)
    BY <1>2, RequestsAssumption DEF try_child
  <2>2. allocations' = Insert([allocations EXCEPT ![p] = w], n, a)
    <3>1. allocations = [x \in DOMAIN allocations |-> allocations[x]]
      BY <1>0 DEF Sound
    <3> QED BY <1>2, <2>1, <3>1, Zenon DEF try_child, Parted
  <2>3. Sound(allocations', used')
    BY <1>0, <1>2, <2>1, <2>2, AcquireChild DEF try_child
  <2>4. w.release_pending = allocations[p].release_pending
    <3>1. allocations[p] \in Allocation
      BY <1>0, <2>1, SoundFacts
    <3> QED BY <3>1 DEF Parted, Allocation
  <2>5. ~a.release_pending
    BY DEF NewAllocation
  <2> HIDE DEF a, w
  <2>6. /\ DOMAIN allocations' = DOMAIN allocations \cup {n} /\ allocations'[n] = a
        /\ \A x \in DOMAIN allocations : allocations'[x] = IF x = p THEN w ELSE allocations[x]
    BY <1>0, <2>1, <2>2 DEF Insert
  <2>7. next_epoch' = n /\ leases' = leases \cup {n} /\ used' = used
    BY <1>2 DEF try_child
  <2> HIDE DEF n
  <2>8. \A x \in DOMAIN allocations' : x <= next_epoch'
    BY <1>0, <2>6, <2>7
  <2>9. ASSUME NEW x \in DOMAIN allocations'
        PROVE  IF x \in leases' THEN ~allocations'[x].release_pending ELSE Tombstone(allocations'[x])
    BY <1>0, <2>1, <2>4, <2>5, <2>6, <2>7 DEF IInv
  <2> QED BY <1>0, <2>3, <2>6, <2>7, <2>8, <2>9 DEF IInv
<1>3. ASSUME NEW e \in leases, NEW o \in Owners, release_as(e, o) PROVE IInv'
  <2>1. e \in DOMAIN allocations /\ Ready(allocations[e])
    BY <1>3 DEF release_as, validate_release
  <2>2. release_ready_allocation(e).result = "ok"
    BY <2>1, ReleaseSucceeds
  <2> QED BY <1>3, <2>1, <2>2, ReleaseKeeps DEF release_as
<1>4. ASSUME NEW e \in leases, drop(e) PROVE IInv'
  <2>0. e \in DOMAIN allocations
    BY DEF IInv
  <2>1. CASE Ready(allocations[e])
    BY <1>4, <2>0, <2>1, ReleaseKeeps DEF drop
  <2>2. CASE ~Ready(allocations[e])
    <3>1. /\ allocations' = [allocations EXCEPT ![e].release_pending = TRUE]
          /\ used' = used /\ leases' = leases \ {e} /\ next_epoch' = next_epoch
      BY <1>4, <2>0, <2>2 DEF drop
    <3>2. /\ Sound(allocations', used) /\ DOMAIN allocations' = DOMAIN allocations
          /\ allocations'[e].release_pending
          /\ \A y \in DOMAIN allocations : y # e => allocations'[y] = allocations[y]
          /\ \A y \in DOMAIN allocations : Ready(allocations'[y]) <=> Ready(allocations[y])
      BY <1>0, <2>0, <3>1, Mark, Zenon
    <3> QED BY <2>2, <3>1, <3>2, Zenon DEF IInv, Tombstone
  <2> QED BY <2>1, <2>2
<1>5. CASE UNCHANGED vars
  BY <1>5 DEF IInv, vars
<1> QED BY <1>1, <1>2, <1>3, <1>4, <1>5 DEF Next

LEMMA Inductive == Spec => []IInv
BY InitIInv, NextIInv, PTL DEF Spec

\* No compute unit or byte is created or lost by acquiring, delegating, releasing or
\* abandoning leases, to any depth of delegation.
THEOREM Conserves == Spec => []Conservation
<1>1. IInv => Conservation
  <2> SUFFICES ASSUME IInv PROVE Conservation
    OBVIOUS
  <2>1. \A p : Kids(allocations, p) = Children(p)
    BY DEF Kids, Children
  <2>2. \A S : Grants(allocations, S) = TotalGrant(S)
    BY DEF Grants, TotalGrant
  <2> QED BY <2>1, <2>2 DEF IInv, Sound, Conservation
<1> QED BY <1>1, Inductive, PTL

\* The loop of release_ready_allocation always ends with success: none of the errors its
\* checks report can occur, however long the chain of abandoned parents.
THEOREM NeverFaults == Spec => []ReleaseNeverFaults
<1>1. IInv => ReleaseNeverFaults
  BY ReleaseSucceeds DEF ReleaseNeverFaults
<1> QED BY <1>1, Inductive, PTL

\* A handle that is held has its allocation, not marked for release: the cascade of
\* another release stops at it.
THEOREM HeldIsBacked == Spec => []HeldLeaseIsBacked
<1>1. IInv => HeldLeaseIsBacked
  BY DEF IInv, HeldLeaseIsBacked
<1> QED BY <1>1, Inductive, PTL

\* When the last handle is gone, so is every allocation: a tombstone has a child, and the
\* youngest allocation has none.
THEOREM LeaksNothing == Spec => []NoLeak
<1>1. IInv => NoLeak
  <2> SUFFICES ASSUME IInv, leases = {} PROVE allocations = <<>> /\ used = Zero
    BY DEF NoLeak
  <2>1. DOMAIN allocations = {}
    <3> SUFFICES ASSUME DOMAIN allocations # {} PROVE FALSE
      BY Zenon
    <3> DEFINE Up == {k \in Nat : \E x \in DOMAIN allocations : k = next_epoch - x}
    <3>1. \A x \in DOMAIN allocations : x \in Nat /\ next_epoch - x \in Up
      BY DEF IInv, Sound
    <3>2. Up # {} /\ Up \in SUBSET Nat
      BY <3>1
    <3>3. PICK k \in Up : \A m \in Up : k <= m
      <4> HIDE DEF Up
      <4> QED BY <3>2, LeastNatural
    <3>4. PICK x \in DOMAIN allocations : k = next_epoch - x
      OBVIOUS
    <3>5. \A y \in DOMAIN allocations : next_epoch - x <= next_epoch - y
      BY <3>1, <3>3, <3>4
    <3>6. \A y \in DOMAIN allocations : y <= x
      BY <3>1, <3>5 DEF IInv
    <3>7. Sound(allocations, used) /\ ~Ready(allocations[x])
      BY DEF IInv, Tombstone
    <3>8. PICK y \in DOMAIN allocations : allocations[y].parent = x
      BY <3>7, NotReadyHasKids
    <3>9. x < y
      BY <3>1, <3>8 DEF IInv, Sound, NoParent
    <3> QED BY <3>1, <3>6, <3>9
  <2>2. allocations = <<>>
    BY <2>1 DEF IInv, Sound
  <2>3. used = Zero
    <3>1. Kids(allocations, NoParent) = {}
      BY <2>1 DEF Kids
    <3> QED BY <3>1, GrantsEmpty DEF IInv, Sound
  <2> QED BY <2>2, <2>3
<1> QED BY <1>1, Inductive, PTL

================================================================================
