----------------------------- MODULE Recursion -----------------------------
(***************************************************************************)
(* Induction up to a number, and functions defined by recursion up to it,  *)
(* as facts about sets and functions: a property is the set of the numbers *)
(* that have it, a step of a recursion is a function.  In this form the    *)
(* provers can use them; they rest on the fact that the finite sets of     *)
(* numbers are well-founded under inclusion.                               *)
(***************************************************************************)
EXTENDS Integers, FiniteSets, WellFoundedInduction, FiniteSetTheorems, TLAPS

\* A set of numbers that is not empty has a least one.
LEMMA LeastNumber ==
    ASSUME NEW T \in SUBSET Nat, T # {}
    PROVE  \E x \in T : \A y \in T : x <= y
<1> DEFINE Below(k) == {j \in Nat : j < k}
           Smaller == StrictSubsetOrdering(Nat)
           Belows == {Below(k) : k \in T}
<1>1. IsWellFoundedOn(Smaller, FiniteSubsetsOf(Nat))
  BY FS_StrictSubsetOrderingWellFounded
<1>2. Belows \subseteq FiniteSubsetsOf(Nat)
  <2> SUFFICES ASSUME NEW k \in T PROVE Below(k) \in SUBSET Nat /\ IsFiniteSet(Below(k))
    BY DEF FiniteSubsetsOf
  <2>1. IsFiniteSet(0..k) /\ Below(k) \in SUBSET (0..k)
    BY FS_Interval
  <2>2. QED
    BY <2>1, FS_Subset
<1>3. Belows # {}
  OBVIOUS
<1> HIDE DEF Smaller, Belows
<1>4. PICK x \in Belows : \A y \in Belows : ~(<<y, x>> \in Smaller)
  BY <1>1, <1>2, <1>3, WFMin
<1> USE DEF Smaller, Belows
<1>5. PICK k \in T : x = Below(k)
  BY <1>4
<1>6. ASSUME NEW j \in T, j < k PROVE FALSE
  <2>1. Below(j) \in Belows /\ Below(j) \in SUBSET Nat /\ Below(k) \in SUBSET Nat
    BY <1>6
  <2>2. Below(j) \subseteq Below(k) /\ j \in Below(k) /\ j \notin Below(j)
    BY <1>6
  <2>3. <<Below(j), Below(k)>> \in Smaller
    BY <2>1, <2>2 DEF StrictSubsetOrdering
  <2>4. QED
    BY <1>4, <1>5, <2>1, <2>3
<1>7. QED
  BY <1>5, <1>6

\* Induction from 0 to N.
LEMMA UpTo ==
    ASSUME NEW N \in Nat, NEW T, 0 \in T, \A n \in 1..N : n - 1 \in T => n \in T
    PROVE  0..N \subseteq T
<1> DEFINE Bad == {n \in 0..N : n \notin T}
<1> SUFFICES ASSUME Bad # {} PROVE FALSE
  OBVIOUS
<1>1. PICK n \in Bad : \A k \in Bad : n <= k
  <2>1. Bad \in SUBSET Nat
    OBVIOUS
  <2> HIDE DEF Bad
  <2>2. QED
    BY <2>1, LeastNumber
<1>2. n \in 1..N /\ n - 1 \in 0..N /\ n - 1 \notin Bad
  BY <1>1
<1>3. QED
  BY <1>1, <1>2

\* The steps of a recursion up to N with values in V, and its solutions.
Steps(N, V) == [(1..N) \X V -> V]
Solutions(a, N, V, step) ==
    {f \in [0..N -> V] : f[0] = a /\ \A n \in 1..N : f[n] = step[<<n, f[n - 1]>>]}

\* A recursion has a solution.
LEMMA RecursionExists ==
    ASSUME NEW V, NEW a \in V, NEW N \in Nat, NEW step \in Steps(N, V)
    PROVE  Solutions(a, N, V, step) # {}
<1> DEFINE Solves(f, m) == f[0] = a /\ \A n \in 1..m : f[n] = step[<<n, f[n - 1]>>]
           T == {m \in 0..N : \E f \in [0..m -> V] : Solves(f, m)}
<1>1. 0 \in T
  <2> DEFINE g == [n \in 0..0 |-> a]
  <2>1. g \in [0..0 -> V] /\ g[0] = a
    OBVIOUS
  <2> HIDE DEF g
  <2>2. Solves(g, 0)
    BY <2>1
  <2>3. QED
    BY <2>1, <2>2
<1>2. ASSUME NEW n \in 1..N, n - 1 \in T PROVE n \in T
  <2>1. PICK f \in [0..(n - 1) -> V] : Solves(f, n - 1)
    BY <1>2
  <2> DEFINE g == [k \in 0..n |-> IF k = n THEN step[<<n, f[n - 1]>>] ELSE f[k]]
  <2>2. step[<<n, f[n - 1]>>] \in V
    BY DEF Steps
  <2>3. g \in [0..n -> V]
    BY <2>2
  <2>4. g[n] = step[<<n, g[n - 1]>>] /\ g[0] = a
    <3>1. n \in 0..n /\ n - 1 \in 0..n /\ n - 1 # n /\ 0 \in 0..n /\ 0 # n
      OBVIOUS
    <3>2. g[n] = step[<<n, f[n - 1]>>] /\ g[n - 1] = f[n - 1] /\ g[0] = f[0]
      BY <3>1
    <3>3. QED
      BY <2>1, <3>2
  <2>5. \A k \in 1..(n - 1) : g[k] = f[k] /\ g[k - 1] = f[k - 1]
    OBVIOUS
  <2>6. \A k \in 1..(n - 1) : g[k] = step[<<k, g[k - 1]>>]
    BY <2>1, <2>5
  <2> HIDE DEF g
  <2>7. Solves(g, n)
    BY <2>4, <2>6
  <2>8. QED
    BY <2>3, <2>7
<1> HIDE DEF T
<1>3. N \in T
  BY <1>1, <1>2, UpTo
<1>4. QED
  BY <1>3 DEF T, Solutions

\* A solution has the type its steps keep.
LEMMA RecursionType ==
    ASSUME NEW V, NEW a \in V, NEW N \in Nat, NEW f, f[0] = a,
           \A n \in 1..N : f[n - 1] \in V => f[n] \in V
    PROVE  \A n \in 0..N : f[n] \in V
<1> DEFINE T == {n \in 0..N : f[n] \in V}
<1>1. 0 \in T /\ \A n \in 1..N : n - 1 \in T => n \in T
  OBVIOUS
<1> HIDE DEF T
<1>2. 0..N \subseteq T
  BY <1>1, UpTo
<1>3. QED
  BY <1>2 DEF T

----------------------------------------------------------------------------
(* Recursions that go from d to jump[d], where rank[d] is smaller, and end *)
(* at rank 0.                                                              *)

IsRanked(f, D, rank, base, jump, step) ==
    f = [d \in D |-> IF rank[d] = 0 THEN base[d] ELSE step[<<d, f[jump[d]]>>]]

LEMMA RankedRecursion ==
    ASSUME NEW D, NEW V, NEW N \in Nat, NEW rank \in [D -> 0..N], NEW base \in [D -> V],
           NEW jump \in [D -> D], NEW step \in [D \X V -> V],
           \A d \in D : rank[d] # 0 => rank[jump[d]] < rank[d]
    PROVE  \E f \in [D -> V] : IsRanked(f, D, rank, base, jump, step)
<1> DEFINE W == [D -> V]
           Turn(g) == [d \in D |-> IF rank[d] = 0 THEN base[d] ELSE step[<<d, g[jump[d]]>>]]
           turn == [x \in (1..N) \X W |-> Turn(x[2])]
<1>1. \A g \in W : Turn(g) \in W
  OBVIOUS
<1>2. \A g : \A d \in D : Turn(g)[d] = IF rank[d] = 0 THEN base[d] ELSE step[<<d, g[jump[d]]>>]
  OBVIOUS
<1>3. \A g : Turn(g) = [d \in D |-> IF rank[d] = 0 THEN base[d] ELSE step[<<d, g[jump[d]]>>]]
  OBVIOUS
<1>4. \A n \in 1..N, g \in W : turn[<<n, g>>] = Turn(g)
  OBVIOUS
<1>5. base \in W
  OBVIOUS
<1> HIDE DEF Turn
<1>6. turn \in Steps(N, W)
  BY <1>1 DEF Steps
<1> HIDE DEF turn, W
<1>7. Solutions(base, N, W, turn) # {}
  BY <1>5, <1>6, RecursionExists
<1>8. PICK F \in [0..N -> W] : F[0] = base /\ \A n \in 1..N : F[n] = turn[<<n, F[n - 1]>>]
  BY <1>7 DEF Solutions
<1>9. \A n \in 1..N : n - 1 \in 0..N /\ n \in 0..N /\ F[n - 1] \in W /\ F[n] = Turn(F[n - 1])
  <2> TAKE n \in 1..N
  <2>1. n - 1 \in 0..N /\ n \in 0..N
    OBVIOUS
  <2>2. QED
    BY <1>4, <1>8, <2>1
<1>10. \A n \in 0..N, d \in D : rank[d] = 0 => F[n][d] = base[d]
  <2> TAKE n \in 0..N, d \in D
  <2> HAVE rank[d] = 0
  <2>1. n = 0 \/ n \in 1..N
    OBVIOUS
  <2>2. CASE n = 0
    BY <1>8, <2>2
  <2>3. CASE n \in 1..N
    <3>1. F[n] = Turn(F[n - 1])
      BY <1>9, <2>3
    <3>2. QED
      BY <1>2, <3>1
  <2>4. QED
    BY <2>1, <2>2, <2>3
<1> DEFINE Same(n) == \A d \in D : rank[d] <= n - 1 => F[n - 1][d] = F[n][d]
           T == {n \in 0..N : n = 0 \/ Same(n)}
<1>11. ASSUME NEW n \in 1..N, n - 1 \in T
       PROVE  n \in T
  <2>0. n \in 0..N /\ n - 1 \in 0..N
    OBVIOUS
  <2>1. ASSUME NEW d \in D, rank[d] <= n - 1
        PROVE  F[n - 1][d] = F[n][d]
    <3>1. CASE rank[d] = 0
      BY <1>10, <2>0, <3>1
    <3>2. CASE rank[d] # 0
      <4>1. rank[d] \in 0..N /\ jump[d] \in D /\ rank[jump[d]] \in 0..N
        OBVIOUS
      <4>2. n - 1 \in 1..N /\ rank[jump[d]] <= (n - 1) - 1
        BY <2>1, <3>2, <4>1
      <4>3. n - 1 # 0
        BY <4>2
      <4>4. Same(n - 1)
        BY <1>11, <4>3
      <4>5. F[(n - 1) - 1][jump[d]] = F[n - 1][jump[d]]
        BY <4>1, <4>2, <4>4
      <4>6. F[n][d] = step[<<d, F[n - 1][jump[d]]>>]
        BY <1>2, <1>9, <3>2
      <4>7. F[n - 1][d] = step[<<d, F[(n - 1) - 1][jump[d]]>>]
        BY <1>2, <1>9, <3>2, <4>2
      <4>8. QED
        BY <4>5, <4>6, <4>7
    <3>3. QED
      BY <3>1, <3>2
  <2>2. Same(n)
    BY <2>1
  <2>3. QED
    BY <2>0, <2>2
<1>12. 0 \in T
  OBVIOUS
<1> HIDE DEF T
<1>13. 0..N \subseteq T
  BY <1>11, <1>12, UpTo
<1> DEFINE f == F[N]
<1>14. f \in W
  BY <1>8
<1>15. f = [d \in D |-> IF rank[d] = 0 THEN base[d] ELSE step[<<d, f[jump[d]]>>]]
  <2>1. ASSUME NEW d \in D
        PROVE  f[d] = IF rank[d] = 0 THEN base[d] ELSE step[<<d, f[jump[d]]>>]
    <3>1. CASE rank[d] = 0
      BY <1>10, <3>1
    <3>2. CASE rank[d] # 0
      <4>1. rank[d] \in 0..N /\ jump[d] \in D /\ rank[jump[d]] \in 0..N /\ rank[jump[d]] < rank[d]
        BY <3>2
      <4>2. N \in 1..N /\ N # 0 /\ N \in 0..N /\ rank[jump[d]] <= N - 1
        BY <3>2, <4>1
      <4>3. Same(N)
        BY <1>13, <4>2 DEF T
      <4>4. F[N - 1][jump[d]] = F[N][jump[d]]
        BY <4>1, <4>2, <4>3
      <4>5. F[N][d] = step[<<d, F[N - 1][jump[d]]>>]
        BY <1>2, <1>9, <3>2, <4>2
      <4>6. QED
        BY <3>2, <4>4, <4>5
    <3>3. QED
      BY <3>1, <3>2
  <2>2. f \in [D -> V]
    BY <1>14 DEF W
  <2> HIDE DEF f
  <2>3. QED
    BY <2>1, <2>2
<1> HIDE DEF f
<1>16. QED
  BY <1>14, <1>15 DEF IsRanked, W

----------------------------------------------------------------------------
\* A set of numbers up to N that is not empty has a greatest one.
Greatest(s) == CHOOSE x \in s : \A y \in s : x >= y

LEMMA GreatestNumber ==
    ASSUME NEW N \in Nat, NEW s \in SUBSET (0..N), s # {}
    PROVE  Greatest(s) \in s /\ \A y \in s : Greatest(s) >= y
<1> DEFINE U == {u \in 0..N : N - u \in s}
<1>1. U \in SUBSET Nat /\ U # {}
  <2>1. PICK t \in s : TRUE
    OBVIOUS
  <2>2. N - t \in 0..N /\ N - (N - t) = t
    BY <2>1
  <2>3. N - t \in U
    BY <2>1, <2>2
  <2>4. \A u \in U : u \in Nat
    OBVIOUS
  <2> HIDE DEF U
  <2>5. QED
    BY <2>3, <2>4
<1>2. \E x \in s : \A y \in s : x >= y
  <2> HIDE DEF U
  <2>1. PICK u \in U : \A v \in U : u <= v
    BY <1>1, LeastNumber
  <2> USE DEF U
  <2>2. \A y \in s : N - y \in U
    <3> TAKE y \in s
    <3>1. N - y \in 0..N /\ N - (N - y) = y
      OBVIOUS
    <3>2. QED
      BY <3>1
  <2>3. \A y \in s : N - u >= y
    BY <2>1, <2>2
  <2>4. QED
    BY <2>1, <2>3
<1>3. QED
  BY <1>2 DEF Greatest
=============================================================================
