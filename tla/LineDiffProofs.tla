--------------------------- MODULE LineDiffProofs ---------------------------
(***************************************************************************)
(* Proofs about one container of the compared documents, as LineDiff       *)
(* models it: comparing and copying on objects, then on arrays.  The       *)
(* algorithms are recursive functions; a recursive function is shown to    *)
(* satisfy its own definition once, in RecursionOnMeasure, and everything  *)
(* else follows by induction, which LeastNumber provides.                  *)
(***************************************************************************)
EXTENDS LineDiff, Integers, FiniteSetTheorems, SequenceTheorems, WellFoundedInduction, TLAPS

-----------------------------------------------------------------------------
(* Induction and recursion.                                                *)

LEMMA LeastNumber ==
  ASSUME NEW T, T \subseteq Nat, T # {}
  PROVE  \E x \in T : \A y \in T : x <= y
<1> DEFINE F == {0..x : x \in T}
<1>1. F \subseteq FiniteSubsetsOf(Nat)
  <2> SUFFICES ASSUME NEW x \in T PROVE 0..x \in FiniteSubsetsOf(Nat)
    BY DEF F
  <2>1. IsFiniteSet(0..x)
    BY FS_Interval
  <2>2. 0..x \in SUBSET Nat
    OBVIOUS
  <2> QED
    BY <2>1, <2>2 DEF FiniteSubsetsOf
<1>2. F # {}
  OBVIOUS
<1> HIDE DEF F
<1>3. PICK X \in F : \A Y \in F : ~(<<Y, X>> \in StrictSubsetOrdering(Nat))
  BY <1>1, <1>2, FS_StrictSubsetOrderingWellFounded, WFMin
<1>4. PICK x \in T : X = 0..x
  BY DEF F
<1>5. ASSUME NEW y \in T, ~(x <= y) PROVE FALSE
  <2>1. 0..y \in F
    BY DEF F
  <2>2. 0..y \subseteq 0..x /\ x \in 0..x /\ x \notin 0..y
    BY <1>5
  <2>3. 0..y \in SUBSET Nat /\ 0..x \in SUBSET Nat
    OBVIOUS
  <2> QED
    BY <1>3, <1>4, <2>1, <2>2, <2>3 DEF StrictSubsetOrdering
<1> QED
  BY <1>5

(* A set of numbers that has 0 and the successor of each of its members    *)
(* below N has all numbers up to N.                                        *)
LEMMA UpTo ==
  ASSUME NEW N \in Nat, NEW T, 0 \in T, \A k \in 0..(N - 1) : k \in T => k + 1 \in T
  PROVE  0..N \subseteq T
<1> DEFINE U == {k \in 0..N : k \notin T}
<1>1. CASE U = {}
  BY <1>1
<1>2. CASE U # {}
  <2>1. U \subseteq Nat
    OBVIOUS
  <2>2. PICK k \in U : \A y \in U : k <= y
    BY <1>2, <2>1, LeastNumber
  <2>3. k # 0 /\ k \in 1..N /\ k \notin T
    BY <2>2
  <2>4. k - 1 \in 0..N /\ k - 1 \notin U
    BY <2>2, <2>3
  <2>5. k - 1 \in T /\ k - 1 \in 0..(N - 1)
    BY <2>3, <2>4
  <2>6. (k - 1) + 1 \in T
    BY <2>5
  <2> QED
    BY <2>3, <2>6
<1> QED
  BY <1>1, <1>2

(* A recursive function exists when what it is at d depends on its values  *)
(* at arguments of a smaller measure alone.                                *)
ReadsSmaller(D, S, size, G) ==
  \A d \in D : \A f \in [D -> S] : \A g \in [D -> S] :
    (\A e \in D : size[e] < size[d] => f[e] = g[e]) => G[<<f, d>>] = G[<<g, d>>]
Solvable(D, S, G) == \E f \in [D -> S] : \A d \in D : f[d] = G[<<f, d>>]

LEMMA RecursionOnMeasure ==
  ASSUME NEW D, NEW S, S # {}, NEW N \in Nat, NEW size \in [D -> 0..N],
         NEW G \in [[D -> S] \X D -> S], ReadsSmaller(D, S, size, G)
  PROVE  Solvable(D, S, G)
<1> DEFINE Upto(f, k) == \A d \in D : size[d] < k => f[d] = G[<<f, d>>]
           T == {k \in Nat : \E f \in [D -> S] : Upto(f, k)}
<1>1. 0 \in T
  <2>1. PICK s \in S : TRUE
    OBVIOUS
  <2>2. [d \in D |-> s] \in [D -> S]
    OBVIOUS
  <2>3. Upto([d \in D |-> s], 0)
    OBVIOUS
  <2> QED
    BY <2>2, <2>3
<1>2. ASSUME NEW k \in 0..N, k \in T PROVE k + 1 \in T
  <2>1. PICK f \in [D -> S] : Upto(f, k)
    BY <1>2
  <2> DEFINE g == [d \in D |-> G[<<f, d>>]]
  <2>2. g \in [D -> S]
    OBVIOUS
  <2>3. ASSUME NEW d \in D, size[d] < k + 1 PROVE g[d] = G[<<g, d>>]
    <3>1. \A e \in D : size[e] < size[d] => g[e] = f[e]
      BY <2>1, <2>3
    <3> HIDE DEF g
    <3>2. G[<<g, d>>] = G[<<f, d>>]
      BY <2>2, <3>1 DEF ReadsSmaller
    <3> QED
      BY <3>2 DEF g
  <2> HIDE DEF g
  <2> QED
    BY <2>2, <2>3
<1> HIDE DEF T
<1>3. 0..(N + 1) \subseteq T
  BY <1>1, <1>2, UpTo
<1>4. PICK f \in [D -> S] : Upto(f, N + 1)
  <2>1. N + 1 \in T
    BY <1>3
  <2> QED
    BY <2>1 DEF T
<1>5. \A d \in D : size[d] < N + 1
  OBVIOUS
<1> QED
  BY <1>4, <1>5 DEF Solvable

(* The special case of one step after the other.                           *)
Iterable(S, N, start, H) ==
  \E f \in [0..N -> S] : f[0] = start /\ \A k \in 1..N : f[k] = H[<<f[k - 1], k>>]

LEMMA StepByStep ==
  ASSUME NEW S, NEW N \in Nat, NEW start \in S, NEW H \in [S \X (1..N) -> S]
  PROVE  Iterable(S, N, start, H)
<1> DEFINE D == 0..N
           G == [q \in [D -> S] \X D |-> IF q[2] = 0 THEN start ELSE H[<<q[1][q[2] - 1], q[2]>>]]
           size == [k \in D |-> k]
<1>1. ASSUME NEW f \in [D -> S], NEW k \in D, k # 0 PROVE k - 1 \in D /\ <<f[k - 1], k>> \in S \X (1..N)
  BY <1>1
<1>2. G \in [[D -> S] \X D -> S]
  <2> HIDE DEF D
  <2> QED
    BY <1>1
<1>3. size \in [D -> 0..N]
  OBVIOUS
<1>4. \A f \in [D -> S], k \in D :
        G[<<f, k>>] = IF k = 0 THEN start ELSE H[<<f[k - 1], k>>]
  <2> HIDE DEF D
  <2> QED
    OBVIOUS
<1>5. ReadsSmaller(D, S, size, G)
  <2>1. ASSUME NEW k \in D, NEW f \in [D -> S], NEW g \in [D -> S],
               \A e \in D : size[e] < size[k] => f[e] = g[e]
        PROVE  G[<<f, k>>] = G[<<g, k>>]
    <3>1. k # 0 => f[k - 1] = g[k - 1]
      BY <2>1
    <3> HIDE DEF D, G
    <3> QED
      BY <1>4, <3>1
  <2> HIDE DEF D, G, size
  <2> QED
    BY <2>1 DEF ReadsSmaller
<1>6. Solvable(D, S, G)
  <2> HIDE DEF D, G, size
  <2> QED
    BY <1>2, <1>3, <1>5, RecursionOnMeasure
<1>7. PICK f \in [D -> S] : \A k \in D : f[k] = G[<<f, k>>]
  BY <1>6 DEF Solvable
<1>8. f[0] = start /\ \A k \in 1..N : f[k] = H[<<f[k - 1], k>>]
  <2>1. 0 \in D /\ \A k \in 1..N : k \in D /\ k # 0
    OBVIOUS
  <2> HIDE DEF D, G
  <2> QED
    BY <1>4, <1>7, <2>1
<1> QED
  BY <1>8 DEF Iterable

(* The same for steps that lead from each of a row of sets into the next.  *)
Marches(F, N, start, H) ==
  \E f : /\ f = [k \in 0..N |-> f[k]] /\ f[0] = start
         /\ \A k \in 1..N : f[k - 1] \in F[k - 1] /\ f[k] = H[<<f[k - 1], k>>]

LEMMA March ==
  ASSUME NEW N \in Nat, NEW F, NEW start \in F[0], NEW H,
         \A k \in 1..N : \A x \in F[k - 1] : H[<<x, k>>] \in F[k]
  PROVE  Marches(F, N, start, H)
<1> DEFINE S == UNION {F[k] : k \in 0..N}
           G == [q \in S \X (1..N) |-> IF q[1] \in F[q[2] - 1] THEN H[<<q[1], q[2]>>] ELSE start]
<1>1. start \in S
  <2>1. 0 \in 0..N
    OBVIOUS
  <2> QED
    BY <2>1
<1>2. \A k \in 1..N : k \in 0..N /\ k - 1 \in 0..N
  OBVIOUS
<1>3. G \in [S \X (1..N) -> S]
  <2>1. ASSUME NEW x \in S, NEW k \in 1..N, x \in F[k - 1] PROVE H[<<x, k>>] \in S
    BY <1>2, <2>1
  <2> HIDE DEF S
  <2> QED
    BY <1>1, <2>1
<1>4. Iterable(S, N, start, G)
  <2> HIDE DEF S, G
  <2> QED
    BY <1>1, <1>3, StepByStep
<1>5. PICK f \in [0..N -> S] : f[0] = start /\ \A k \in 1..N : f[k] = G[<<f[k - 1], k>>]
  <2> HIDE DEF S, G
  <2> QED
    BY <1>4 DEF Iterable
<1>6. ASSUME NEW k \in 1..N
      PROVE  f[k] = IF f[k - 1] \in F[k - 1] THEN H[<<f[k - 1], k>>] ELSE start
  <2>1. <<f[k - 1], k>> \in S \X (1..N)
    BY <1>2
  <2> HIDE DEF S
  <2> QED
    BY <1>5, <2>1
<1>7. 0..N \subseteq {k \in 0..N : f[k] \in F[k]}
  <2> DEFINE T == {k \in 0..N : f[k] \in F[k]}
  <2>1. 0 \in T
    BY <1>5
  <2>2. ASSUME NEW k \in 0..(N - 1), k \in T PROVE k + 1 \in T
    <3>1. k + 1 \in 1..N /\ k + 1 \in 0..N /\ (k + 1) - 1 = k
      OBVIOUS
    <3>2. f[k + 1] = H[<<f[k], k + 1>>]
      BY <1>6, <2>2, <3>1
    <3>3. H[<<f[k], k + 1>>] \in F[k + 1]
      BY <2>2, <3>1
    <3> QED
      BY <3>1, <3>2, <3>3
  <2> HIDE DEF T
  <2> QED
    BY <2>1, <2>2, UpTo DEF T
<1>8. \A k \in 1..N : f[k - 1] \in F[k - 1] /\ f[k] = H[<<f[k - 1], k>>]
  <2>1. \A k \in 0..N : f[k] \in F[k]
    BY <1>7
  <2> HIDE DEF S, G
  <2> QED
    BY <1>2, <1>6, <2>1
<1>9. f = [k \in 0..N |-> f[k]]
  OBVIOUS
<1> QED
  BY <1>5, <1>8, <1>9 DEF Marches

-----------------------------------------------------------------------------
(* alignObjectKeys.                                                        *)

Cells(l, r) == (1..(Len(l) + 1)) \X (1..(Len(r) + 1))

Cell(l, r, dp, i, j) ==
  IF i > Len(l) \/ j > Len(r) THEN 0
  ELSE IF l[i] = r[j] THEN dp[<<i + 1, j + 1>>] + 1
  ELSE IF dp[<<i + 1, j>>] >= dp[<<i, j + 1>>] THEN dp[<<i + 1, j>>]
  ELSE dp[<<i, j + 1>>]

(* The table dp is what its definition says at every cell.                 *)
LEMMA LcsUnfolds ==
  ASSUME NEW l \in Seq(Key), NEW r \in Seq(Key)
  PROVE  /\ Lcs(l, r) \in [Cells(l, r) -> Nat]
         /\ \A i \in 1..(Len(l) + 1), j \in 1..(Len(r) + 1) :
              Lcs(l, r)[<<i, j>>] = Cell(l, r, Lcs(l, r), i, j)
<1> DEFINE n == Len(l)
           m == Len(r)
           D == Cells(l, r)
           body(f, p) == LET i == p[1]
                             j == p[2]
                         IN  IF i > Len(l) \/ j > Len(r) THEN 0
                             ELSE IF l[i] = r[j] THEN f[<<i + 1, j + 1>>] + 1
                             ELSE IF f[<<i + 1, j>>] >= f[<<i, j + 1>>] THEN f[<<i + 1, j>>]
                             ELSE f[<<i, j + 1>>]
           G == [q \in [D -> Nat] \X D |-> body(q[1], q[2])]
           size == [p \in D |-> (n + 1 - p[1]) + (m + 1 - p[2])]
<1>1. n \in Nat /\ m \in Nat
  OBVIOUS
<1>2. \A f \in [D -> Nat], p \in D : body(f, p) \in Nat
  <2> SUFFICES ASSUME NEW f \in [D -> Nat], NEW p \in D PROVE body(f, p) \in Nat
    OBVIOUS
  <2>1. PICK i \in 1..(n + 1), j \in 1..(m + 1) : p = <<i, j>>
    BY DEF Cells
  <2>2. i <= n /\ j <= m => <<i + 1, j>> \in D /\ <<i, j + 1>> \in D /\ <<i + 1, j + 1>> \in D
    BY <1>1 DEF Cells
  <2> HIDE DEF D
  <2> QED
    BY <1>1, <2>1, <2>2
<1>3. G \in [[D -> Nat] \X D -> Nat]
  <2> HIDE DEF body, D
  <2> QED
    BY <1>2
<1>4. size \in [D -> 0..(n + m)]
  BY <1>1 DEF Cells
<1>5. ASSUME NEW p \in D, NEW f, NEW g, \A e \in D : size[e] < size[p] => f[e] = g[e]
      PROVE  body(f, p) = body(g, p)
  <2>1. PICK i \in 1..(n + 1), j \in 1..(m + 1) : p = <<i, j>>
    BY DEF Cells
  <2>2. i <= n /\ j <= m =>
          /\ <<i + 1, j>> \in D /\ <<i, j + 1>> \in D /\ <<i + 1, j + 1>> \in D
          /\ size[<<i + 1, j>>] < size[p] /\ size[<<i, j + 1>>] < size[p]
          /\ size[<<i + 1, j + 1>>] < size[p]
    <3>1. \A a \in 1..(n + 1), b \in 1..(m + 1) :
            <<a, b>> \in D /\ size[<<a, b>>] = (n + 1 - a) + (m + 1 - b)
      BY <1>1 DEF Cells
    <3> HIDE DEF size, D
    <3>2. size[p] = (n + 1 - i) + (m + 1 - j)
      BY <2>1, <3>1
    <3> SUFFICES ASSUME i <= n, j <= m
                 PROVE  /\ <<i + 1, j>> \in D /\ <<i, j + 1>> \in D /\ <<i + 1, j + 1>> \in D
                        /\ size[<<i + 1, j>>] < size[p] /\ size[<<i, j + 1>>] < size[p]
                        /\ size[<<i + 1, j + 1>>] < size[p]
      OBVIOUS
    <3>3. i + 1 \in 1..(n + 1) /\ j + 1 \in 1..(m + 1)
      BY <1>1
    <3>4. size[<<i + 1, j>>] = (n + 1 - (i + 1)) + (m + 1 - j) /\ <<i + 1, j>> \in D
      BY <1>1, <3>1, <3>3
    <3>5. size[<<i, j + 1>>] = (n + 1 - i) + (m + 1 - (j + 1)) /\ <<i, j + 1>> \in D
      BY <1>1, <3>1, <3>3
    <3>6. size[<<i + 1, j + 1>>] = (n + 1 - (i + 1)) + (m + 1 - (j + 1)) /\ <<i + 1, j + 1>> \in D
      BY <1>1, <3>1, <3>3
    <3> QED
      BY <1>1, <3>2, <3>4, <3>5, <3>6
  <2>3. i <= n /\ j <= m =>
          /\ f[<<i + 1, j>>] = g[<<i + 1, j>>] /\ f[<<i, j + 1>>] = g[<<i, j + 1>>]
          /\ f[<<i + 1, j + 1>>] = g[<<i + 1, j + 1>>]
    <3> HIDE DEF size, D
    <3> QED
      BY <1>5, <2>2
  <2> HIDE DEF D, size
  <2> QED
    BY <1>1, <2>1, <2>3
<1>6. PICK f \in [D -> Nat] : \A p \in D : f[p] = G[<<f, p>>]
  <2>1. n + m \in Nat /\ Nat # {}
    BY <1>1
  <2>2. ReadsSmaller(D, Nat, size, G)
    <3>1. ASSUME NEW p \in D, NEW f \in [D -> Nat], NEW g \in [D -> Nat],
                 \A e \in D : size[e] < size[p] => f[e] = g[e]
          PROVE  G[<<f, p>>] = G[<<g, p>>]
      <4>1. G[<<f, p>>] = body(f, p) /\ G[<<g, p>>] = body(g, p)
        <5> HIDE DEF D, body
        <5> QED
          OBVIOUS
      <4>2. body(f, p) = body(g, p)
        <5> HIDE DEF D, body, size
        <5> QED
          BY <1>5, <3>1
      <4> HIDE DEF body, G
      <4> QED
        BY <4>1, <4>2
    <3> HIDE DEF D, G, size
    <3> QED
      BY <3>1 DEF ReadsSmaller
  <2>3. Solvable(D, Nat, G)
    <3> HIDE DEF D, G, size
    <3> QED
      BY <1>3, <1>4, <2>1, <2>2, RecursionOnMeasure
  <2> HIDE DEF D, G
  <2> QED
    BY <2>3 DEF Solvable
<1>7. f = [p \in D |-> body(f, p)]
  <2> HIDE DEF D, body
  <2> QED
    BY <1>6
<1>8. Lcs(l, r) = [p \in D |-> body(Lcs(l, r), p)]
  <2>1. Lcs(l, r) = CHOOSE dp : dp = [p \in D |-> body(dp, p)]
    BY DEF Lcs, Cells
  <2> HIDE DEF D, body
  <2> QED
    BY <1>7, <2>1
<1>9. Lcs(l, r) = f
  <2> DEFINE g == Lcs(l, r)
             T == {k \in Nat : \A p \in D : size[p] < k => g[p] = f[p]}
  <2>1. 0 \in T
    BY <1>4
  <2>2. ASSUME NEW k \in 0..(n + m), k \in T PROVE k + 1 \in T
    <3>1. ASSUME NEW p \in D, size[p] < k + 1 PROVE g[p] = f[p]
      <4>1. \A e \in D : size[e] < size[p] => g[e] = f[e]
        <5>1. size[p] \in Nat /\ \A e \in D : size[e] \in Nat
          BY <1>4
        <5> HIDE DEF size, D, g
        <5> QED
          BY <2>2, <3>1, <5>1
      <4>2. body(g, p) = body(f, p)
        <5> HIDE DEF size, D, g, body
        <5> QED
          BY <1>5, <4>1
      <4>3. g[p] = body(g, p) /\ f[p] = body(f, p)
        <5>1. g = [q \in D |-> body(g, q)]
          BY <1>8
        <5> HIDE DEF D, g, body
        <5> QED
          BY <1>7, <5>1
      <4> QED
        BY <4>2, <4>3
    <3> HIDE DEF size, D, g
    <3> QED
      BY <3>1
  <2>3. n + m + 1 \in T
    <3> HIDE DEF T, n, m
    <3>1. n + m + 1 \in Nat /\ \A k \in 0..((n + m + 1) - 1) : k \in 0..(n + m)
      BY <1>1
    <3>2. 0..(n + m + 1) \subseteq T
      BY <2>1, <2>2, <3>1, UpTo
    <3> QED
      BY <3>1, <3>2
  <2>4. \A p \in D : g[p] = f[p]
    <3>1. \A p \in D : size[p] < n + m + 1
      BY <1>1, <1>4
    <3> HIDE DEF size, D, g, n, m
    <3> QED
      BY <2>3, <3>1
  <2>5. g = [p \in D |-> g[p]]
    <3>1. g = [q \in D |-> body(g, q)]
      BY <1>8
    <3> HIDE DEF D, g, body
    <3> QED
      BY <3>1
  <2>6. f = [p \in D |-> f[p]]
    <3> HIDE DEF D
    <3> QED
      OBVIOUS
  <2> HIDE DEF D, g
  <2>7. g = f
    BY <2>4, <2>5, <2>6
  <2> QED
    BY <2>7 DEF g
<1> QED
  <2>1. ASSUME NEW i \in 1..(n + 1), NEW j \in 1..(m + 1)
        PROVE  f[<<i, j>>] = body(f, <<i, j>>)
    <3>1. <<i, j>> \in D
      BY DEF Cells
    <3> HIDE DEF D, body
    <3> QED
      BY <1>7, <3>1
  <2>2. ASSUME NEW i \in 1..(n + 1), NEW j \in 1..(m + 1)
        PROVE  f[<<i, j>>] = Cell(l, r, f, i, j)
    <3>1. body(f, <<i, j>>) = Cell(l, r, f, i, j)
      BY DEF Cell
    <3> HIDE DEF body, D
    <3> QED
      BY <2>1, <3>1
  <2> HIDE DEF D
  <2> QED
    BY <1>9, <2>2 DEF D

LEMMA LcsAt ==
  ASSUME NEW l \in Seq(Key), NEW r \in Seq(Key),
         NEW i \in 1..(Len(l) + 1), NEW j \in 1..(Len(r) + 1)
  PROVE  /\ Lcs(l, r)[<<i, j>>] \in Nat
         /\ i > Len(l) \/ j > Len(r) => Lcs(l, r)[<<i, j>>] = 0
         /\ i <= Len(l) /\ j <= Len(r) =>
              Lcs(l, r)[<<i, j>>] =
                IF l[i] = r[j] THEN Lcs(l, r)[<<i + 1, j + 1>>] + 1
                ELSE IF Lcs(l, r)[<<i + 1, j>>] >= Lcs(l, r)[<<i, j + 1>>]
                     THEN Lcs(l, r)[<<i + 1, j>>]
                ELSE Lcs(l, r)[<<i, j + 1>>]
<1>1. <<i, j>> \in Cells(l, r)
  BY DEF Cells
<1>2. Lcs(l, r)[<<i, j>>] \in Nat
  BY <1>1, LcsUnfolds
<1>3. Lcs(l, r)[<<i, j>>] = Cell(l, r, Lcs(l, r), i, j)
  BY LcsUnfolds
<1>4. Len(l) \in Nat /\ Len(r) \in Nat
  OBVIOUS
<1> QED
  BY <1>2, <1>3, <1>4 DEF Cell

LEMMA LcsEdge ==
  ASSUME NEW l \in Seq(Key), NEW r \in Seq(Key),
         NEW i \in 1..(Len(l) + 1), NEW j \in 1..(Len(r) + 1), i > Len(l) \/ j > Len(r)
  PROVE  Lcs(l, r)[<<i, j>>] = 0
BY LcsUnfolds DEF Cell

RowSet == [leftKey : Key \cup {None}, rightKey : Key \cup {None}]
Column0 == Seq(Key \cup {None})

(* The column lists the first n keys of ks in order, and nothing else.     *)
Filled(col, ks, n) ==
  /\ \A x \in 1..n : \E p \in DOMAIN col : col[p] = ks[x]
  /\ \A p \in DOMAIN col : col[p] = None \/ \E x \in 1..n : col[p] = ks[x]
  /\ \A p, q \in DOMAIN col :
       p < q /\ col[p] # None /\ col[q] # None =>
         \E x, y \in 1..n : x < y /\ col[p] = ks[x] /\ col[q] = ks[y]

LEMMA FilledByNone ==
  ASSUME NEW col \in Column0, NEW ks, NEW n \in Nat, Filled(col, ks, n)
  PROVE  Filled(Append(col, None), ks, n)
<1> DEFINE new == Append(col, None)
<1>1. /\ Len(col) \in Nat /\ DOMAIN col = 1..Len(col) /\ DOMAIN new = 1..(Len(col) + 1)
      /\ new[Len(col) + 1] = None
      /\ \A p \in DOMAIN col : new[p] = col[p] /\ p \in DOMAIN new
  BY DEF Column0
<1>2. \A p \in DOMAIN new : new[p] # None => p \in DOMAIN col /\ new[p] = col[p]
  BY <1>1
<1> HIDE DEF new
<1>3. \A x \in 1..n : \E p \in DOMAIN new : new[p] = ks[x]
  BY <1>1 DEF Filled
<1>4. \A p \in DOMAIN new : new[p] = None \/ \E x \in 1..n : new[p] = ks[x]
  BY <1>2 DEF Filled
<1>5. ASSUME NEW p \in DOMAIN new, NEW q \in DOMAIN new, p < q, new[p] # None, new[q] # None
      PROVE  \E x, y \in 1..n : x < y /\ new[p] = ks[x] /\ new[q] = ks[y]
  <2>1. PICK x \in 1..n, y \in 1..n : x < y /\ col[p] = ks[x] /\ col[q] = ks[y]
    BY <1>2, <1>5 DEF Filled
  <2> QED
    BY <1>2, <1>5, <2>1
<1> QED
  BY <1>3, <1>4, <1>5 DEF Filled, new

LEMMA FilledByNext ==
  ASSUME NEW col \in Column0, NEW ks, NEW n \in Nat \ {0}, Filled(col, ks, n - 1)
  PROVE  Filled(Append(col, ks[n]), ks, n)
<1> DEFINE new == Append(col, ks[n])
           last == Len(col) + 1
<1>1. /\ Len(col) \in Nat /\ DOMAIN col = 1..Len(col) /\ DOMAIN new = 1..last
      /\ new[last] = ks[n]
      /\ \A p \in DOMAIN col : new[p] = col[p] /\ p \in DOMAIN new
  BY DEF Column0
<1>2. \A p \in DOMAIN new : p \in DOMAIN col \/ p = last
  BY <1>1
<1>3. 1..(n - 1) \subseteq 1..n /\ n \in 1..n /\ \A x \in 1..n : x \in 1..(n - 1) \/ x = n
  OBVIOUS
<1>4. \A p \in DOMAIN col : p < last
  BY <1>1
<1>5. \A x \in 1..(n - 1) : x < n
  OBVIOUS
<1> HIDE DEF new
<1>6. \A x \in 1..n : \E p \in DOMAIN new : new[p] = ks[x]
  BY <1>1, <1>3 DEF Filled
<1>7. \A p \in DOMAIN new : new[p] = None \/ \E x \in 1..n : new[p] = ks[x]
  BY <1>1, <1>2, <1>3 DEF Filled
<1>8. ASSUME NEW p \in DOMAIN new, NEW q \in DOMAIN new, p < q, new[p] # None, new[q] # None
      PROVE  \E x, y \in 1..n : x < y /\ new[p] = ks[x] /\ new[q] = ks[y]
  <2>1. p \in DOMAIN col
    BY <1>1, <1>2, <1>8
  <2>2. CASE q \in DOMAIN col
    <3>1. PICK x \in 1..(n - 1), y \in 1..(n - 1) : x < y /\ col[p] = ks[x] /\ col[q] = ks[y]
      BY <1>1, <1>8, <2>1, <2>2 DEF Filled
    <3> QED
      BY <1>1, <1>3, <2>1, <2>2, <3>1
  <2>3. CASE q = last
    <3>1. PICK x \in 1..(n - 1) : new[p] = ks[x]
      BY <1>1, <1>8, <2>1 DEF Filled
    <3> QED
      BY <1>1, <1>3, <1>5, <2>3, <3>1
  <2> QED
    BY <1>2, <2>2, <2>3
<1> QED
  BY <1>6, <1>7, <1>8 DEF Filled, new

LEMMA ColumnType ==
  ASSUME NEW rows \in Seq(RowSet), NEW side \in {"leftKey", "rightKey"}
  PROVE  Column(rows, side) \in Column0 /\ Len(Column(rows, side)) = Len(rows)
<1>1. \A w \in RowSet : w[side] \in Key \cup {None}
  BY DEF RowSet
<1> QED
  BY <1>1 DEF Column, Column0

LEMMA ColumnOfAppend ==
  ASSUME NEW rows \in Seq(RowSet), NEW e \in RowSet, NEW side \in {"leftKey", "rightKey"}
  PROVE  Column(Append(rows, e), side) = Append(Column(rows, side), e[side])
<1>1. \A w \in RowSet : w[side] \in Key \cup {None}
  BY DEF RowSet
<1> QED
  BY <1>1, ColumnType DEF Column

Paired(rows) == {w \in ToSet(rows) : w.leftKey # None /\ w.rightKey # None}

Shaped(w) ==
  /\ w.leftKey # None \/ w.rightKey # None
  /\ w.leftKey # None /\ w.rightKey # None => w.leftKey = w.rightKey

LEMMA PairedOfAppend ==
  ASSUME NEW rows \in Seq(RowSet), NEW e \in RowSet
  PROVE  /\ Paired(Append(rows, e)) =
              IF e.leftKey # None /\ e.rightKey # None THEN Paired(rows) \cup {e} ELSE Paired(rows)
         /\ (\A w \in ToSet(rows) : Shaped(w)) /\ Shaped(e) =>
              \A w \in ToSet(Append(rows, e)) : Shaped(w)
<1>1. ToSet(Append(rows, e)) = ToSet(rows) \cup {e}
  <2> DEFINE new == Append(rows, e)
  <2>1. /\ Len(rows) \in Nat /\ DOMAIN rows = 1..Len(rows) /\ DOMAIN new = 1..(Len(rows) + 1)
        /\ new[Len(rows) + 1] = e
        /\ \A p \in DOMAIN rows : new[p] = rows[p] /\ p \in DOMAIN new
    OBVIOUS
  <2>2. \A p \in DOMAIN new : p \in DOMAIN rows \/ p = Len(rows) + 1
    BY <2>1
  <2>3. Len(rows) + 1 \in DOMAIN new
    BY <2>1
  <2> HIDE DEF new
  <2>4. ToSet(new) = ToSet(rows) \cup {e}
    BY <2>1, <2>2, <2>3 DEF ToSet
  <2> QED
    BY <2>4 DEF new
<1> QED
  BY <1>1 DEF Paired

(* What holds between two turns: both columns are filled up to the next    *)
(* key, and the rows in common and those still to come are as many as at   *)
(* the start.                                                              *)
Walks == [i : Nat \ {0}, j : Nat \ {0}, rows : Seq(RowSet)]
Walked(l, r, w) ==
  /\ w \in Walks /\ w.i <= Len(l) + 1 /\ w.j <= Len(r) + 1
  /\ Filled(Column(w.rows, "leftKey"), l, w.i - 1)
  /\ Filled(Column(w.rows, "rightKey"), r, w.j - 1)
  /\ \A v \in ToSet(w.rows) : Shaped(v)
  /\ IsFiniteSet(Paired(w.rows))
  /\ Cardinality(Paired(w.rows)) + Lcs(l, r)[<<w.i, w.j>>] = Lcs(l, r)[<<1, 1>>]

LEMMA NewRow ==
  ASSUME NEW l \in Seq(Key), NEW r \in Seq(Key), IsInjective(l), NEW w, Walked(l, r, w),
         w.i <= Len(l), NEW e \in RowSet, e.leftKey = l[w.i]
  PROVE  e \notin ToSet(w.rows)
<1> SUFFICES ASSUME NEW p \in DOMAIN w.rows, w.rows[p] = e PROVE FALSE
  BY DEF ToSet
<1>1. Column(w.rows, "leftKey")[p] = e.leftKey /\ p \in DOMAIN Column(w.rows, "leftKey")
  BY DEF Column
<1>2. w.i \in Nat \ {0} /\ w.i \in DOMAIN l /\ l[w.i] # None
  BY MergeAssumption DEF Walked, Walks
<1>3. PICK x \in 1..(w.i - 1) : Column(w.rows, "leftKey")[p] = l[x]
  BY <1>1, <1>2 DEF Walked, Filled
<1>4. x \in DOMAIN l /\ x # w.i
  BY <1>2
<1> QED
  BY <1>1, <1>2, <1>3, <1>4 DEF IsInjective

LEMMA TurnKeepsWalk ==
  ASSUME NEW l \in Seq(Key), NEW r \in Seq(Key), IsInjective(l), NEW w, Walked(l, r, w)
  PROVE  /\ Walked(l, r, Turn(l, r, w))
         /\ \/ w.i = Len(l) + 1 /\ w.j = Len(r) + 1 /\ Turn(l, r, w) = w
            \/ Turn(l, r, w).i + Turn(l, r, w).j > w.i + w.j
<1> DEFINE n == Len(l)
           m == Len(r)
           dp == Lcs(l, r)
           i == w.i
           j == w.j
           v == Turn(l, r, w)
<1>1. /\ n \in Nat /\ m \in Nat /\ i \in 1..(n + 1) /\ j \in 1..(m + 1) /\ w.rows \in Seq(RowSet)
      /\ w = [i |-> i, j |-> j, rows |-> w.rows]
  BY DEF Walked, Walks
<1>2. \A x \in 1..(n + 1), y \in 1..(m + 1) : dp[<<x, y>>] \in Nat
  BY LcsAt
<1>3. dp[<<i, j>>] = IF i > n \/ j > m THEN 0
                     ELSE IF l[i] = r[j] THEN dp[<<i + 1, j + 1>>] + 1
                     ELSE IF dp[<<i + 1, j>>] >= dp[<<i, j + 1>>] THEN dp[<<i + 1, j>>]
                     ELSE dp[<<i, j + 1>>]
  BY <1>1, LcsAt
<1>4. /\ i <= n => i + 1 \in 1..(n + 1) /\ i \in DOMAIN l /\ l[i] \in Key /\ l[i] # None
      /\ j <= m => j + 1 \in 1..(m + 1) /\ j \in DOMAIN r /\ r[j] \in Key /\ r[j] # None
  BY <1>1, MergeAssumption
<1>5. /\ Filled(Column(w.rows, "leftKey"), l, i - 1)
      /\ Filled(Column(w.rows, "rightKey"), r, j - 1)
      /\ i - 1 \in Nat /\ j - 1 \in Nat /\ (i - 1) + 1 = i /\ (j - 1) + 1 = j
      /\ Column(w.rows, "leftKey") \in Column0 /\ Column(w.rows, "rightKey") \in Column0
  BY <1>1, ColumnType DEF Walked
<1>6. /\ IsFiniteSet(Paired(w.rows)) /\ Cardinality(Paired(w.rows)) \in Nat
      /\ Cardinality(Paired(w.rows)) + dp[<<i, j>>] = dp[<<1, 1>>]
  BY FS_CardinalityType DEF Walked
<1>3a. /\ \A x \in 1..(n + 1) : dp[<<x, m + 1>>] = 0
       /\ \A y \in 1..(m + 1) : dp[<<n + 1, y>>] = 0
  <2>1. n + 1 \in 1..(n + 1) /\ n + 1 > n /\ m + 1 \in 1..(m + 1) /\ m + 1 > m
    BY <1>1
  <2>2. ASSUME NEW x \in 1..(n + 1), NEW y \in 1..(m + 1), x > n \/ y > m
        PROVE  dp[<<x, y>>] = 0
    BY <2>2, LcsEdge
  <2> HIDE DEF dp, n, m
  <2> QED
    BY <2>1, <2>2
<1> HIDE DEF dp, i, j, n, m
<1>7. CASE BothDue(l, r, w)
  <2> DEFINE e == Row(l[i], r[j])
             rows == Append(w.rows, e)
  <2>1. i <= n /\ j <= m /\ l[i] = r[j]
    BY <1>7 DEF BothDue, i, j, n, m
  <2>2. v = [i |-> i + 1, j |-> j + 1, rows |-> rows]
    BY <1>7 DEF Turn, i, j
  <2>3. e \in RowSet /\ e.leftKey = l[i] /\ e.rightKey = r[j]
    BY <1>4, <2>1 DEF Row, RowSet
  <2>4. Filled(Column(rows, "leftKey"), l, i) /\ Filled(Column(rows, "rightKey"), r, j)
    <3>1. /\ Column(rows, "leftKey") = Append(Column(w.rows, "leftKey"), l[i])
          /\ Column(rows, "rightKey") = Append(Column(w.rows, "rightKey"), r[j])
      BY <1>1, <2>3, ColumnOfAppend
    <3>2. i \in Nat \ {0} /\ j \in Nat \ {0}
      BY <1>1
    <3>3. Filled(Append(Column(w.rows, "leftKey"), l[i]), l, i)
      BY <1>5, <3>2, FilledByNext
    <3>4. Filled(Append(Column(w.rows, "rightKey"), r[j]), r, j)
      BY <1>5, <3>2, FilledByNext
    <3> QED
      BY <3>1, <3>3, <3>4
  <2>5. e \notin Paired(w.rows)
    BY <2>1, <2>3, NewRow DEF Paired, i, n
  <2>6. Paired(rows) = Paired(w.rows) \cup {e} /\ \A u \in ToSet(rows) : Shaped(u)
    <3>1. Shaped(e) /\ e.leftKey # None /\ e.rightKey # None
      BY <1>4, <2>1, <2>3 DEF Shaped
    <3> HIDE DEF e
    <3> QED
      BY <1>1, <2>3, <3>1, PairedOfAppend DEF Walked
  <2>7. /\ IsFiniteSet(Paired(rows)) /\ Cardinality(Paired(rows)) = Cardinality(Paired(w.rows)) + 1
    BY <1>6, <2>5, <2>6, FS_AddElement
  <2>8. dp[<<i + 1, j + 1>>] \in Nat /\ dp[<<i, j>>] = dp[<<i + 1, j + 1>>] + 1
    BY <1>1, <1>2, <1>3, <1>4, <2>1
  <2>9. rows \in Seq(RowSet)
    BY <1>1, <2>3
  <2> HIDE DEF e, rows
  <2>10. Walked(l, r, [i |-> i + 1, j |-> j + 1, rows |-> rows])
    <3>1. (i + 1) - 1 = i /\ (j + 1) - 1 = j /\ i + 1 \in Nat \ {0} /\ j + 1 \in Nat \ {0}
      BY <1>1
    <3>2. i + 1 <= n + 1 /\ j + 1 <= m + 1
      BY <1>1, <2>1
    <3>3. Cardinality(Paired(rows)) + dp[<<i + 1, j + 1>>] = dp[<<1, 1>>]
      BY <1>6, <2>7, <2>8
    <3> QED
      BY <2>4, <2>6, <2>7, <2>9, <3>1, <3>2, <3>3 DEF Walked, Walks, dp, n, m
  <2> QED
    BY <1>1, <2>2, <2>10 DEF i, j
<1>8. CASE ~BothDue(l, r, w) /\ LeftDue(l, r, w)
  <2> DEFINE e == Row(l[i], None)
             rows == Append(w.rows, e)
  <2>1. i <= n /\ (j <= m => dp[<<i + 1, j>>] >= dp[<<i, j + 1>>]) /\ ~(j <= m /\ l[i] = r[j])
    BY <1>8 DEF BothDue, LeftDue, i, j, n, m, dp
  <2>2. v = [i |-> i + 1, j |-> j, rows |-> rows]
    BY <1>1, <1>8 DEF Turn, i, j
  <2>3. e \in RowSet /\ e.leftKey = l[i] /\ e.rightKey = None /\ None \in Key \cup {None}
    BY <1>4, <2>1 DEF Row, RowSet
  <2>4. Filled(Column(rows, "leftKey"), l, i) /\ Filled(Column(rows, "rightKey"), r, j - 1)
    <3>1. /\ Column(rows, "leftKey") = Append(Column(w.rows, "leftKey"), l[i])
          /\ Column(rows, "rightKey") = Append(Column(w.rows, "rightKey"), None)
      BY <1>1, <2>3, ColumnOfAppend
    <3>2. i \in Nat \ {0}
      BY <1>1
    <3>3. Filled(Append(Column(w.rows, "leftKey"), l[i]), l, i)
      BY <1>5, <3>2, FilledByNext
    <3>4. Filled(Append(Column(w.rows, "rightKey"), None), r, j - 1)
      BY <1>5, FilledByNone
    <3> QED
      BY <3>1, <3>3, <3>4
  <2>6. Paired(rows) = Paired(w.rows) /\ \A u \in ToSet(rows) : Shaped(u)
    <3>1. Shaped(e) /\ e.leftKey # None /\ e.rightKey = None
      BY <1>4, <2>1, <2>3 DEF Shaped
    <3> HIDE DEF e
    <3> QED
      BY <1>1, <2>3, <3>1, PairedOfAppend DEF Walked
  <2>8. dp[<<i + 1, j>>] \in Nat /\ dp[<<i, j>>] = dp[<<i + 1, j>>]
    <3>1. dp[<<i + 1, j>>] \in Nat /\ i + 1 \in 1..(n + 1)
      BY <1>1, <1>2, <1>4, <2>1
    <3>2. CASE j <= m
      BY <1>1, <1>3, <2>1, <3>1, <3>2
    <3>3. CASE ~(j <= m)
      <4>1. dp[<<i + 1, j>>] = 0
        <5>1. j = m + 1
          BY <1>1, <3>3
        <5> QED
          BY <1>3a, <3>1, <5>1
      <4> QED
        BY <1>1, <1>3, <3>1, <3>3, <4>1
    <3> QED
      BY <3>2, <3>3
  <2>9. rows \in Seq(RowSet)
    BY <1>1, <2>3
  <2> HIDE DEF e, rows
  <2>10. Walked(l, r, [i |-> i + 1, j |-> j, rows |-> rows])
    <3>1. (i + 1) - 1 = i /\ i + 1 \in Nat \ {0} /\ j \in Nat \ {0}
      <4>1. i \in Nat /\ j \in Nat /\ i # 0 /\ j # 0
        BY <1>1
      <4> QED
        BY <4>1
    <3>2. i + 1 <= n + 1 /\ j <= m + 1
      BY <1>1, <2>1
    <3>3. /\ Cardinality(Paired(rows)) + dp[<<i + 1, j>>] = dp[<<1, 1>>]
          /\ IsFiniteSet(Paired(rows))
      BY <1>6, <2>6, <2>8
    <3> QED
      BY <2>4, <2>6, <2>9, <3>1, <3>2, <3>3 DEF Walked, Walks, dp, n, m
  <2> QED
    BY <1>1, <2>2, <2>10 DEF i, j
<1>9. CASE ~BothDue(l, r, w) /\ ~LeftDue(l, r, w) /\ j <= m
  <2> DEFINE e == Row(None, r[j])
             rows == Append(w.rows, e)
  <2>1. j <= m /\ ~(i <= n /\ l[i] = r[j]) /\ (i <= n => ~(dp[<<i + 1, j>>] >= dp[<<i, j + 1>>]))
    BY <1>9 DEF BothDue, LeftDue, i, j, n, m, dp
  <2>2. v = [i |-> i, j |-> j + 1, rows |-> rows]
    BY <1>1, <1>9 DEF Turn, i, j, m
  <2>3. e \in RowSet /\ e.leftKey = None /\ e.rightKey = r[j] /\ None \in Key \cup {None}
    BY <1>4, <2>1 DEF Row, RowSet
  <2>4. Filled(Column(rows, "leftKey"), l, i - 1) /\ Filled(Column(rows, "rightKey"), r, j)
    <3>1. /\ Column(rows, "leftKey") = Append(Column(w.rows, "leftKey"), None)
          /\ Column(rows, "rightKey") = Append(Column(w.rows, "rightKey"), r[j])
      BY <1>1, <2>3, ColumnOfAppend
    <3>2. j \in Nat \ {0}
      BY <1>1
    <3>3. Filled(Append(Column(w.rows, "leftKey"), None), l, i - 1)
      BY <1>5, FilledByNone
    <3>4. Filled(Append(Column(w.rows, "rightKey"), r[j]), r, j)
      BY <1>5, <3>2, FilledByNext
    <3> QED
      BY <3>1, <3>3, <3>4
  <2>6. Paired(rows) = Paired(w.rows) /\ \A u \in ToSet(rows) : Shaped(u)
    <3>1. Shaped(e) /\ e.leftKey = None /\ e.rightKey # None
      BY <1>4, <2>1, <2>3 DEF Shaped
    <3> HIDE DEF e
    <3> QED
      BY <1>1, <2>3, <3>1, PairedOfAppend DEF Walked
  <2>8. dp[<<i, j + 1>>] \in Nat /\ dp[<<i, j>>] = dp[<<i, j + 1>>]
    <3>1. dp[<<i, j + 1>>] \in Nat /\ j + 1 \in 1..(m + 1)
      BY <1>1, <1>2, <1>4, <2>1
    <3>2. CASE i <= n
      BY <1>1, <1>3, <2>1, <3>1, <3>2
    <3>3. CASE ~(i <= n)
      <4>1. dp[<<i, j + 1>>] = 0
        <5>1. i = n + 1
          BY <1>1, <3>3
        <5> QED
          BY <1>3a, <3>1, <5>1
      <4> QED
        BY <1>1, <1>3, <3>1, <3>3, <4>1
    <3> QED
      BY <3>2, <3>3
  <2>9. rows \in Seq(RowSet)
    BY <1>1, <2>3
  <2> HIDE DEF e, rows
  <2>10. Walked(l, r, [i |-> i, j |-> j + 1, rows |-> rows])
    <3>1. (j + 1) - 1 = j /\ j + 1 \in Nat \ {0} /\ i \in Nat \ {0}
      <4>1. i \in Nat /\ j \in Nat /\ i # 0 /\ j # 0
        BY <1>1
      <4> QED
        BY <4>1
    <3>2. i <= n + 1 /\ j + 1 <= m + 1
      BY <1>1, <2>1
    <3>3. /\ Cardinality(Paired(rows)) + dp[<<i, j + 1>>] = dp[<<1, 1>>]
          /\ IsFiniteSet(Paired(rows))
      BY <1>6, <2>6, <2>8
    <3> QED
      BY <2>4, <2>6, <2>9, <3>1, <3>2, <3>3 DEF Walked, Walks, dp, n, m
  <2> QED
    BY <1>1, <2>2, <2>10 DEF i, j
<1>10. CASE ~BothDue(l, r, w) /\ ~LeftDue(l, r, w) /\ ~(j <= m)
  <2>1. v = w
    BY <1>10 DEF Turn, j, m
  <2>2. i = n + 1 /\ j = m + 1
    BY <1>1, <1>10 DEF LeftDue, i, j, n, m
  <2> QED
    BY <2>1, <2>2 DEF i, j, n, m
<1> QED
  BY <1>7, <1>8, <1>9, <1>10

(* The loops end with every key listed on both sides.                      *)
LEMMA AlignIsWalked ==
  ASSUME NEW l \in Seq(Key), NEW r \in Seq(Key), IsInjective(l)
  PROVE  Walked(l, r, [i |-> Len(l) + 1, j |-> Len(r) + 1, rows |-> Align(l, r)])
<1> DEFINE N == Len(l) + Len(r)
           S == {w \in Walks : Walked(l, r, w)}
           H == [q \in S \X (1..N) |-> Turn(l, r, q[1])]
           W(k, w) == Walked(l, r, w) /\ (w.i + w.j >= k + 2 \/ (w.i = Len(l) + 1 /\ w.j = Len(r) + 1))
<1>1. Len(l) \in Nat /\ Len(r) \in Nat /\ N \in Nat
  OBVIOUS
<1>2. Begin \in Walks /\ Begin.i + Begin.j = 2 /\ Walked(l, r, Begin)
  <2>1. Begin = [i |-> 1, j |-> 1, rows |-> <<>>] /\ Begin.rows = <<>> /\ <<>> \in Seq(RowSet)
    BY DEF Begin
  <2>2. Filled(Column(<<>>, "leftKey"), l, 0) /\ Filled(Column(<<>>, "rightKey"), r, 0)
    BY DEF Filled, Column
  <2>3. ToSet(<<>>) = {} /\ Paired(<<>>) = {}
    BY DEF ToSet, Paired
  <2>4. IsFiniteSet({}) /\ Cardinality({}) = 0
    BY FS_EmptySet
  <2>5. Lcs(l, r)[<<1, 1>>] \in Nat
    <3>1. <<1, 1>> \in Cells(l, r)
      BY <1>1 DEF Cells
    <3> QED
      BY <3>1, LcsUnfolds
  <2>6. Begin \in Walks /\ Begin.i = 1 /\ Begin.j = 1
    BY <2>1 DEF Walks
  <2>7. 1 <= Len(l) + 1 /\ 1 <= Len(r) + 1 /\ 1 - 1 = 0 /\ 1 + 1 = 2
    BY <1>1
  <2>8. Cardinality(Paired(<<>>)) + Lcs(l, r)[<<1, 1>>] = Lcs(l, r)[<<1, 1>>]
    <3>1. Cardinality(Paired(<<>>)) = 0
      BY <2>3, <2>4
    <3>2. \A c \in Nat : 0 + c = c
      OBVIOUS
    <3> QED
      BY <2>5, <3>1, <3>2
  <2> QED
    BY <2>1, <2>2, <2>3, <2>4, <2>6, <2>7, <2>8 DEF Walked
<1>3. \A w \in S : Turn(l, r, w) \in S
  BY TurnKeepsWalk DEF Walked
<1>4. H \in [S \X (1..N) -> S]
  BY <1>3
<1>5. PICK f \in [0..N -> S] : f[0] = Begin /\ \A k \in 1..N : f[k] = H[<<f[k - 1], k>>]
  <2>1. Begin \in S
    BY <1>2
  <2>2. Iterable(S, N, Begin, H)
    <3> HIDE DEF S, H, N
    <3> QED
      BY <1>1, <1>4, <2>1, StepByStep
  <2> HIDE DEF S, H, N
  <2> QED
    BY <2>2 DEF Iterable
<1> DEFINE walk == CHOOSE w : w = [k \in 0..N |-> IF k = 0 THEN Begin ELSE Turn(l, r, w[k - 1])]
<1>6. walk = [k \in 0..N |-> IF k = 0 THEN Begin ELSE Turn(l, r, walk[k - 1])]
  <2>1. \A k \in 1..N : f[k] = Turn(l, r, f[k - 1])
    <3>1. \A k \in 1..N : k - 1 \in 0..N /\ <<f[k - 1], k>> \in S \X (1..N)
      BY <1>1
    <3> HIDE DEF S, N
    <3> QED
      BY <1>5, <3>1
  <2>2. f = [k \in 0..N |-> IF k = 0 THEN Begin ELSE Turn(l, r, f[k - 1])]
    <3>1. \A k \in 0..N : k = 0 \/ k \in 1..N
      BY <1>1
    <3> HIDE DEF S, N, H
    <3> QED
      BY <1>5, <2>1, <3>1
  <2> QED
    BY <2>2
<1>7. walk[0] = Begin /\ \A k \in 0..(N - 1) : walk[k + 1] = Turn(l, r, walk[k])
  <2>1. 0 \in 0..N /\ \A k \in 0..(N - 1) : k + 1 \in 0..N /\ k + 1 # 0 /\ (k + 1) - 1 = k
    BY <1>1
  <2> HIDE DEF walk, N
  <2> QED
    BY <1>6, <2>1
<1> HIDE DEF walk
<1>8. W(N, walk[N])
  <2> DEFINE T == {k \in Nat : W(k, walk[k])}
  <2>1. 0 \in T
    <3> HIDE DEF walk
    <3> QED
      BY <1>2, <1>7
  <2>2. ASSUME NEW k \in 0..(N - 1), k \in T PROVE k + 1 \in T
    <3>1. Walked(l, r, walk[k]) /\ walk[k + 1] = Turn(l, r, walk[k])
      BY <1>7, <2>2
    <3>2. walk[k] \in Walks /\ walk[k + 1] \in Walks /\ Walked(l, r, walk[k + 1])
      BY <3>1, TurnKeepsWalk DEF Walked
    <3>3. /\ walk[k].i \in Nat /\ walk[k].j \in Nat /\ walk[k + 1].i \in Nat /\ walk[k + 1].j \in Nat
          /\ k \in Nat
      BY <3>2 DEF Walks
    <3>4. \/ walk[k].i = Len(l) + 1 /\ walk[k].j = Len(r) + 1 /\ walk[k + 1] = walk[k]
          \/ walk[k + 1].i + walk[k + 1].j > walk[k].i + walk[k].j
      BY <3>1, TurnKeepsWalk
    <3>5. \/ walk[k].i + walk[k].j >= k + 2
          \/ walk[k].i = Len(l) + 1 /\ walk[k].j = Len(r) + 1
      BY <2>2
    <3>6. walk[k + 1].i <= Len(l) + 1 /\ walk[k + 1].j <= Len(r) + 1
      BY <3>2 DEF Walked
    <3> HIDE DEF walk, N
    <3>7. \/ walk[k + 1].i + walk[k + 1].j >= (k + 1) + 2
          \/ walk[k + 1].i = Len(l) + 1 /\ walk[k + 1].j = Len(r) + 1
      <4>1. CASE walk[k].i = Len(l) + 1 /\ walk[k].j = Len(r) + 1 /\ walk[k + 1] = walk[k]
        BY <4>1
      <4>2. CASE walk[k + 1].i + walk[k + 1].j > walk[k].i + walk[k].j
        <5>1. CASE walk[k].i + walk[k].j >= k + 2
          BY <3>3, <4>2, <5>1
        <5>2. CASE walk[k].i = Len(l) + 1 /\ walk[k].j = Len(r) + 1
          BY <1>1, <3>3, <3>6, <4>2, <5>2
        <5> QED
          BY <3>5, <5>1, <5>2
      <4> QED
        BY <3>4, <4>1, <4>2
    <3>8. W(k + 1, walk[k + 1])
      BY <3>2, <3>7
    <3> QED
      BY <3>3, <3>8
  <2> HIDE DEF T, N
  <2>3. 0..N \subseteq T
    BY <1>1, <2>1, <2>2, UpTo
  <2>4. N \in T
    BY <1>1, <2>3
  <2> QED
    BY <2>4 DEF T
<1>9. Align(l, r) = walk[N].rows
  BY DEF Align, walk
<1>10. walk[N] = [i |-> Len(l) + 1, j |-> Len(r) + 1, rows |-> walk[N].rows]
  <2> HIDE DEF walk
  <2>1. walk[N] \in Walks /\ walk[N].i <= Len(l) + 1 /\ walk[N].j <= Len(r) + 1
    BY <1>8 DEF Walked
  <2>2. walk[N].i \in Nat /\ walk[N].j \in Nat
    BY <2>1 DEF Walks
  <2>3. walk[N].i = Len(l) + 1 /\ walk[N].j = Len(r) + 1
    BY <1>1, <1>8, <2>1, <2>2
  <2> HIDE DEF N
  <2> QED
    BY <2>1, <2>3 DEF Walks
<1> HIDE DEF walk
<1> QED
  BY <1>8, <1>9, <1>10

-----------------------------------------------------------------------------
(* The rows of two objects.                                                *)

IsDoc(d) == d \in Seq(Entry) /\ IsObject(d)

LEMMA KeysOfDoc ==
  ASSUME NEW d, IsDoc(d)
  PROVE  /\ Keys(d) \in Seq(Key) /\ IsInjective(Keys(d)) /\ Len(Keys(d)) = Len(d)
         /\ DOMAIN Keys(d) = DOMAIN d /\ DOMAIN d = 1..Len(d) /\ Len(d) \in Nat
         /\ \A i \in DOMAIN d : Keys(d)[i] = d[i].key /\ d[i] \in Entry /\ d[i].key \in Key
         /\ KeySet(d) = {d[i].key : i \in DOMAIN d}
         /\ KeySet(d) \subseteq Key /\ None \notin KeySet(d) /\ IsFiniteSet(KeySet(d))
<1>1. d \in Seq(Entry) /\ IsInjective(Keys(d))
  BY DEF IsDoc, IsObject
<1>2. \A i \in DOMAIN d : d[i] \in Entry /\ d[i].key \in Key
  <2>1. \A e \in Entry : e.key \in Key
    BY DEF Entry
  <2>2. \A i \in DOMAIN d : d[i] \in Entry
    BY <1>1
  <2> QED
    BY <2>1, <2>2
<1>3. Len(d) \in Nat /\ DOMAIN d = 1..Len(d)
  BY <1>1
<1>4. Keys(d) \in Seq(Key) /\ Len(Keys(d)) = Len(d) /\ DOMAIN Keys(d) = DOMAIN d
  BY <1>1, <1>2, <1>3 DEF Keys
<1>5. \A i \in DOMAIN d : Keys(d)[i] = d[i].key
  BY DEF Keys
<1>6. KeySet(d) = {d[i].key : i \in DOMAIN d}
  BY <1>4, <1>5 DEF KeySet, ToSet
<1>7. KeySet(d) \subseteq Key /\ None \notin KeySet(d)
  BY <1>2, <1>6, MergeAssumption
<1>8. IsFiniteSet(KeySet(d))
  <2> DEFINE f == [i \in 1..Len(d) |-> d[i].key]
  <2>1. f \in Surjection(1..Len(d), KeySet(d))
    BY <1>3, <1>6 DEF Surjection
  <2>2. IsFiniteSet(1..Len(d))
    BY <1>3, FS_Interval
  <2> HIDE DEF f
  <2> QED
    BY <2>1, <2>2, FS_Surjection
<1> QED
  BY <1>1, <1>2, <1>3, <1>4, <1>5, <1>6, <1>7, <1>8

LEMMA FilledLists ==
  ASSUME NEW col \in Column0, NEW ks \in Seq(Key), Filled(col, ks, Len(ks))
  PROVE  Lists(col, ks)
<1>1. DOMAIN ks = 1..Len(ks) /\ None \notin ToSet(ks)
  BY MergeAssumption DEF ToSet
<1>2. ToSet(col) \ {None} = ToSet(ks)
  <2>1. \A x \in DOMAIN ks : \E p \in DOMAIN col : col[p] = ks[x]
    BY <1>1 DEF Filled
  <2>2. \A p \in DOMAIN col : col[p] = None \/ \E x \in DOMAIN ks : col[p] = ks[x]
    BY <1>1 DEF Filled
  <2> QED
    BY <1>1, <2>1, <2>2 DEF ToSet
<1>3. \A p, q \in DOMAIN col :
        p < q /\ col[p] # None /\ col[q] # None =>
          \E x, y \in DOMAIN ks : x < y /\ col[p] = ks[x] /\ col[q] = ks[y]
  <2> SUFFICES ASSUME NEW p \in DOMAIN col, NEW q \in DOMAIN col,
                      p < q, col[p] # None, col[q] # None
               PROVE  \E x, y \in DOMAIN ks : x < y /\ col[p] = ks[x] /\ col[q] = ks[y]
    OBVIOUS
  <2>1. PICK x \in 1..Len(ks), y \in 1..Len(ks) : x < y /\ col[p] = ks[x] /\ col[q] = ks[y]
    BY DEF Filled
  <2> QED
    BY <1>1, <2>1
<1> QED
  BY <1>2, <1>3 DEF Lists

LEMMA RowsList ==
  ASSUME NEW l, NEW r, IsDoc(l), IsDoc(r)
  PROVE  /\ Rows(l, r) \in Seq(RowSet)
         /\ Lists(Column(Rows(l, r), "leftKey"), Keys(l))
         /\ Lists(Column(Rows(l, r), "rightKey"), Keys(r))
         /\ \A w \in ToSet(Rows(l, r)) : Shaped(w)
         /\ IsFiniteSet(Common(l, r))
         /\ Cardinality(Common(l, r)) = Lcs(Keys(l), Keys(r))[<<1, 1>>]
<1> DEFINE n == Len(Keys(l))
           m == Len(Keys(r))
           w == [i |-> n + 1, j |-> m + 1, rows |-> Rows(l, r)]
           dp == Lcs(Keys(l), Keys(r))
<1>1. Keys(l) \in Seq(Key) /\ Keys(r) \in Seq(Key) /\ IsInjective(Keys(l)) /\ n \in Nat /\ m \in Nat
  BY KeysOfDoc
<1>2. Walked(Keys(l), Keys(r), w)
  BY <1>1, AlignIsWalked DEF Rows
<1>3. w.i = n + 1 /\ w.j = m + 1 /\ w.rows = Rows(l, r) /\ (n + 1) - 1 = n /\ (m + 1) - 1 = m
  BY <1>1
<1>4. Rows(l, r) \in Seq(RowSet)
  BY <1>2, <1>3 DEF Walked, Walks
<1>5. /\ Filled(Column(Rows(l, r), "leftKey"), Keys(l), n)
      /\ Filled(Column(Rows(l, r), "rightKey"), Keys(r), m)
      /\ \A v \in ToSet(Rows(l, r)) : Shaped(v)
      /\ IsFiniteSet(Paired(Rows(l, r)))
      /\ Cardinality(Paired(Rows(l, r))) + dp[<<n + 1, m + 1>>] = dp[<<1, 1>>]
  BY <1>2, <1>3 DEF Walked
<1>6. /\ Lists(Column(Rows(l, r), "leftKey"), Keys(l))
      /\ Lists(Column(Rows(l, r), "rightKey"), Keys(r))
  BY <1>1, <1>4, <1>5, ColumnType, FilledLists
<1>7. Common(l, r) = Paired(Rows(l, r))
  BY DEF Common, Paired
<1>8. dp[<<n + 1, m + 1>>] = 0
  <2>1. n + 1 \in 1..(n + 1) /\ m + 1 \in 1..(m + 1) /\ n + 1 > n
    BY <1>1
  <2>2. ASSUME NEW x \in 1..(n + 1), NEW y \in 1..(m + 1), x > n \/ y > m
        PROVE  dp[<<x, y>>] = 0
    BY <1>1, <2>2, LcsEdge
  <2> HIDE DEF dp, n, m
  <2> QED
    BY <2>1, <2>2
<1>9. Cardinality(Common(l, r)) = dp[<<1, 1>>]
  <2>1. Cardinality(Paired(Rows(l, r))) \in Nat
    BY <1>5, FS_CardinalityType
  <2> HIDE DEF dp, n, m
  <2> QED
    BY <1>5, <1>7, <1>8, <2>1
<1> QED
  BY <1>4, <1>5, <1>6, <1>7, <1>9

LEMMA IndexOfKey ==
  ASSUME NEW d, IsDoc(d), NEW k
  PROVE  /\ IndexOf(d, k) \in Nat
         /\ k \in KeySet(d) => /\ IndexOf(d, k) \in DOMAIN d /\ d[IndexOf(d, k)].key = k
                               /\ \A i \in DOMAIN d : d[i].key = k => i = IndexOf(d, k)
         /\ k \notin KeySet(d) => IndexOf(d, k) = 0
<1> DEFINE I == {i \in 1..Len(d) : d[i].key = k}
<1>1. IndexOf(d, k) = IF I # {} THEN Min(I) ELSE 0
  BY DEF IndexOf, SelectInSeq
<1>2. DOMAIN d = 1..Len(d) /\ k \in KeySet(d) <=> I # {}
  BY KeysOfDoc
<1>3. \A i, j \in I : i = j
  <2> SUFFICES ASSUME NEW i \in I, NEW j \in I PROVE i = j
    OBVIOUS
  <2>1. i \in DOMAIN Keys(d) /\ j \in DOMAIN Keys(d) /\ Keys(d)[i] = Keys(d)[j]
    BY KeysOfDoc
  <2> QED
    BY <2>1, KeysOfDoc DEF IsInjective
<1>4. \A i \in I : i \in Nat
  OBVIOUS
<1>5. I # {} => Min(I) \in I
  <2> SUFFICES ASSUME NEW i \in I PROVE Min(I) \in I
    OBVIOUS
  <2>1. \A j \in I : i <= j
    BY <1>3
  <2> HIDE DEF I
  <2> QED
    BY <2>1 DEF Min
<1>6. CASE I # {}
  <2>1. IndexOf(d, k) \in I
    BY <1>1, <1>5, <1>6
  <2> QED
    BY <1>2, <1>3, <1>6, <2>1, KeysOfDoc
<1>7. CASE I = {}
  BY <1>1, <1>2, <1>7, KeysOfDoc
<1> QED
  BY <1>6, <1>7

(* No set of common keys that both documents have in the same order has    *)
(* more keys than the table counts.                                        *)
LEMMA LcsIsMost ==
  ASSUME NEW l, NEW r, IsDoc(l), IsDoc(r),
         NEW ks \in SUBSET (KeySet(l) \cap KeySet(r)), InStep(l, r, ks)
  PROVE  Cardinality(ks) <= Lcs(Keys(l), Keys(r))[<<1, 1>>]
<1> DEFINE n == Len(Keys(l))
           m == Len(Keys(r))
           dp == Lcs(Keys(l), Keys(r))
           From(K, i, j) == \A x \in K : IndexOf(l, x) >= i /\ IndexOf(r, x) >= j
           Bounded(i, j) == \A K \in SUBSET ks : From(K, i, j) => Cardinality(K) <= dp[<<i, j>>]
           Upto(k) == \A i \in 1..(n + 1), j \in 1..(m + 1) :
                        (n + 1 - i) + (m + 1 - j) <= k => Bounded(i, j)
<1>1. /\ n \in Nat /\ m \in Nat /\ Keys(l) \in Seq(Key) /\ Keys(r) \in Seq(Key)
      /\ DOMAIN l = 1..n /\ DOMAIN r = 1..m
      /\ \A i \in 1..n : Keys(l)[i] = l[i].key
      /\ \A j \in 1..m : Keys(r)[j] = r[j].key
  BY KeysOfDoc
<1>2. \A x \in ks :
        /\ IndexOf(l, x) \in 1..n /\ \A i \in 1..n : Keys(l)[i] = x <=> i = IndexOf(l, x)
        /\ IndexOf(r, x) \in 1..m /\ \A j \in 1..m : Keys(r)[j] = x <=> j = IndexOf(r, x)
  BY <1>1, IndexOfKey
<1>3. \A K \in SUBSET ks : IsFiniteSet(K) /\ Cardinality(K) \in Nat
  <2>1. IsFiniteSet(KeySet(l) \cap KeySet(r))
    BY KeysOfDoc, FS_Intersection
  <2> QED
    BY <2>1, FS_Subset, FS_CardinalityType
<1>4. ASSUME NEW i \in 1..(n + 1), NEW j \in 1..(m + 1)
      PROVE  /\ dp[<<i, j>>] \in Nat
             /\ i > n \/ j > m => dp[<<i, j>>] = 0
             /\ i <= n /\ j <= m =>
                  dp[<<i, j>>] =
                    IF Keys(l)[i] = Keys(r)[j] THEN dp[<<i + 1, j + 1>>] + 1
                    ELSE IF dp[<<i + 1, j>>] >= dp[<<i, j + 1>>] THEN dp[<<i + 1, j>>]
                    ELSE dp[<<i, j + 1>>]
  <2>1. Keys(l) \in Seq(Key) /\ Keys(r) \in Seq(Key)
    BY <1>1
  <2> DEFINE L == Keys(l)
             R == Keys(r)
  <2>2. i \in 1..(Len(L) + 1) /\ j \in 1..(Len(R) + 1) /\ L \in Seq(Key) /\ R \in Seq(Key)
    BY <2>1
  <2> HIDE DEF L, R, From, Bounded, Upto
  <2>3. /\ Lcs(L, R)[<<i, j>>] \in Nat
        /\ i > Len(L) \/ j > Len(R) => Lcs(L, R)[<<i, j>>] = 0
        /\ i <= Len(L) /\ j <= Len(R) =>
             Lcs(L, R)[<<i, j>>] =
               IF L[i] = R[j] THEN Lcs(L, R)[<<i + 1, j + 1>>] + 1
               ELSE IF Lcs(L, R)[<<i + 1, j>>] >= Lcs(L, R)[<<i, j + 1>>] THEN Lcs(L, R)[<<i + 1, j>>]
               ELSE Lcs(L, R)[<<i, j + 1>>]
    BY <2>2, LcsAt
  <2> QED
    BY <2>3 DEF L, R
<1> HIDE DEF dp, n, m
<1>5. ASSUME NEW i \in 1..(n + 1), NEW j \in 1..(m + 1), i > n \/ j > m
      PROVE  Bounded(i, j)
  <2> SUFFICES ASSUME NEW K \in SUBSET ks, From(K, i, j) PROVE Cardinality(K) <= dp[<<i, j>>]
    OBVIOUS
  <2>1. K = {}
    BY <1>1, <1>2, <1>5
  <2>2. Cardinality(K) = 0 /\ dp[<<i, j>>] \in Nat
    BY <1>4, <2>1, FS_EmptySet
  <2> QED
    BY <2>2
<1>6. ASSUME NEW i \in 1..n, NEW j \in 1..m, Keys(l)[i] = Keys(r)[j], Bounded(i + 1, j + 1)
      PROVE  Bounded(i, j)
  <2> SUFFICES ASSUME NEW K \in SUBSET ks, From(K, i, j) PROVE Cardinality(K) <= dp[<<i, j>>]
    OBVIOUS
  <2> DEFINE x == Keys(l)[i]
             L == K \ {x}
  <2>1. From(L, i + 1, j + 1)
    <3> SUFFICES ASSUME NEW y \in L PROVE IndexOf(l, y) >= i + 1 /\ IndexOf(r, y) >= j + 1
      OBVIOUS
    <3>1. IndexOf(l, y) # i /\ IndexOf(r, y) # j
      BY <1>2, <1>6
    <3>2. IndexOf(l, y) \in Nat /\ IndexOf(r, y) \in Nat /\ IndexOf(l, y) >= i /\ IndexOf(r, y) >= j
      BY <1>1, <1>2
    <3> QED
      BY <1>1, <3>1, <3>2
  <2>2. Cardinality(L) <= dp[<<i + 1, j + 1>>]
    BY <1>6, <2>1
  <2>3. Cardinality(K) <= Cardinality(L) + 1
    <3>1. IsFiniteSet(K) /\ Cardinality(K) \in Nat
      BY <1>3
    <3>2. Cardinality(L) = IF x \in K THEN Cardinality(K) - 1 ELSE Cardinality(K)
      BY <3>1, FS_RemoveElement
    <3> QED
      BY <3>1, <3>2
  <2>4. dp[<<i, j>>] = dp[<<i + 1, j + 1>>] + 1 /\ dp[<<i + 1, j + 1>>] \in Nat
    <3>1. /\ i \in 1..(n + 1) /\ j \in 1..(m + 1) /\ i + 1 \in 1..(n + 1) /\ j + 1 \in 1..(m + 1)
          /\ i <= n /\ j <= m
      BY <1>1
    <3> QED
      BY <1>4, <1>6, <3>1
  <2>5. Cardinality(K) \in Nat /\ Cardinality(L) \in Nat
    BY <1>3
  <2> QED
    BY <2>2, <2>3, <2>4, <2>5
<1>7. ASSUME NEW i \in 1..n, NEW j \in 1..m, Keys(l)[i] # Keys(r)[j],
             Bounded(i + 1, j), Bounded(i, j + 1)
      PROVE  Bounded(i, j)
  <2> SUFFICES ASSUME NEW K \in SUBSET ks, From(K, i, j) PROVE Cardinality(K) <= dp[<<i, j>>]
    OBVIOUS
  <2>1. \A x \in K : IndexOf(l, x) \in Nat /\ IndexOf(r, x) \in Nat /\ IndexOf(l, x) >= i /\ IndexOf(r, x) >= j
    BY <1>1, <1>2
  <2>2. From(K, i + 1, j) \/ From(K, i, j + 1)
    <3> SUFFICES ASSUME NEW y \in K, ~(IndexOf(l, y) >= i + 1),
                        NEW z \in K, ~(IndexOf(r, z) >= j + 1)
                 PROVE  FALSE
      BY <2>1
    <3>1. IndexOf(l, y) = i /\ IndexOf(r, z) = j
      BY <1>1, <2>1
    <3>2. y # z
      BY <1>2, <1>7, <3>1
    <3>3. IndexOf(l, z) # i
      BY <1>2, <3>1, <3>2
    <3>4. IndexOf(l, y) < IndexOf(l, z)
      BY <1>1, <2>1, <3>1, <3>3
    <3>5. IndexOf(r, y) < IndexOf(r, z)
      BY <3>4 DEF InStep
    <3> QED
      BY <1>1, <2>1, <3>1, <3>5
  <2>3. Cardinality(K) <= dp[<<i + 1, j>>] \/ Cardinality(K) <= dp[<<i, j + 1>>]
    BY <1>7, <2>2
  <2>4. /\ dp[<<i + 1, j>>] \in Nat /\ dp[<<i, j + 1>>] \in Nat
        /\ dp[<<i, j>>] = IF dp[<<i + 1, j>>] >= dp[<<i, j + 1>>] THEN dp[<<i + 1, j>>]
                          ELSE dp[<<i, j + 1>>]
    <3>1. /\ i \in 1..(n + 1) /\ j \in 1..(m + 1) /\ i + 1 \in 1..(n + 1) /\ j + 1 \in 1..(m + 1)
          /\ i <= n /\ j <= m
      BY <1>1
    <3> QED
      BY <1>4, <1>7, <3>1
  <2>5. Cardinality(K) \in Nat
    BY <1>3
  <2> QED
    BY <2>3, <2>4, <2>5
<1> HIDE DEF Bounded
<1> DEFINE T == {k \in Nat : Upto(k)}
<1>8. 0 \in T
  <2> SUFFICES ASSUME NEW i \in 1..(n + 1), NEW j \in 1..(m + 1), (n + 1 - i) + (m + 1 - j) <= 0
               PROVE  Bounded(i, j)
    OBVIOUS
  <2>1. i > n
    BY <1>1
  <2> QED
    BY <1>5, <2>1
<1>9. ASSUME NEW k \in 0..((n + m) - 1), k \in T PROVE k + 1 \in T
  <2> SUFFICES ASSUME NEW i \in 1..(n + 1), NEW j \in 1..(m + 1), (n + 1 - i) + (m + 1 - j) <= k + 1
               PROVE  Bounded(i, j)
    OBVIOUS
  <2>1. CASE i > n \/ j > m
    BY <1>5, <2>1
  <2>2. CASE ~(i > n \/ j > m)
    <3>1. i \in 1..n /\ j \in 1..m /\ i + 1 \in 1..(n + 1) /\ j + 1 \in 1..(m + 1)
      BY <1>1, <2>2
    <3>2. /\ (n + 1 - (i + 1)) + (m + 1 - j) <= k /\ (n + 1 - i) + (m + 1 - (j + 1)) <= k
          /\ (n + 1 - (i + 1)) + (m + 1 - (j + 1)) <= k
      BY <1>1, <3>1
    <3>3. Bounded(i + 1, j) /\ Bounded(i, j + 1) /\ Bounded(i + 1, j + 1)
      BY <1>9, <3>1, <3>2
    <3> QED
      BY <1>6, <1>7, <3>1, <3>3
  <2> QED
    BY <2>1, <2>2
<1>10. n + m \in T
  <2> HIDE DEF T
  <2>1. n + m \in Nat /\ n + m \in 0..(n + m)
    BY <1>1
  <2> QED
    BY <1>8, <1>9, <2>1, UpTo
<1>11. Bounded(1, 1)
  <2>1. 1 \in 1..(n + 1) /\ 1 \in 1..(m + 1) /\ (n + 1 - 1) + (m + 1 - 1) <= n + m
    BY <1>1
  <2> QED
    BY <1>10, <2>1
<1>12. From(ks, 1, 1)
  BY <1>1, <1>2
<1> QED
  BY <1>11, <1>12 DEF Bounded, dp

LEMMA SideOfRows ==
  ASSUME NEW rows \in Seq(RowSet), NEW side \in {"leftKey", "rightKey"},
         NEW ks \in Seq(Key), IsInjective(ks), Lists(Column(rows, side), ks)
  PROVE  /\ \A w \in ToSet(rows) : w[side] \in ToSet(ks) \cup {None}
         /\ \A k \in ToSet(ks) : \E w \in ToSet(rows) : w[side] = k
         /\ \A w, v \in ToSet(rows) : w[side] = v[side] /\ w[side] # None => w = v
<1> DEFINE col == Column(rows, side)
<1>1. DOMAIN col = DOMAIN rows /\ (\A p \in DOMAIN rows : col[p] = rows[p][side]) /\ DOMAIN rows \subseteq Int
  BY DEF Column
<1>2. ToSet(col) \ {None} = ToSet(ks) /\ None \notin ToSet(ks)
  BY DEF Lists
<1> HIDE DEF col
<1>3. \A w \in ToSet(rows) : \E p \in DOMAIN rows : w = rows[p]
  BY DEF ToSet
<1>4. \A w \in ToSet(rows) : w[side] \in ToSet(ks) \cup {None}
  <2> SUFFICES ASSUME NEW p \in DOMAIN rows PROVE rows[p][side] \in ToSet(ks) \cup {None}
    BY <1>3
  <2>1. col[p] \in ToSet(col)
    BY <1>1 DEF ToSet
  <2> QED
    BY <1>1, <1>2, <2>1
<1>5. \A k \in ToSet(ks) : \E w \in ToSet(rows) : w[side] = k
  BY <1>1, <1>2 DEF ToSet
<1>6. ASSUME NEW p \in DOMAIN rows, NEW q \in DOMAIN rows, p < q,
             rows[p][side] = rows[q][side], rows[p][side] # None
      PROVE  FALSE
  <2>1. PICK x \in DOMAIN ks, y \in DOMAIN ks : x < y /\ col[p] = ks[x] /\ col[q] = ks[y]
    BY <1>1, <1>6 DEF Lists, col
  <2>2. ks[x] = ks[y] /\ x # y
    BY <1>1, <1>6, <2>1
  <2> QED
    BY <2>2 DEF IsInjective
<1>7. ASSUME NEW w \in ToSet(rows), NEW v \in ToSet(rows), w[side] = v[side], w[side] # None
      PROVE  w = v
  <2>1. PICK p \in DOMAIN rows : w = rows[p]
    BY <1>3
  <2>2. PICK q \in DOMAIN rows : v = rows[q]
    BY <1>3
  <2>3. ~(p < q) /\ ~(q < p)
    BY <1>6, <1>7, <2>1, <2>2
  <2>4. p = q
    BY <1>1, <2>3
  <2> QED
    BY <2>1, <2>2, <2>4
<1> QED
  BY <1>4, <1>5, <1>7

(* The keys that share a row.                                              *)
PairedKeys(l, r) == {w.leftKey : w \in Common(l, r)}

LEMMA RowsAre ==
  ASSUME NEW l, NEW r, IsDoc(l), IsDoc(r)
  PROVE  /\ PairedKeys(l, r) \subseteq KeySet(l) \cap KeySet(r)
         /\ Common(l, r) = {Row(k, k) : k \in PairedKeys(l, r)}
         /\ ToSet(Rows(l, r)) = Common(l, r)
              \cup {Row(k, None) : k \in KeySet(l) \ PairedKeys(l, r)}
              \cup {Row(None, k) : k \in KeySet(r) \ PairedKeys(l, r)}
         /\ Cardinality(PairedKeys(l, r)) = Cardinality(Common(l, r))
<1> DEFINE R == ToSet(Rows(l, r))
           P == PairedKeys(l, r)
<1>1. /\ Rows(l, r) \in Seq(RowSet) /\ Keys(l) \in Seq(Key) /\ Keys(r) \in Seq(Key)
      /\ IsInjective(Keys(l)) /\ IsInjective(Keys(r))
      /\ KeySet(l) = ToSet(Keys(l)) /\ KeySet(r) = ToSet(Keys(r))
      /\ None \notin KeySet(l) /\ None \notin KeySet(r)
  BY RowsList, KeysOfDoc DEF KeySet
<1>2. /\ \A w \in R : w.leftKey \in KeySet(l) \cup {None}
      /\ \A k \in KeySet(l) : \E w \in R : w.leftKey = k
      /\ \A w, v \in R : w.leftKey = v.leftKey /\ w.leftKey # None => w = v
  BY <1>1, RowsList, SideOfRows
<1>3. /\ \A w \in R : w.rightKey \in KeySet(r) \cup {None}
      /\ \A k \in KeySet(r) : \E w \in R : w.rightKey = k
      /\ \A w, v \in R : w.rightKey = v.rightKey /\ w.rightKey # None => w = v
  BY <1>1, RowsList, SideOfRows
<1>4. \A w \in R : w = Row(w.leftKey, w.rightKey)
  <2>1. \A w \in RowSet : w = Row(w.leftKey, w.rightKey)
    BY DEF RowSet, Row
  <2>2. R \subseteq RowSet
    BY <1>1 DEF ToSet
  <2> QED
    BY <2>1, <2>2
<1>5. \A w \in R : Shaped(w)
  BY RowsList
<1>6. Common(l, r) = {w \in R : w.leftKey # None /\ w.rightKey # None}
  BY DEF Common
<1> HIDE DEF R
<1>7. P \subseteq KeySet(l) \cap KeySet(r)
  <2> SUFFICES ASSUME NEW w \in R, w.leftKey # None, w.rightKey # None
               PROVE  w.leftKey \in KeySet(l) \cap KeySet(r)
    BY <1>6 DEF PairedKeys
  <2>1. w.leftKey = w.rightKey
    BY <1>5 DEF Shaped
  <2> QED
    BY <1>2, <1>3, <2>1
<1>8. Common(l, r) = {Row(k, k) : k \in P}
  <2>1. \A w \in Common(l, r) : w.leftKey \in P /\ w = Row(w.leftKey, w.leftKey)
    BY <1>4, <1>5, <1>6 DEF Shaped, PairedKeys
  <2>2. \A k \in P : \E w \in Common(l, r) : k = w.leftKey
    BY DEF PairedKeys
  <2> HIDE DEF P
  <2> QED
    BY <2>1, <2>2
<1>9. ASSUME NEW w \in R, w \notin Common(l, r)
      PROVE  \/ \E k \in KeySet(l) \ P : w = Row(k, None)
             \/ \E k \in KeySet(r) \ P : w = Row(None, k)
  <2>1. CASE w.rightKey = None
    <3>1. w.leftKey \in KeySet(l)
      BY <1>2, <1>5, <2>1 DEF Shaped
    <3>2. w.leftKey \notin P
      <4> SUFFICES ASSUME NEW v \in Common(l, r), v.leftKey = w.leftKey PROVE FALSE
        BY DEF PairedKeys
      <4>1. v = w
        BY <1>1, <1>2, <1>6, <3>1
      <4> QED
        BY <1>9, <4>1
    <3> QED
      BY <1>4, <2>1, <3>1, <3>2
  <2>2. CASE w.rightKey # None
    <3>1. w.leftKey = None /\ w.rightKey \in KeySet(r)
      BY <1>3, <1>6, <1>9, <2>2
    <3>2. w.rightKey \notin P
      <4> SUFFICES ASSUME NEW v \in Common(l, r), v.leftKey = w.rightKey PROVE FALSE
        BY DEF PairedKeys
      <4>1. v.rightKey = w.rightKey
        BY <1>5, <1>6 DEF Shaped
      <4>2. v = w
        BY <1>3, <1>6, <2>2, <4>1
      <4> QED
        BY <1>9, <4>2
    <3> QED
      BY <1>4, <3>1, <3>2
  <2> QED
    BY <2>1, <2>2
<1>10. ASSUME NEW k \in KeySet(l) \ P PROVE Row(k, None) \in R
  <2>1. PICK w \in R : w.leftKey = k
    BY <1>2
  <2>2. w.rightKey = None
    BY <1>1, <1>6, <2>1 DEF PairedKeys
  <2> QED
    BY <1>4, <2>1, <2>2
<1>11. ASSUME NEW k \in KeySet(r) \ P PROVE Row(None, k) \in R
  <2>1. PICK w \in R : w.rightKey = k
    BY <1>3
  <2>2. w.leftKey = None
    BY <1>1, <1>5, <1>6, <2>1 DEF PairedKeys, Shaped
  <2> QED
    BY <1>4, <2>1, <2>2
<1>12. R = Common(l, r) \cup {Row(k, None) : k \in KeySet(l) \ P}
                        \cup {Row(None, k) : k \in KeySet(r) \ P}
  <2>1. Common(l, r) \subseteq R
    BY <1>6
  <2> HIDE DEF P
  <2> QED
    BY <1>9, <1>10, <1>11, <2>1
<1>13. Cardinality(P) = Cardinality(Common(l, r))
  <2> DEFINE f == [w \in Common(l, r) |-> w.leftKey]
  <2>1. f \in Surjection(Common(l, r), P)
    BY DEF Surjection, PairedKeys
  <2>2. f \in Injection(Common(l, r), P)
    <3>1. \A w, v \in Common(l, r) : w.leftKey = v.leftKey => w = v
      BY <1>2, <1>6
    <3>2. f \in [Common(l, r) -> P] /\ IsInjective(f)
      BY <3>1 DEF IsInjective, PairedKeys
    <3> QED
      BY <3>2 DEF Injection
  <2> HIDE DEF f, P
  <2> QED
    BY <2>1, <2>2, RowsList, FS_Surjection
<1> QED
  BY <1>7, <1>8, <1>12, <1>13 DEF R

LEMMA SameOrderPairsAll ==
  ASSUME NEW l, NEW r, IsDoc(l), IsDoc(r), SameOrder(l, r)
  PROVE  PairedKeys(l, r) = KeySet(l) \cap KeySet(r)
<1> DEFINE P == PairedKeys(l, r)
           B == KeySet(l) \cap KeySet(r)
<1>1. P \subseteq B /\ Cardinality(P) = Cardinality(Common(l, r))
  BY RowsAre
<1>2. IsFiniteSet(B)
  BY KeysOfDoc, FS_Intersection
<1>3. Cardinality(B) <= Cardinality(P)
  BY <1>1, LcsIsMost, RowsList DEF SameOrder
<1>4. Cardinality(P) <= Cardinality(B) /\ Cardinality(B) \in Nat /\ Cardinality(P) \in Nat
  BY <1>1, <1>2, FS_Subset, FS_CardinalityType
<1>5. Cardinality(B) = Cardinality(P)
  BY <1>3, <1>4
<1> QED
  BY <1>1, <1>2, <1>5, FS_Subset

-----------------------------------------------------------------------------
(* The changes of two objects, and the statistics beside them.             *)

Modifying(k) == [kind |-> "modified", leftKey |-> k, rightKey |-> k]
Removing(k) == [kind |-> "removed", leftKey |-> k, rightKey |-> None]
Adding(k) == [kind |-> "added", leftKey |-> None, rightKey |-> k]

LEMMA ChangesAre ==
  ASSUME NEW l, NEW r, IsDoc(l), IsDoc(r)
  PROVE  /\ ChangesOf(l, r) =
              {Modifying(k) : k \in {k \in PairedKeys(l, r) : InDelta(l, r, k)}}
              \cup {Removing(k) : k \in KeySet(l) \ PairedKeys(l, r)}
              \cup {Adding(k) : k \in KeySet(r) \ PairedKeys(l, r)}
         /\ ChangesOf(l, r) \subseteq Change
<1> DEFINE P == PairedKeys(l, r)
           Of(w) == [kind |-> ChangeKind(w), leftKey |-> w.leftKey, rightKey |-> w.rightKey]
           R == {w \in ToSet(Rows(l, r)) : w \in Common(l, r) => InDelta(l, r, w.leftKey)}
           M == {k \in P : InDelta(l, r, k)}
<1>1. /\ P \subseteq KeySet(l) /\ P \subseteq KeySet(r)
      /\ KeySet(l) \subseteq Key /\ KeySet(r) \subseteq Key /\ None \notin Key
  BY RowsAre, KeysOfDoc, MergeAssumption
<1>2. ChangesOf(l, r) = {Of(w) : w \in R}
  BY DEF ChangesOf
<1>3. \A k \in Key : /\ Of(Row(k, k)) = Modifying(k) /\ Of(Row(k, None)) = Removing(k)
                     /\ Of(Row(None, k)) = Adding(k)
                     /\ Row(k, k).leftKey = k /\ Row(k, None).rightKey = None /\ Row(None, k).leftKey = None
  BY <1>1 DEF Row, ChangeKind, Modifying, Removing, Adding
<1>4. R = {Row(k, k) : k \in M} \cup {Row(k, None) : k \in KeySet(l) \ P}
                                \cup {Row(None, k) : k \in KeySet(r) \ P}
  <2>1. ToSet(Rows(l, r)) = Common(l, r) \cup {Row(k, None) : k \in KeySet(l) \ P}
                                         \cup {Row(None, k) : k \in KeySet(r) \ P}
    BY RowsAre
  <2>2. Common(l, r) = {Row(k, k) : k \in P}
    BY RowsAre
  <2>3. \A w \in Common(l, r) : w.leftKey # None /\ w.rightKey # None
    BY DEF Common
  <2>4. /\ \A k \in KeySet(l) \ P : Row(k, None) \notin Common(l, r)
        /\ \A k \in KeySet(r) \ P : Row(None, k) \notin Common(l, r)
    BY <1>1, <1>3, <2>3
  <2>5. \A k \in P : Row(k, k).leftKey = k
    BY <1>1, <1>3
  <2> HIDE DEF P
  <2> QED
    BY <2>1, <2>2, <2>4, <2>5
<1>5. ChangesOf(l, r) = {Modifying(k) : k \in M} \cup {Removing(k) : k \in KeySet(l) \ P}
                                                 \cup {Adding(k) : k \in KeySet(r) \ P}
  <2>1. \A k \in M : k \in Key
    BY <1>1
  <2> HIDE DEF R, P, M, Of
  <2> QED
    BY <1>1, <1>2, <1>3, <1>4, <2>1
<1>6. \A k \in Key : Modifying(k) \in Change /\ Removing(k) \in Change /\ Adding(k) \in Change
  BY DEF Modifying, Removing, Adding, Change, Kind
<1>7. ChangesOf(l, r) \subseteq Change
  <2>1. \A k \in M : k \in Key
    BY <1>1
  <2> HIDE DEF P, M
  <2> QED
    BY <1>1, <1>5, <1>6, <2>1
<1> QED
  BY <1>5, <1>7

(* The changes of one kind are as many as the keys they are about.         *)
LEMMA ListedOfKind ==
  ASSUME NEW l, NEW r, IsDoc(l), IsDoc(r)
  PROVE  /\ Listed(ChangesOf(l, r), "modified") =
              Cardinality({k \in PairedKeys(l, r) : InDelta(l, r, k)})
         /\ Listed(ChangesOf(l, r), "removed") = Cardinality(KeySet(l) \ PairedKeys(l, r))
         /\ Listed(ChangesOf(l, r), "added") = Cardinality(KeySet(r) \ PairedKeys(l, r))
<1> DEFINE P == PairedKeys(l, r)
           M == {k \in P : InDelta(l, r, k)}
           X == KeySet(l) \ P
           Y == KeySet(r) \ P
           cs == ChangesOf(l, r)
<1>1. cs = {Modifying(k) : k \in M} \cup {Removing(k) : k \in X} \cup {Adding(k) : k \in Y}
  BY ChangesAre
<1>2. IsFiniteSet(M) /\ IsFiniteSet(X) /\ IsFiniteSet(Y)
  <2>1. IsFiniteSet(KeySet(l)) /\ IsFiniteSet(KeySet(r)) /\ P \subseteq KeySet(l)
    BY KeysOfDoc, RowsAre
  <2> QED
    BY <2>1, FS_Subset
<1>3. \A k : /\ Modifying(k).kind = "modified" /\ Removing(k).kind = "removed" /\ Adding(k).kind = "added"
             /\ Modifying(k).leftKey = k /\ Removing(k).leftKey = k /\ Adding(k).rightKey = k
  BY DEF Modifying, Removing, Adding
<1> HIDE DEF M, X, Y, cs
<1>4. /\ {c \in cs : c.kind = "modified"} = {Modifying(k) : k \in M}
      /\ {c \in cs : c.kind = "removed"} = {Removing(k) : k \in X}
      /\ {c \in cs : c.kind = "added"} = {Adding(k) : k \in Y}
  BY <1>1, <1>3
<1>5. Cardinality({Modifying(k) : k \in M}) = Cardinality(M)
  <2> DEFINE f == [k \in M |-> Modifying(k)]
  <2>1. f \in Bijection(M, {Modifying(k) : k \in M})
    BY <1>3 DEF Bijection, Injection, Surjection, IsInjective
  <2> HIDE DEF f
  <2> QED
    BY <1>2, <2>1, FS_Bijection DEF ExistsBijection
<1>6. Cardinality({Removing(k) : k \in X}) = Cardinality(X)
  <2> DEFINE f == [k \in X |-> Removing(k)]
  <2>1. f \in Bijection(X, {Removing(k) : k \in X})
    BY <1>3 DEF Bijection, Injection, Surjection, IsInjective
  <2> HIDE DEF f
  <2> QED
    BY <1>2, <2>1, FS_Bijection DEF ExistsBijection
<1>7. Cardinality({Adding(k) : k \in Y}) = Cardinality(Y)
  <2> DEFINE f == [k \in Y |-> Adding(k)]
  <2>1. f \in Bijection(Y, {Adding(k) : k \in Y})
    BY <1>3 DEF Bijection, Injection, Surjection, IsInjective
  <2> HIDE DEF f
  <2> QED
    BY <1>2, <2>1, FS_Bijection DEF ExistsBijection
<1> QED
  BY <1>4, <1>5, <1>6, <1>7 DEF Listed, M, X, Y, cs

LEMMA TwoParts ==
  ASSUME NEW X, IsFiniteSet(X), NEW Y, NEW Z, X = Y \cup Z, Y \cap Z = {}
  PROVE  /\ Cardinality(X) = Cardinality(Y) + Cardinality(Z)
         /\ Cardinality(Y) \in Nat /\ Cardinality(Z) \in Nat
<1>1. IsFiniteSet(Y) /\ IsFiniteSet(Z)
  BY FS_Subset
<1>2. Cardinality(Y) \in Nat /\ Cardinality(Z) \in Nat
  BY <1>1, FS_CardinalityType
<1>3. Cardinality(X) = Cardinality(Y) + Cardinality(Z) - Cardinality({})
  BY <1>1, FS_Union
<1> QED
  BY <1>2, <1>3, FS_EmptySet

(* What StatsAgree says of two documents.                                  *)
LEMMA StatsOfDocs ==
  ASSUME IsDoc(left), IsDoc(right)
  PROVE  StatsAgree
<1> DEFINE L == KeySet(left)
           R == KeySet(right)
           P == PairedKeys(left, right)
           cs == ChangesOf(left, right)
           apart == (L \cap R) \ P
           M == {k \in P : InDelta(left, right, k)}
           differing == {k \in apart : InDelta(left, right, k)}
           changed == {k \in L \cap R : InDelta(left, right, k)}
           unchanged == (L \cup R) \ Touched(Deltas(left, right))
<1>1. IsFiniteSet(L) /\ IsFiniteSet(R) /\ IsFiniteSet(L \cap R) /\ P \subseteq L \cap R
  BY KeysOfDoc, RowsAre, FS_Intersection
<1>2. /\ Listed(cs, "modified") = Cardinality(M)
      /\ Listed(cs, "removed") = Cardinality(L \ P)
      /\ Listed(cs, "added") = Cardinality(R \ P)
      /\ Cardinality(Common(left, right)) = Cardinality(P)
  BY ListedOfKind, RowsAre
<1>3. unchanged = (L \cap R) \ changed
  BY DEF Touched, Deltas
<1>4. /\ Stats(left, right).added = Cardinality(R \ L)
      /\ Stats(left, right).removed = Cardinality(L \ R)
      /\ Stats(left, right).changed = Cardinality(changed)
      /\ Stats(left, right).unchanged = Cardinality(unchanged)
  BY DEF Stats, Deltas
<1>5. SameOrder(left, right) => (Modified(left, right) <=> cs # {})
  <2> SUFFICES ASSUME SameOrder(left, right) PROVE Modified(left, right) <=> cs # {}
    OBVIOUS
  <2>1. P = L \cap R
    BY SameOrderPairsAll
  <2>2. cs = {Modifying(k) : k \in M} \cup {Removing(k) : k \in L \ P} \cup {Adding(k) : k \in R \ P}
    BY ChangesAre
  <2>3. Touched(Deltas(left, right)) = M \cup (L \ P) \cup (R \ P)
    BY <2>1 DEF Touched, Deltas
  <2> HIDE DEF M, L, R, P, cs
  <2> QED
    BY <2>2, <2>3 DEF Modified
<1> HIDE DEF L, R, P, cs, unchanged
<1>6. Cardinality(R \ P) = Cardinality(R \ L) + Cardinality(apart)
  <2>1. R \ P = (R \ L) \cup apart /\ (R \ L) \cap apart = {} /\ IsFiniteSet(R \ P)
    BY <1>1, FS_Subset
  <2> HIDE DEF apart
  <2> QED
    BY <2>1, TwoParts
<1>7. Cardinality(L \ P) = Cardinality(L \ R) + Cardinality(apart)
  <2>1. L \ P = (L \ R) \cup apart /\ (L \ R) \cap apart = {} /\ IsFiniteSet(L \ P)
    BY <1>1, FS_Subset
  <2> HIDE DEF apart
  <2> QED
    BY <2>1, TwoParts
<1>8. Cardinality(changed) = Cardinality(M) + Cardinality(differing)
  <2>1. changed = M \cup differing /\ M \cap differing = {} /\ IsFiniteSet(changed)
    BY <1>1, FS_Subset
  <2> HIDE DEF changed, M, differing
  <2> QED
    BY <2>1, TwoParts
<1>9. Cardinality(P) + Cardinality(apart) = Cardinality(changed) + Cardinality(unchanged)
  <2>1. L \cap R = P \cup apart /\ P \cap apart = {}
    BY <1>1
  <2>2. L \cap R = changed \cup unchanged /\ changed \cap unchanged = {}
    BY <1>3
  <2> HIDE DEF apart, changed
  <2>3. Cardinality(L \cap R) = Cardinality(P) + Cardinality(apart)
    BY <1>1, <2>1, TwoParts
  <2>4. Cardinality(L \cap R) = Cardinality(changed) + Cardinality(unchanged)
    BY <1>1, <2>2, TwoParts
  <2> QED
    BY <2>3, <2>4
<1> USE DEF L, R, P, cs, unchanged
<1> HIDE DEF apart, changed, differing, M
<1>10. StatsAgree <=>
        /\ Listed(cs, "added") = Stats(left, right).added + Cardinality(apart)
        /\ Listed(cs, "removed") = Stats(left, right).removed + Cardinality(apart)
        /\ Listed(cs, "modified") + Cardinality(differing) = Stats(left, right).changed
        /\ Cardinality(Common(left, right)) + Cardinality(apart)
             = Listed(cs, "modified") + Cardinality(differing) + Stats(left, right).unchanged
        /\ SameOrder(left, right) => (Modified(left, right) <=> cs # {})
  BY DEF StatsAgree, apart, differing, PairedKeys
<1> HIDE DEF L, R, P, cs, unchanged
<1> QED
  BY <1>2, <1>4, <1>5, <1>6, <1>7, <1>8, <1>9, <1>10

-----------------------------------------------------------------------------
(* Documents after an edit.                                                *)

LEMMA AfterInsertAt ==
  ASSUME NEW S, NEW d \in Seq(S), NEW p \in 1..(Len(d) + 1), NEW e \in S
  PROVE  /\ InsertAt(d, p, e) \in Seq(S) /\ Len(InsertAt(d, p, e)) = Len(d) + 1
         /\ \A i \in 1..(Len(d) + 1) :
              InsertAt(d, p, e)[i] = IF i < p THEN d[i] ELSE IF i = p THEN e ELSE d[i - 1]
<1>1. Len(d) \in Nat /\ DOMAIN d = 1..Len(d)
  OBVIOUS
<1>2. /\ SubSeq(d, 1, p - 1) \in Seq(S) /\ Len(SubSeq(d, 1, p - 1)) = p - 1
      /\ \A i \in 1..(p - 1) : SubSeq(d, 1, p - 1)[i] = d[i]
  BY <1>1
<1>3. /\ SubSeq(d, p, Len(d)) \in Seq(S) /\ Len(SubSeq(d, p, Len(d))) = Len(d) + 1 - p
      /\ \A i \in 1..(Len(d) + 1 - p) : SubSeq(d, p, Len(d))[i] = d[p + i - 1]
  BY <1>1
<1> DEFINE before == SubSeq(d, 1, p - 1)
           after == SubSeq(d, p, Len(d))
           n == Len(d)
<1>4. InsertAt(d, p, e) = (before \o <<e>>) \o after
  BY DEF InsertAt
<1>5. before \in Seq(S) /\ Len(before) = p - 1 /\ (\A i \in 1..(p - 1) : before[i] = d[i])
  BY <1>2
<1>6. after \in Seq(S) /\ Len(after) = n + 1 - p /\ (\A i \in 1..(n + 1 - p) : after[i] = d[p + i - 1])
  BY <1>3
<1>7. n \in Nat /\ p \in 1..(n + 1)
  BY <1>1
<1> HIDE DEF before, after, n
<1>8. /\ before \o <<e>> \in Seq(S) /\ Len(before \o <<e>>) = p
      /\ \A i \in 1..p : (before \o <<e>>)[i] = IF i < p THEN d[i] ELSE e
  BY <1>5, <1>7
<1>9. /\ InsertAt(d, p, e) \in Seq(S) /\ Len(InsertAt(d, p, e)) = n + 1
      /\ \A i \in 1..(n + 1) : InsertAt(d, p, e)[i] =
                                 IF i <= p THEN (before \o <<e>>)[i] ELSE after[i - p]
  <2> DEFINE front == before \o <<e>>
  <2>1. InsertAt(d, p, e) = front \o after /\ front \in Seq(S) /\ Len(front) = p
    BY <1>4, <1>8
  <2> HIDE DEF front
  <2>2. /\ InsertAt(d, p, e) \in Seq(S) /\ Len(InsertAt(d, p, e)) = n + 1
        /\ \A i \in 1..(n + 1) : InsertAt(d, p, e)[i] = IF i <= p THEN front[i] ELSE after[i - p]
    BY <1>6, <1>7, <2>1
  <2> QED
    BY <2>2 DEF front
<1>10. ASSUME NEW i \in 1..(n + 1)
       PROVE  InsertAt(d, p, e)[i] = IF i < p THEN d[i] ELSE IF i = p THEN e ELSE d[i - 1]
  <2>1. CASE i <= p
    BY <1>7, <1>8, <1>9, <1>10, <2>1
  <2>2. CASE i > p
    <3>1. i - p \in 1..(n + 1 - p) /\ p + (i - p) - 1 = i - 1
      BY <1>7, <1>10, <2>2
    <3>2. after[i - p] = d[i - 1]
      BY <1>6, <3>1
    <3> QED
      BY <1>7, <1>9, <1>10, <2>2, <3>2
  <2> QED
    BY <1>7, <1>10, <2>1, <2>2
<1> QED
  BY <1>9, <1>10 DEF n

LEMMA AfterRemoveAt ==
  ASSUME NEW S, NEW d \in Seq(S), NEW p \in 1..Len(d)
  PROVE  /\ RemoveAt(d, p) \in Seq(S) /\ Len(RemoveAt(d, p)) = Len(d) - 1
         /\ \A i \in 1..(Len(d) - 1) : RemoveAt(d, p)[i] = IF i < p THEN d[i] ELSE d[i + 1]
<1> DEFINE before == SubSeq(d, 1, p - 1)
           after == SubSeq(d, p + 1, Len(d))
           n == Len(d)
<1>1. n \in Nat /\ p \in 1..n /\ DOMAIN d = 1..n
  OBVIOUS
<1>2. before \in Seq(S) /\ Len(before) = p - 1 /\ (\A i \in 1..(p - 1) : before[i] = d[i])
  <2>1. /\ SubSeq(d, 1, p - 1) \in Seq(S) /\ Len(SubSeq(d, 1, p - 1)) = p - 1
        /\ \A i \in 1..(p - 1) : SubSeq(d, 1, p - 1)[i] = d[i]
    BY SubSeqProperties
  <2> QED
    BY <2>1
<1>3. after \in Seq(S) /\ Len(after) = n - p /\ (\A i \in 1..(n - p) : after[i] = d[p + i])
  <2> DEFINE m == p + 1
  <2>1. m \in Int /\ n \in Int /\ m <= n + 1 /\ \A i \in m..n : d[i] \in S
    BY <1>1
  <2>2. \A i \in 1..(n - p) : m + i - 1 = p + i
    BY <1>1
  <2>3. after = SubSeq(d, m, n)
    OBVIOUS
  <2> HIDE DEF n, after
  <2>4. (IF m <= n THEN n - m + 1 ELSE 0) = n - p /\ n - m + 1 = n - p
    BY <1>1
  <2> HIDE DEF m
  <2>5. /\ after \in Seq(S) /\ Len(after) = IF m <= n THEN n - m + 1 ELSE 0
        /\ \A i \in 1..(n - m + 1) : after[i] = d[m + i - 1]
    BY <2>1, <2>3, SubSeqProperties
  <2> QED
    BY <2>2, <2>4, <2>5
<1>4. RemoveAt(d, p) = before \o after
  BY DEF RemoveAt
<1> HIDE DEF before, after, n
<1>5. /\ RemoveAt(d, p) \in Seq(S) /\ Len(RemoveAt(d, p)) = n - 1
      /\ \A i \in 1..(n - 1) : RemoveAt(d, p)[i] = IF i <= p - 1 THEN before[i] ELSE after[i - (p - 1)]
  BY <1>1, <1>2, <1>3, <1>4
<1>6. ASSUME NEW i \in 1..(n - 1) PROVE RemoveAt(d, p)[i] = IF i < p THEN d[i] ELSE d[i + 1]
  <2>1. CASE i < p
    BY <1>1, <1>2, <1>5, <1>6, <2>1
  <2>2. CASE i >= p
    <3>1. i - (p - 1) \in 1..(n - p) /\ p + (i - (p - 1)) = i + 1
      BY <1>1, <1>6, <2>2
    <3>2. after[i - (p - 1)] = d[i + 1]
      BY <1>3, <3>1
    <3> QED
      BY <1>1, <1>5, <1>6, <2>2, <3>2
  <2> QED
    BY <1>1, <1>6, <2>1, <2>2
<1> QED
  BY <1>5, <1>6 DEF n

(* A document is its entries; a key stands where its entry is.             *)
LEMMA EntryAt ==
  ASSUME NEW d, IsDoc(d), NEW i \in DOMAIN d
  PROVE  d[i].key \in KeySet(d) /\ IndexOf(d, d[i].key) = i /\ At(d, d[i].key) = d[i].val
<1>1. d[i].key \in KeySet(d)
  BY KeysOfDoc
<1>2. IndexOf(d, d[i].key) = i
  BY <1>1, IndexOfKey
<1> QED
  BY <1>1, <1>2 DEF At

LEMMA ValueAt ==
  ASSUME NEW d, IsDoc(d), NEW k \in KeySet(d)
  PROVE  At(d, k) \in Value /\ k \in Key /\ IndexOf(d, k) \in 1..Len(d)
<1>1. IndexOf(d, k) \in DOMAIN d
  BY IndexOfKey
<1>2. d[IndexOf(d, k)] \in Entry
  BY <1>1, KeysOfDoc
<1>3. \A e \in Entry : e.val \in Value
  BY DEF Entry
<1> QED
  BY <1>1, <1>2, <1>3, KeysOfDoc DEF At

LEMMA AssignDoc ==
  ASSUME NEW t, IsDoc(t), NEW k \in KeySet(t), NEW v \in Value
  PROVE  LET u == Assign(t, k, v)
         IN  /\ IsDoc(u) /\ KeySet(u) = KeySet(t) /\ At(u, k) = v
             /\ \A j \in KeySet(t) : IndexOf(u, j) = IndexOf(t, j)
             /\ \A j \in KeySet(t) \ {k} : At(u, j) = At(t, j)
<1> DEFINE u == Assign(t, k, v)
           p == IndexOf(t, k)
<1>1. p \in DOMAIN t /\ t[p].key = k /\ (\A i \in DOMAIN t : t[i].key = k => i = p)
  BY IndexOfKey
<1>2. /\ t \in Seq(Entry) /\ DOMAIN t = 1..Len(t) /\ IsInjective(Keys(t))
      /\ \A i \in DOMAIN t : t[i] \in Entry
  BY KeysOfDoc DEF IsDoc
<1>3. \A e \in Entry : /\ [e EXCEPT !.val = v] \in Entry
                       /\ [e EXCEPT !.val = v].key = e.key /\ [e EXCEPT !.val = v].val = v
  BY DEF Entry
<1>4. u = [t EXCEPT ![p] = [t[p] EXCEPT !.val = v]]
  BY DEF Assign
<1>5. u \in Seq(Entry) /\ Len(u) = Len(t) /\ DOMAIN u = DOMAIN t
  <2> HIDE DEF u, p
  <2> QED
    BY <1>1, <1>2, <1>3, <1>4, ExceptSeq
<1>6. \A i \in DOMAIN t : u[i].key = t[i].key /\ (i # p => u[i] = t[i]) /\ u[p].val = v
  <2> HIDE DEF u, p
  <2> QED
    BY <1>1, <1>2, <1>3, <1>4
<1>7. Keys(u) = Keys(t)
  BY <1>5, <1>6 DEF Keys
<1>8. IsDoc(u) /\ KeySet(u) = KeySet(t)
  BY <1>2, <1>5, <1>7 DEF IsDoc, IsObject, KeySet
<1> HIDE DEF u
<1>9. ASSUME NEW j \in KeySet(t) PROVE IndexOf(u, j) = IndexOf(t, j)
  <2>1. IndexOf(t, j) \in DOMAIN t /\ t[IndexOf(t, j)].key = j
    BY IndexOfKey
  <2>2. IndexOf(t, j) \in DOMAIN u /\ u[IndexOf(t, j)].key = j
    BY <1>5, <1>6, <2>1
  <2> QED
    BY <1>8, <2>2, EntryAt
<1>10. At(u, k) = v
  BY <1>6, <1>1, <1>9 DEF At
<1>11. ASSUME NEW j \in KeySet(t) \ {k} PROVE At(u, j) = At(t, j)
  <2>1. IndexOf(t, j) \in DOMAIN t /\ IndexOf(t, j) # p
    BY <1>1, IndexOfKey
  <2> QED
    BY <1>6, <1>9, <2>1 DEF At
<1> QED
  BY <1>8, <1>9, <1>10, <1>11 DEF u

LEMMA DeleteDoc ==
  ASSUME NEW t, IsDoc(t), NEW k \in KeySet(t)
  PROVE  LET u == Delete(t, k)
         IN  /\ IsDoc(u) /\ KeySet(u) = KeySet(t) \ {k}
             /\ \A j \in KeySet(t) \ {k} :
                  /\ At(u, j) = At(t, j)
                  /\ IndexOf(u, j) = IF IndexOf(t, j) < IndexOf(t, k) THEN IndexOf(t, j)
                                     ELSE IndexOf(t, j) - 1
<1> DEFINE u == Delete(t, k)
           p == IndexOf(t, k)
           n == Len(t)
           New(x) == IF x < p THEN x ELSE x - 1
           Old(i) == IF i < p THEN i ELSE i + 1
<1>1. p \in 1..n /\ t[p].key = k /\ (\A i \in 1..n : t[i].key = k => i = p)
  BY IndexOfKey, KeysOfDoc
<1>2. /\ t \in Seq(Entry) /\ DOMAIN t = 1..n /\ IsInjective(Keys(t)) /\ n \in Nat
      /\ \A i \in 1..n : t[i] \in Entry /\ Keys(t)[i] = t[i].key
      /\ DOMAIN Keys(t) = 1..n
  BY KeysOfDoc DEF IsDoc
<1>3. u = RemoveAt(t, p)
  BY DEF Delete, Has, KeySet
<1>4. u \in Seq(Entry) /\ Len(u) = n - 1 /\ \A i \in 1..(n - 1) : u[i] = t[Old(i)]
  <2> HIDE DEF u, p
  <2> QED
    BY <1>1, <1>2, <1>3, AfterRemoveAt
<1> HIDE DEF u, p, n
<1>5. DOMAIN u = 1..(n - 1)
  BY <1>2, <1>4
<1>6. \A i \in 1..(n - 1) : Old(i) \in 1..n /\ Old(i) # p /\ New(Old(i)) = i
  BY <1>1, <1>2
<1>7. \A x \in 1..n : x # p => New(x) \in 1..(n - 1) /\ Old(New(x)) = x
  BY <1>1, <1>2
<1>8. \A x, y \in 1..n : t[x].key = t[y].key => x = y
  BY <1>2 DEF IsInjective
<1> HIDE DEF Old, New
<1>9. IsDoc(u)
  <2>1. \A i, h \in 1..(n - 1) : u[i].key = u[h].key => i = h
    BY <1>4, <1>6, <1>8
  <2> QED
    BY <1>4, <1>5, <2>1 DEF IsDoc, IsObject, IsInjective, Keys
<1>10. ASSUME NEW j \in KeySet(t) \ {k}
       PROVE  j \in KeySet(u) /\ IndexOf(u, j) = New(IndexOf(t, j)) /\ At(u, j) = At(t, j)
  <2>1. PICK x \in 1..n : t[x].key = j
    BY <1>2, KeysOfDoc
  <2>2. x # p
    BY <1>1, <2>1
  <2>3. New(x) \in DOMAIN u /\ u[New(x)] = t[x]
    BY <1>4, <1>5, <1>7, <2>2
  <2>4. IndexOf(t, j) = x /\ At(t, j) = t[x].val
    BY <1>2, <2>1, EntryAt
  <2>5. j \in KeySet(u) /\ IndexOf(u, j) = New(x) /\ At(u, j) = u[New(x)].val
    BY <1>9, <2>1, <2>3, EntryAt
  <2> QED
    BY <2>3, <2>4, <2>5
<1>11. ASSUME NEW j \in KeySet(u) PROVE j \in KeySet(t) \ {k}
  <2>1. PICK i \in 1..(n - 1) : u[i].key = j
    <3>1. KeySet(u) = {u[i].key : i \in DOMAIN u}
      BY <1>9, KeysOfDoc
    <3> QED
      BY <1>5, <3>1
  <2>2. Old(i) \in 1..n /\ Old(i) # p /\ t[Old(i)].key = j
    BY <1>4, <1>6, <2>1
  <2>3. j # k
    BY <1>1, <2>2
  <2> QED
    BY <1>2, <2>2, <2>3, EntryAt
<1>12. KeySet(u) = KeySet(t) \ {k}
  BY <1>10, <1>11
<1> QED
  BY <1>9, <1>10, <1>12 DEF u, p, New

LEMMA InsertDoc ==
  ASSUME NEW t, IsDoc(t), NEW k \in Key \ KeySet(t), NEW v \in Value, NEW p \in 1..(Len(t) + 1)
  PROVE  LET u == InsertAt(t, p, [key |-> k, val |-> v])
         IN  /\ IsDoc(u) /\ KeySet(u) = KeySet(t) \cup {k} /\ At(u, k) = v /\ IndexOf(u, k) = p
             /\ \A j \in KeySet(t) :
                  /\ At(u, j) = At(t, j)
                  /\ IndexOf(u, j) = IF IndexOf(t, j) < p THEN IndexOf(t, j) ELSE IndexOf(t, j) + 1
<1> DEFINE e == [key |-> k, val |-> v]
           u == InsertAt(t, p, e)
           n == Len(t)
           New(x) == IF x < p THEN x ELSE x + 1
           Old(i) == IF i < p THEN i ELSE i - 1
<1>1. e \in Entry /\ e.key = k /\ e.val = v
  BY DEF Entry
<1>2. /\ t \in Seq(Entry) /\ DOMAIN t = 1..n /\ n \in Nat /\ p \in 1..(n + 1)
      /\ \A i \in 1..n : t[i] \in Entry /\ Keys(t)[i] = t[i].key /\ t[i].key # k
      /\ DOMAIN Keys(t) = 1..n /\ IsInjective(Keys(t))
  <2>1. \A i \in DOMAIN t : t[i].key \in KeySet(t)
    BY KeysOfDoc
  <2> QED
    BY <2>1, KeysOfDoc DEF IsDoc
<1> HIDE DEF e
<1>3. /\ u \in Seq(Entry) /\ Len(u) = n + 1
      /\ \A i \in 1..(n + 1) : u[i] = IF i < p THEN t[i] ELSE IF i = p THEN e ELSE t[i - 1]
  BY <1>1, <1>2, AfterInsertAt
<1> HIDE DEF u, n
<1>4. DOMAIN u = 1..(n + 1)
  BY <1>2, <1>3
<1>5. \A i \in 1..(n + 1) : i # p => Old(i) \in 1..n /\ u[i] = t[Old(i)] /\ New(Old(i)) = i
  BY <1>2, <1>3
<1>6. \A x \in 1..n : New(x) \in 1..(n + 1) /\ New(x) # p /\ Old(New(x)) = x
  BY <1>2
<1>7. u[p] = e
  BY <1>2, <1>3
<1>8. \A x, y \in 1..n : t[x].key = t[y].key => x = y
  BY <1>2 DEF IsInjective
<1> HIDE DEF Old, New
<1>9. IsDoc(u)
  <2>1. ASSUME NEW i \in 1..(n + 1), NEW h \in 1..(n + 1), u[i].key = u[h].key PROVE i = h
    <3>1. CASE i = p \/ h = p
      BY <1>1, <1>2, <1>5, <1>7, <2>1, <3>1
    <3>2. CASE i # p /\ h # p
      BY <1>5, <1>8, <2>1, <3>2
    <3> QED
      BY <3>1, <3>2
  <2> QED
    BY <1>3, <1>4, <2>1 DEF IsDoc, IsObject, IsInjective, Keys
<1>10. ASSUME NEW j \in KeySet(t)
       PROVE  j \in KeySet(u) /\ IndexOf(u, j) = New(IndexOf(t, j)) /\ At(u, j) = At(t, j)
  <2>1. PICK x \in 1..n : t[x].key = j
    BY <1>2, KeysOfDoc
  <2>2. New(x) \in DOMAIN u /\ u[New(x)] = t[x]
    BY <1>4, <1>5, <1>6
  <2>3. IndexOf(t, j) = x /\ At(t, j) = t[x].val
    BY <1>2, <2>1, EntryAt
  <2>4. j \in KeySet(u) /\ IndexOf(u, j) = New(x) /\ At(u, j) = u[New(x)].val
    BY <1>9, <2>1, <2>2, EntryAt
  <2> QED
    BY <2>2, <2>3, <2>4
<1>11. k \in KeySet(u) /\ IndexOf(u, k) = p /\ At(u, k) = v
  BY <1>1, <1>2, <1>4, <1>7, <1>9, EntryAt
<1>12. ASSUME NEW j \in KeySet(u), j # k PROVE j \in KeySet(t)
  <2>1. PICK i \in 1..(n + 1) : u[i].key = j
    <3>1. KeySet(u) = {u[i].key : i \in DOMAIN u}
      BY <1>9, KeysOfDoc
    <3> QED
      BY <1>4, <3>1
  <2>2. i # p
    BY <1>1, <1>7, <1>12, <2>1
  <2>3. Old(i) \in 1..n /\ t[Old(i)].key = j
    BY <1>5, <2>1, <2>2
  <2> QED
    BY <1>2, <2>3, EntryAt
<1>13. KeySet(u) = KeySet(t) \cup {k}
  BY <1>10, <1>11, <1>12
<1> QED
  BY <1>9, <1>10, <1>11, <1>13 DEF u, New, e

(* Two documents that agree on the order of some keys agree both ways.     *)
LEMMA InStepBoth ==
  ASSUME NEW l, NEW r, IsDoc(l), IsDoc(r),
         NEW ks \in SUBSET (KeySet(l) \cap KeySet(r)), InStep(l, r, ks)
  PROVE  InStep(r, l, ks)
<1> SUFFICES ASSUME NEW j \in ks, NEW k \in ks, IndexOf(r, j) < IndexOf(r, k)
             PROVE  IndexOf(l, j) < IndexOf(l, k)
  BY DEF InStep
<1>1. /\ IndexOf(l, j) \in Nat /\ IndexOf(l, k) \in Nat /\ IndexOf(r, j) \in Nat /\ IndexOf(r, k) \in Nat
      /\ IndexOf(l, j) = IndexOf(l, k) => j = k
  BY IndexOfKey
<1>2. ~(IndexOf(l, k) < IndexOf(l, j))
  BY <1>1 DEF InStep
<1> QED
  BY <1>1, <1>2

LEMMA LeastOf ==
  ASSUME NEW m \in Nat, NEW n \in Nat, NEW I \in SUBSET (m..n), I # {}
  PROVE  Min(I) \in I /\ \A i \in I : Min(I) <= i
<1>1. I \subseteq Nat
  OBVIOUS
<1>2. PICK x \in I : \A y \in I : x <= y
  BY <1>1, LeastNumber
<1> QED
  BY <1>2 DEF Min

LEMMA GreatestOf ==
  ASSUME NEW m \in Nat, NEW n \in Int, NEW I \in SUBSET (m..n), I # {}
  PROVE  Max(I) \in I /\ \A i \in I : i <= Max(I)
<1> DEFINE Below == {n - i : i \in I}
<1>1. Below \subseteq Nat /\ Below # {}
  <2>1. \A i \in I : n - i \in Nat
    OBVIOUS
  <2> QED
    BY <2>1
<1>2. PICK b \in Below : \A h \in Below : b <= h
  <2> HIDE DEF Below
  <2> QED
    BY <1>1, LeastNumber
<1>3. PICK x \in I : b = n - x
  OBVIOUS
<1>4. ASSUME NEW y \in I PROVE x >= y
  <2>1. n - x <= n - y
    BY <1>2, <1>3
  <2> QED
    BY <2>1
<1> SUFFICES \E z \in I : \A y \in I : z >= y
  BY DEF Max
<1> QED
  BY <1>4

(* insertObjectKey puts the key between the siblings it has in the source. *)
LEMMA PositionInside ==
  ASSUME NEW t, NEW s, IsDoc(t), IsDoc(s), NEW k \in KeySet(s)
  PROVE  Position(t, s, k) \in 1..(Len(t) + 1)
<1> DEFINE pos == IndexOf(s, k)
           n == Len(Keys(s))
           After == {i \in (pos + 1)..n : Has(t, Keys(s)[i])}
           Before == {i \in 1..(pos - 1) : Has(t, Keys(s)[i])}
           later == IF After # {} THEN Min(After) ELSE 0
           earlier == IF Before # {} THEN Max(Before) ELSE 0
<1>1. Position(t, s, k) = IF later > 0 THEN IndexOf(t, Keys(s)[later])
                          ELSE IF earlier > 0 THEN IndexOf(t, Keys(s)[earlier]) + 1
                          ELSE Len(t) + 1
  BY DEF Position, SelectInSubSeq, SelectLastInSubSeq
<1>2. n \in Nat /\ pos \in 1..n /\ Len(t) \in Nat
  BY KeysOfDoc, IndexOfKey
<1>3. \A x : Has(t, x) => IndexOf(t, x) \in 1..Len(t)
  BY ValueAt DEF Has, KeySet
<1>4. later > 0 => Has(t, Keys(s)[later])
  <2>1. After # {} => Min(After) \in After
    <3>1. After \in SUBSET ((pos + 1)..n) /\ pos + 1 \in Nat
      BY <1>2
    <3> HIDE DEF After, pos, n
    <3> QED
      BY <1>2, <3>1, LeastOf
  <2> QED
    BY <2>1
<1>5. earlier > 0 => Has(t, Keys(s)[earlier])
  <2>1. Before # {} => Max(Before) \in Before
    <3>1. Before \in SUBSET (1..(pos - 1)) /\ pos - 1 \in Int
      BY <1>2
    <3> HIDE DEF Before, pos, n
    <3> QED
      BY <1>2, <3>1, GreatestOf
  <2> QED
    BY <2>1
<1> HIDE DEF later, earlier
<1> QED
  BY <1>1, <1>2, <1>3, <1>4, <1>5

LEMMA PositionFits ==
  ASSUME NEW t, NEW s, IsDoc(t), IsDoc(s), SameOrder(s, t), NEW k \in KeySet(s) \ KeySet(t)
  PROVE  \A j \in KeySet(s) \cap KeySet(t) :
           IndexOf(s, j) < IndexOf(s, k) <=> IndexOf(t, j) < Position(t, s, k)
<1> DEFINE pos == IndexOf(s, k)
           n == Len(Keys(s))
           After == {i \in (pos + 1)..n : Has(t, Keys(s)[i])}
           Before == {i \in 1..(pos - 1) : Has(t, Keys(s)[i])}
           later == IF After # {} THEN Min(After) ELSE 0
           earlier == IF Before # {} THEN Max(Before) ELSE 0
<1>1. Position(t, s, k) = IF later > 0 THEN IndexOf(t, Keys(s)[later])
                          ELSE IF earlier > 0 THEN IndexOf(t, Keys(s)[earlier]) + 1
                          ELSE Len(t) + 1
  BY DEF Position, SelectInSubSeq, SelectLastInSubSeq
<1>2. n \in Nat /\ n = Len(s) /\ DOMAIN s = 1..n /\ pos \in 1..n /\ Keys(s)[pos] = k
  BY KeysOfDoc, IndexOfKey
<1>3. \A i \in 1..n : Keys(s)[i] \in KeySet(s) /\ IndexOf(s, Keys(s)[i]) = i
                       /\ (Has(t, Keys(s)[i]) <=> Keys(s)[i] \in KeySet(t))
  BY <1>2, KeysOfDoc, EntryAt DEF Has, KeySet
<1>4. \A j \in KeySet(s) : IndexOf(s, j) \in 1..n /\ Keys(s)[IndexOf(s, j)] = j
  BY <1>2, KeysOfDoc, IndexOfKey
<1>5. \A j \in KeySet(t) : IndexOf(t, j) \in 1..Len(t)
  BY ValueAt
<1>6. \A j, h \in KeySet(s) \cap KeySet(t) :
        IndexOf(s, j) < IndexOf(s, h) <=> IndexOf(t, j) < IndexOf(t, h)
  <2>1. InStep(s, t, KeySet(s) \cap KeySet(t)) /\ InStep(t, s, KeySet(s) \cap KeySet(t))
    BY InStepBoth DEF SameOrder
  <2> QED
    BY <2>1 DEF InStep
<1>7. After # {} => Min(After) \in After /\ \A i \in After : Min(After) <= i
  <2>1. After \in SUBSET ((pos + 1)..n) /\ pos + 1 \in Nat
    BY <1>2
  <2> HIDE DEF After, pos, n
  <2> QED
    BY <1>2, <2>1, LeastOf
<1>8. Before # {} => Max(Before) \in Before /\ \A i \in Before : i <= Max(Before)
  <2>1. Before \in SUBSET (1..(pos - 1)) /\ pos - 1 \in Int
    BY <1>2
  <2> HIDE DEF Before, pos, n
  <2> QED
    BY <1>2, <2>1, GreatestOf
<1>9. SUFFICES ASSUME NEW j \in KeySet(s) \cap KeySet(t)
               PROVE  IndexOf(s, j) < pos <=> IndexOf(t, j) < Position(t, s, k)
  OBVIOUS
<1>10. IndexOf(s, j) \in 1..n /\ IndexOf(s, j) # pos /\ Keys(s)[IndexOf(s, j)] = j /\ Has(t, j)
  BY <1>2, <1>4 DEF Has, KeySet
<1>11. CASE After # {}
  <2> DEFINE x == Keys(s)[later]
  <2>1. later \in After /\ \A i \in After : later <= i
    BY <1>7, <1>11
  <2>2. later \in 1..n /\ later > pos /\ x \in KeySet(s) \cap KeySet(t) /\ IndexOf(s, x) = later
    BY <1>2, <1>3, <2>1
  <2>3. Position(t, s, k) = IndexOf(t, x)
    <3>1. later > 0
      BY <1>2, <2>2
    <3> HIDE DEF later, earlier
    <3> QED
      BY <1>1, <3>1
  <2>4. IndexOf(s, j) > pos => IndexOf(s, j) \in After
    BY <1>2, <1>10
  <2>5. IndexOf(s, j) < pos <=> IndexOf(s, j) < later
    <3> DEFINE at == IndexOf(s, j)
    <3>1. at > pos => later <= at
      BY <2>1, <2>4
    <3>2. at \in Nat /\ at # pos /\ pos \in Nat /\ later \in Nat /\ later > pos
      BY <1>2, <1>10, <2>2
    <3> HIDE DEF at, pos, later
    <3>3. at < pos <=> at < later
      BY <3>1, <3>2
    <3> QED
      BY <3>3 DEF at
  <2> HIDE DEF x, later, After, pos
  <2> QED
    BY <1>6, <2>2, <2>3, <2>5
<1>12. CASE After = {} /\ Before # {}
  <2> DEFINE x == Keys(s)[earlier]
  <2>1. earlier \in Before /\ \A i \in Before : i <= earlier
    BY <1>8, <1>12
  <2>2. earlier \in 1..n /\ earlier < pos /\ x \in KeySet(s) \cap KeySet(t) /\ IndexOf(s, x) = earlier
    BY <1>2, <1>3, <2>1
  <2>3. Position(t, s, k) = IndexOf(t, x) + 1
    BY <1>1, <1>2, <1>12, <2>2
  <2>4. IndexOf(s, j) > pos => IndexOf(s, j) \in After
    BY <1>2, <1>10
  <2>5. IndexOf(s, j) < pos
    BY <1>2, <1>10, <1>12, <2>4
  <2>6. IndexOf(s, j) \in Before
    BY <1>2, <1>10, <2>5
  <2>7. ~(IndexOf(s, x) < IndexOf(s, j))
    BY <1>2, <1>10, <2>1, <2>2, <2>6
  <2>8. ~(IndexOf(t, x) < IndexOf(t, j))
    BY <1>6, <2>2, <2>7
  <2>9. IndexOf(t, x) \in Nat /\ IndexOf(t, j) \in Nat
    BY IndexOfKey
  <2> HIDE DEF x, pos
  <2> QED
    BY <2>3, <2>5, <2>8, <2>9
<1>13. CASE After = {} /\ Before = {}
  <2>1. IndexOf(s, j) > pos => IndexOf(s, j) \in After
    BY <1>2, <1>10
  <2>2. IndexOf(s, j) < pos => IndexOf(s, j) \in Before
    BY <1>2, <1>10
  <2> QED
    BY <1>2, <1>10, <1>13, <2>1, <2>2
<1> QED
  BY <1>11, <1>12, <1>13

(* copyChange writes one side only, and leaves a document.                 *)
LEMMA InsertKeyDoc ==
  ASSUME NEW t, NEW s, IsDoc(t), IsDoc(s), NEW k \in KeySet(s)
  PROVE  IsDoc(InsertKey(t, s, k, At(s, k)))
<1>1. At(s, k) \in Value /\ k \in Key
  BY ValueAt
<1>2. CASE k \in KeySet(t)
  BY <1>1, <1>2, AssignDoc DEF InsertKey, Has, KeySet
<1>3. CASE k \notin KeySet(t)
  <2>1. Position(t, s, k) \in 1..(Len(t) + 1)
    BY <1>3, PositionInside
  <2> QED
    BY <1>1, <1>3, <2>1, InsertDoc DEF InsertKey, Has, KeySet
<1> QED
  BY <1>2, <1>3

LEMMA WriteDoc ==
  ASSUME NEW t, NEW s, IsDoc(t), IsDoc(s), NEW tk, NEW sk,
         \/ tk \in KeySet(t) /\ sk \in KeySet(s)
         \/ tk \in KeySet(t) /\ sk = None
         \/ tk = None /\ sk \in KeySet(s)
  PROVE  IsDoc(WriteSide(t, s, tk, sk))
<1>1. None \notin KeySet(t) /\ None \notin KeySet(s)
  BY KeysOfDoc
<1>2. CASE sk = None
  BY <1>1, <1>2, DeleteDoc DEF WriteSide
<1>3. CASE sk # None /\ tk = None
  BY <1>1, <1>3, InsertKeyDoc DEF WriteSide
<1>4. CASE sk # None /\ tk # None
  <2>1. At(s, sk) \in Value
    BY <1>4, ValueAt
  <2> QED
    BY <1>4, <2>1, AssignDoc DEF WriteSide
<1> QED
  BY <1>2, <1>3, <1>4

(* u is t with the key k as s has it, or without it when s lacks it.       *)
Written(u, t, s, k) ==
  /\ IsDoc(u) /\ SameOrder(s, u)
  /\ \A j : j # k => (j \in KeySet(u) <=> j \in KeySet(t))
  /\ \A j \in KeySet(t) : j # k => At(u, j) = At(t, j)
  /\ k \in KeySet(u) <=> k \in KeySet(s)
  /\ k \in KeySet(s) => At(u, k) = At(s, k)

LEMMA WriteSettles ==
  ASSUME NEW t, NEW s, IsDoc(t), IsDoc(s), SameOrder(s, t), NEW k, NEW tk, NEW sk,
         \/ k \in KeySet(t) \cap KeySet(s) /\ tk = k /\ sk = k
         \/ k \in KeySet(t) \ KeySet(s) /\ tk = k /\ sk = None
         \/ k \in KeySet(s) \ KeySet(t) /\ tk = None /\ sk = k
  PROVE  Written(WriteSide(t, s, tk, sk), t, s, k)
<1> DEFINE u == WriteSide(t, s, tk, sk)
           B == KeySet(s) \cap KeySet(t)
<1>1. None \notin KeySet(t) /\ None \notin KeySet(s)
  BY KeysOfDoc
<1>2. \A i, j \in B : IndexOf(s, i) < IndexOf(s, j) => IndexOf(t, i) < IndexOf(t, j)
  BY DEF SameOrder, InStep
<1>3. /\ \A j \in KeySet(s) : IndexOf(s, j) \in Nat
      /\ \A j \in KeySet(t) : IndexOf(t, j) \in Nat
      /\ \A i, j \in KeySet(s) : IndexOf(s, i) = IndexOf(s, j) => i = j
      /\ \A i, j \in KeySet(t) : IndexOf(t, i) = IndexOf(t, j) => i = j
  BY IndexOfKey
<1>4. CASE k \in KeySet(t) \cap KeySet(s) /\ tk = k /\ sk = k
  <2>1. u = Assign(t, k, At(s, k)) /\ At(s, k) \in Value
    BY <1>1, <1>4, ValueAt DEF WriteSide
  <2> HIDE DEF u
  <2>2. /\ IsDoc(u) /\ KeySet(u) = KeySet(t) /\ At(u, k) = At(s, k)
        /\ \A j \in KeySet(t) : IndexOf(u, j) = IndexOf(t, j)
        /\ \A j \in KeySet(t) \ {k} : At(u, j) = At(t, j)
    BY <1>4, <2>1, AssignDoc
  <2>3. SameOrder(s, u)
    BY <1>2, <2>2 DEF SameOrder, InStep
  <2> QED
    BY <1>4, <2>2, <2>3 DEF Written, u
<1>5. CASE k \in KeySet(t) \ KeySet(s) /\ tk = k /\ sk = None
  <2>1. u = Delete(t, k)
    BY <1>5 DEF WriteSide
  <2> HIDE DEF u
  <2>2. /\ IsDoc(u) /\ KeySet(u) = KeySet(t) \ {k}
        /\ \A j \in KeySet(t) \ {k} :
             /\ At(u, j) = At(t, j)
             /\ IndexOf(u, j) = IF IndexOf(t, j) < IndexOf(t, k) THEN IndexOf(t, j)
                                ELSE IndexOf(t, j) - 1
    BY <1>5, <2>1, DeleteDoc
  <2>3. ASSUME NEW i \in KeySet(s) \cap KeySet(u), NEW j \in KeySet(s) \cap KeySet(u),
               IndexOf(s, i) < IndexOf(s, j)
        PROVE  IndexOf(u, i) < IndexOf(u, j)
    <3>1. IndexOf(t, i) < IndexOf(t, j) /\ IndexOf(t, i) # IndexOf(t, k) /\ IndexOf(t, j) # IndexOf(t, k)
      BY <1>2, <1>3, <1>5, <2>2, <2>3
    <3> QED
      BY <1>3, <1>5, <2>2, <3>1
  <2>4. SameOrder(s, u)
    BY <2>3 DEF SameOrder, InStep
  <2> QED
    BY <1>5, <2>2, <2>4 DEF Written, u
<1>6. CASE k \in KeySet(s) \ KeySet(t) /\ tk = None /\ sk = k
  <2> DEFINE p == Position(t, s, k)
  <2>1. u = InsertAt(t, p, [key |-> k, val |-> At(s, k)])
    BY <1>1, <1>6 DEF WriteSide, InsertKey, Has, KeySet
  <2>2. p \in 1..(Len(t) + 1) /\ At(s, k) \in Value /\ k \in Key \ KeySet(t)
    BY <1>6, PositionInside, ValueAt
  <2>3. \A j \in B : IndexOf(s, j) < IndexOf(s, k) <=> IndexOf(t, j) < p
    BY <1>6, PositionFits
  <2> HIDE DEF u, p
  <2>4. /\ IsDoc(u) /\ KeySet(u) = KeySet(t) \cup {k} /\ At(u, k) = At(s, k) /\ IndexOf(u, k) = p
        /\ \A j \in KeySet(t) :
             /\ At(u, j) = At(t, j)
             /\ IndexOf(u, j) = IF IndexOf(t, j) < p THEN IndexOf(t, j) ELSE IndexOf(t, j) + 1
    BY <2>1, <2>2, InsertDoc
  <2>5. p \in Nat
    BY <2>2, <1>1
  <2>6. ASSUME NEW i \in KeySet(s) \cap KeySet(u), NEW j \in KeySet(s) \cap KeySet(u),
               IndexOf(s, i) < IndexOf(s, j)
        PROVE  IndexOf(u, i) < IndexOf(u, j)
    <3>1. CASE i \in B /\ j \in B
      <4>1. IndexOf(t, i) < IndexOf(t, j)
        BY <1>2, <2>6, <3>1
      <4> QED
        BY <1>3, <2>4, <2>5, <3>1, <4>1
    <3>2. CASE i = k /\ j \in B
      <4>1. ~(IndexOf(t, j) < p)
        BY <1>3, <1>6, <2>3, <2>6, <3>2
      <4> QED
        BY <1>3, <2>4, <2>5, <3>2, <4>1
    <3>3. CASE i \in B /\ j = k
      <4>1. IndexOf(t, i) < p
        BY <2>3, <2>6, <3>3
      <4> QED
        BY <1>3, <2>4, <2>5, <3>3, <4>1
    <3>4. CASE i = k /\ j = k
      BY <1>3, <1>6, <2>6, <3>4
    <3> QED
      BY <2>4, <3>1, <3>2, <3>3, <3>4
  <2>7. SameOrder(s, u)
    BY <2>6 DEF SameOrder, InStep
  <2> QED
    BY <1>6, <2>4, <2>7 DEF Written, u
<1> QED
  BY <1>4, <1>5, <1>6

(* The changes of two documents with their common keys in one order.       *)
LEMMA ChangesInOrder ==
  ASSUME NEW l, NEW r, IsDoc(l), IsDoc(r), SameOrder(l, r)
  PROVE  ChangesOf(l, r) =
           {Modifying(k) : k \in {k \in KeySet(l) \cap KeySet(r) : InDelta(l, r, k)}}
           \cup {Removing(k) : k \in KeySet(l) \ KeySet(r)}
           \cup {Adding(k) : k \in KeySet(r) \ KeySet(l)}
<1>1. PairedKeys(l, r) = KeySet(l) \cap KeySet(r)
  BY SameOrderPairsAll
<1>2. /\ KeySet(l) \ PairedKeys(l, r) = KeySet(l) \ KeySet(r)
      /\ KeySet(r) \ PairedKeys(l, r) = KeySet(r) \ KeySet(l)
  BY <1>1
<1> QED
  BY <1>1, <1>2, ChangesAre

(* The two sides of a key agree, and nothing else changed.                 *)
LEMMA ChangeSettled ==
  ASSUME NEW l, NEW r, IsDoc(l), IsDoc(r), SameOrder(l, r),
         NEW u, NEW v, IsDoc(u), IsDoc(v), SameOrder(u, v),
         NEW k,
         \A j : j # k => /\ j \in KeySet(u) <=> j \in KeySet(l)
                         /\ j \in KeySet(v) <=> j \in KeySet(r),
         \A j \in KeySet(l) : j # k => At(u, j) = At(l, j),
         \A j \in KeySet(r) : j # k => At(v, j) = At(r, j),
         k \in KeySet(u) <=> k \in KeySet(v),
         k \in KeySet(u) => At(u, k) = At(v, k),
         NEW c \in ChangesOf(l, r), c \in {Modifying(k), Removing(k), Adding(k)}
  PROVE  ChangesOf(u, v) = ChangesOf(l, r) \ {c}
<1> DEFINE M(d, e) == {j \in KeySet(d) \cap KeySet(e) : InDelta(d, e, j)}
           Three(A, B, C) == {Modifying(j) : j \in A} \cup {Removing(j) : j \in B} \cup {Adding(j) : j \in C}
<1>1. /\ ChangesOf(l, r) = Three(M(l, r), KeySet(l) \ KeySet(r), KeySet(r) \ KeySet(l))
      /\ ChangesOf(u, v) = Three(M(u, v), KeySet(u) \ KeySet(v), KeySet(v) \ KeySet(u))
  BY ChangesInOrder
<1>2. /\ KeySet(u) \ KeySet(v) = (KeySet(l) \ KeySet(r)) \ {k}
      /\ KeySet(v) \ KeySet(u) = (KeySet(r) \ KeySet(l)) \ {k}
  OBVIOUS
<1>3. M(u, v) = M(l, r) \ {k}
  <2>1. ASSUME NEW j, j # k PROVE j \in M(u, v) <=> j \in M(l, r)
    BY <2>1 DEF InDelta
  <2>2. k \notin M(u, v)
    BY DEF InDelta
  <2> HIDE DEF M
  <2> QED
    BY <2>1, <2>2
<1>4. \A i, j : /\ Modifying(i) # Removing(j) /\ Modifying(i) # Adding(j) /\ Removing(i) # Adding(j)
                /\ Modifying(i) = Modifying(j) => i = j
                /\ Removing(i) = Removing(j) => i = j
                /\ Adding(i) = Adding(j) => i = j
  <2>1. \A i : /\ Modifying(i).kind = "modified" /\ Removing(i).kind = "removed" /\ Adding(i).kind = "added"
               /\ Modifying(i).leftKey = i /\ Removing(i).leftKey = i /\ Adding(i).rightKey = i
    BY DEF Modifying, Removing, Adding
  <2> QED
    BY <2>1
<1> DEFINE A == M(l, r)
           B == KeySet(l) \ KeySet(r)
           C == KeySet(r) \ KeySet(l)
<1>5. A \cap B = {} /\ A \cap C = {} /\ B \cap C = {}
  OBVIOUS
<1>6. ChangesOf(u, v) = Three(A \ {k}, B \ {k}, C \ {k}) /\ ChangesOf(l, r) = Three(A, B, C)
  BY <1>1, <1>2, <1>3
<1> HIDE DEF A, B, C, M
<1>7. ASSUME NEW x \in ChangesOf(u, v) PROVE x \in ChangesOf(l, r) /\ x # c
  BY <1>4, <1>6
<1>8. ASSUME NEW x \in ChangesOf(l, r), x # c PROVE x \in ChangesOf(u, v)
  <2>1. \A y \in ChangesOf(l, r) : /\ y = Modifying(k) => k \in A
                                   /\ y = Removing(k) => k \in B
                                   /\ y = Adding(k) => k \in C
    BY <1>4, <1>6
  <2>2. x \notin {Modifying(k), Removing(k), Adding(k)}
    BY <1>5, <1>8, <2>1
  <2> QED
    BY <1>6, <2>2
<1> QED
  BY <1>7, <1>8

(* What ArrowsResolve says of two documents and their changes.             *)
LEMMA ArrowOfDocs ==
  ASSUME NEW l, NEW r, IsDoc(l), IsDoc(r), SameOrder(l, r),
         NEW c \in ChangesOf(l, r), NEW dir \in Direction
  PROVE  LET u == CopiedLeft(l, r, c, dir)
             v == CopiedRight(l, r, c, dir)
         IN  ChangesOf(u, v) = ChangesOf(l, r) \ {c} /\ SameOrder(u, v)
<1> DEFINE u == CopiedLeft(l, r, c, dir)
           v == CopiedRight(l, r, c, dir)
<1>1. SameOrder(r, l)
  BY InStepBoth DEF SameOrder
<1>2. PICK k : /\ c \in {Modifying(k), Removing(k), Adding(k)}
               /\ \/ k \in KeySet(l) \cap KeySet(r) /\ c.leftKey = k /\ c.rightKey = k
                  \/ k \in KeySet(l) \ KeySet(r) /\ c.leftKey = k /\ c.rightKey = None
                  \/ k \in KeySet(r) \ KeySet(l) /\ c.leftKey = None /\ c.rightKey = k
  <2>1. \A j : /\ Modifying(j).leftKey = j /\ Modifying(j).rightKey = j
               /\ Removing(j).leftKey = j /\ Removing(j).rightKey = None
               /\ Adding(j).leftKey = None /\ Adding(j).rightKey = j
    BY DEF Modifying, Removing, Adding
  <2>2. \/ \E j \in KeySet(l) \cap KeySet(r) : c = Modifying(j)
        \/ \E j \in KeySet(l) \ KeySet(r) : c = Removing(j)
        \/ \E j \in KeySet(r) \ KeySet(l) : c = Adding(j)
    BY ChangesInOrder
  <2> QED
    BY <2>1, <2>2
<1>3. CASE dir = "to-left"
  <2>1. u = WriteSide(l, r, c.leftKey, c.rightKey) /\ v = r
    BY <1>3 DEF CopiedLeft, CopiedRight
  <2> HIDE DEF u, v
  <2>2. Written(u, l, r, k)
    BY <1>1, <1>2, <2>1, WriteSettles
  <2>3. IsDoc(u) /\ SameOrder(r, u) /\ SameOrder(u, r)
    <3>1. IsDoc(u) /\ SameOrder(r, u)
      BY <2>2 DEF Written
    <3>2. SameOrder(u, r)
      BY <3>1, InStepBoth DEF SameOrder
    <3> QED
      BY <3>1, <3>2
  <2>4. ChangesOf(u, r) = ChangesOf(l, r) \ {c}
    BY <1>2, <2>2, <2>3, ChangeSettled DEF Written
  <2> QED
    BY <2>1, <2>3, <2>4 DEF u, v
<1>4. CASE dir = "to-right"
  <2>1. v = WriteSide(r, l, c.rightKey, c.leftKey) /\ u = l
    BY <1>4 DEF CopiedLeft, CopiedRight
  <2> HIDE DEF u, v
  <2>2. Written(v, r, l, k)
    BY <1>2, <2>1, WriteSettles
  <2>3. IsDoc(v) /\ SameOrder(l, v)
    BY <2>2 DEF Written
  <2>4. ChangesOf(l, v) = ChangesOf(l, r) \ {c}
    <3>1. /\ \A j : j # k => (j \in KeySet(v) <=> j \in KeySet(r))
          /\ \A j \in KeySet(r) : j # k => At(v, j) = At(r, j)
          /\ k \in KeySet(l) <=> k \in KeySet(v)
          /\ k \in KeySet(l) => At(l, k) = At(v, k)
      BY <2>2 DEF Written
    <3> QED
      BY <1>2, <2>3, <3>1, ChangeSettled
  <2> QED
    BY <2>1, <2>3, <2>4 DEF u, v
<1> QED
  BY <1>3, <1>4 DEF Direction

(* Printing a document keeps its keys.                                     *)
LEMMA PrintedDoc ==
  ASSUME NEW d, IsDoc(d), NEW misread
  PROVE  /\ IsDoc(Printed(d, misread)) /\ Keys(Printed(d, misread)) = Keys(d)
         /\ \A k \in KeySet(d) : At(Printed(d, misread), k) = IF k \in misread THEN Emptied ELSE At(d, k)
<1> DEFINE u == Printed(d, misread)
<1>1. /\ d \in Seq(Entry) /\ DOMAIN d = 1..Len(d) /\ Len(d) \in Nat /\ IsInjective(Keys(d))
      /\ \A i \in DOMAIN d : d[i] \in Entry
  BY KeysOfDoc DEF IsDoc
<1>2. \A e \in Entry : /\ [e EXCEPT !.val = Emptied] \in Entry
                       /\ [e EXCEPT !.val = Emptied].key = e.key /\ [e EXCEPT !.val = Emptied].val = Emptied
  BY MergeAssumption DEF Entry
<1>3. /\ u = [i \in 1..Len(d) |-> u[i]]
      /\ \A i \in DOMAIN d : /\ u[i] \in Entry /\ u[i].key = d[i].key
                             /\ u[i].val = IF d[i].key \in misread THEN Emptied ELSE d[i].val
  BY <1>1, <1>2 DEF Printed
<1>4. DOMAIN u = DOMAIN d
  BY DEF Printed
<1> HIDE DEF u
<1>5. u \in Seq(Entry)
  BY <1>1, <1>3
<1>6. Keys(u) = Keys(d)
  BY <1>3, <1>4 DEF Keys
<1>7. IsDoc(u)
  BY <1>1, <1>5, <1>6 DEF IsDoc, IsObject
<1>8. ASSUME NEW k \in KeySet(d) PROVE At(u, k) = IF k \in misread THEN Emptied ELSE At(d, k)
  <2>1. PICK i \in DOMAIN d : d[i].key = k
    BY KeysOfDoc
  <2>2. At(d, k) = d[i].val
    BY <2>1, EntryAt
  <2>3. u[i].key = k /\ At(u, k) = u[i].val
    BY <1>3, <1>4, <1>7, <2>1, EntryAt
  <2> QED
    BY <1>3, <2>1, <2>2, <2>3
<1> QED
  BY <1>6, <1>7, <1>8 DEF u

(* The texts a comparison prints have the changes it lists.                *)
LEMMA PrintedChanges ==
  ASSUME NEW l, NEW r, IsDoc(l), IsDoc(r)
  PROVE  ChangesOf(Printed(l, Misread(l, r)), Printed(r, Misread(l, r))) = ChangesOf(l, r)
<1> DEFINE X == Misread(l, r)
           u == Printed(l, X)
           v == Printed(r, X)
<1>1. /\ IsDoc(u) /\ IsDoc(v) /\ Keys(u) = Keys(l) /\ Keys(v) = Keys(r)
      /\ \A k \in KeySet(l) : At(u, k) = IF k \in X THEN Emptied ELSE At(l, k)
      /\ \A k \in KeySet(r) : At(v, k) = IF k \in X THEN Emptied ELSE At(r, k)
  BY PrintedDoc
<1>2. \A k \in X : ~InDelta(l, r, k)
  BY DEF Misread
<1> HIDE DEF u, v, X
<1>3. Rows(u, v) = Rows(l, r) /\ Common(u, v) = Common(l, r)
  BY <1>1 DEF Rows, Common
<1>4. PairedKeys(l, r) \subseteq KeySet(l) \cap KeySet(r)
  BY RowsAre
<1>5. \A k \in PairedKeys(l, r) : InDelta(u, v, k) <=> InDelta(l, r, k)
  BY <1>1, <1>2, <1>4 DEF InDelta
<1>6. \A w \in Common(l, r) : w.leftKey \in PairedKeys(l, r)
  BY DEF PairedKeys
<1>7. {w \in ToSet(Rows(u, v)) : w \in Common(u, v) => InDelta(u, v, w.leftKey)}
        = {w \in ToSet(Rows(l, r)) : w \in Common(l, r) => InDelta(l, r, w.leftKey)}
  BY <1>3, <1>5, <1>6
<1>8. ChangesOf(u, v) = ChangesOf(l, r)
  BY <1>7 DEF ChangesOf
<1> QED
  BY <1>8 DEF u, v, X

-----------------------------------------------------------------------------
(* The theorems about objects.                                             *)

(* The documents hold no key twice, and what is listed is what a           *)
(* comparison of the documents in the editors lists.                       *)
ObjectsInv ==
  /\ IsDoc(left) /\ IsDoc(right)
  /\ changes = None \/ changes = ChangesOf(left, right)

LEMMA ObjectsAreDocs == \A d \in Objects \cup {<<>>} : IsDoc(d)
<1>1. ASSUME NEW d \in Objects PROVE IsDoc(d)
  <2>1. PICK n \in 0..MaxKeys : d \in [1..n -> Entry]
    BY DEF Objects, BoundedSeq, SeqOf
  <2>2. d \in Seq(Entry)
    BY <2>1, MergeAssumption
  <2> QED
    BY <2>2 DEF Objects, IsDoc
<1>2. IsDoc(<<>>)
  BY DEF IsDoc, IsObject, IsInjective, Keys
<1> QED
  BY <1>1, <1>2

LEMMA ShowDocs ==
  ASSUME NEW l, NEW r, IsDoc(l), IsDoc(r), Show(l, r)
  PROVE  ObjectsInv'
<1>1. left' = Printed(l, Misread(l, r)) /\ right' = Printed(r, Misread(l, r)) /\ changes' = ChangesOf(l, r)
  BY DEF Show
<1>2. IsDoc(left') /\ IsDoc(right')
  BY <1>1, PrintedDoc
<1>3. ChangesOf(left', right') = ChangesOf(l, r)
  BY <1>1, PrintedChanges
<1> QED
  BY <1>1, <1>2, <1>3 DEF ObjectsInv

LEMMA ChangeKeys ==
  ASSUME NEW l, NEW r, IsDoc(l), IsDoc(r), NEW c \in ChangesOf(l, r)
  PROVE  \/ c.leftKey \in KeySet(l) /\ c.rightKey \in KeySet(r)
         \/ c.leftKey \in KeySet(l) /\ c.rightKey = None
         \/ c.leftKey = None /\ c.rightKey \in KeySet(r)
<1>1. PairedKeys(l, r) \subseteq KeySet(l) \cap KeySet(r)
  BY RowsAre
<1>2. \A j : /\ Modifying(j).leftKey = j /\ Modifying(j).rightKey = j
             /\ Removing(j).leftKey = j /\ Removing(j).rightKey = None
             /\ Adding(j).leftKey = None /\ Adding(j).rightKey = j
  BY DEF Modifying, Removing, Adding
<1>3. \/ \E j \in PairedKeys(l, r) : c = Modifying(j)
      \/ \E j \in KeySet(l) : c = Removing(j)
      \/ \E j \in KeySet(r) : c = Adding(j)
  BY ChangesAre
<1> QED
  BY <1>1, <1>2, <1>3

LEMMA CopiedDocs ==
  ASSUME NEW l, NEW r, IsDoc(l), IsDoc(r), NEW c \in ChangesOf(l, r), NEW dir \in Direction
  PROVE  IsDoc(CopiedLeft(l, r, c, dir)) /\ IsDoc(CopiedRight(l, r, c, dir))
<1>1. \/ c.leftKey \in KeySet(l) /\ c.rightKey \in KeySet(r)
      \/ c.leftKey \in KeySet(l) /\ c.rightKey = None
      \/ c.leftKey = None /\ c.rightKey \in KeySet(r)
  BY ChangeKeys
<1>2. IsDoc(WriteSide(l, r, c.leftKey, c.rightKey)) /\ IsDoc(WriteSide(r, l, c.rightKey, c.leftKey))
  <2>1. CASE c.leftKey \in KeySet(l) /\ c.rightKey \in KeySet(r)
    BY <2>1, WriteDoc
  <2>2. CASE c.leftKey \in KeySet(l) /\ c.rightKey = None
    BY <2>2, WriteDoc
  <2>3. CASE c.leftKey = None /\ c.rightKey \in KeySet(r)
    BY <2>3, WriteDoc
  <2> QED
    BY <1>1, <2>1, <2>2, <2>3
<1> QED
  BY <1>2 DEF CopiedLeft, CopiedRight

LEMMA ObjectsInit == InitContainer => ObjectsInv
<1> SUFFICES ASSUME InitContainer PROVE ObjectsInv
  OBVIOUS
<1>1. left \in Objects \cup {<<>>} /\ right \in Objects \cup {<<>>} /\ changes = None
  BY DEF InitContainer, Init
<1> QED
  BY <1>1, ObjectsAreDocs DEF ObjectsInv

LEMMA ObjectsStep == ObjectsInv /\ [NextContainer]_allVars => ObjectsInv'
<1> SUFFICES ASSUME ObjectsInv, [NextContainer]_allVars PROVE ObjectsInv'
  OBVIOUS
<1>1. CASE CompareObjects
  BY <1>1, ShowDocs DEF ObjectsInv, CompareObjects, Compare
<1>2. CASE CompareArrays
  BY <1>2 DEF ObjectsInv, CompareArrays, vars
<1>3. ASSUME NEW c \in Change, NEW dir \in Direction, CopyInObject(c, dir) PROVE ObjectsInv'
  <2>1. changes # None /\ c \in changes
    BY <1>3 DEF CopyInObject, Copy
  <2>2. c \in ChangesOf(left, right)
    BY <2>1 DEF ObjectsInv
  <2>3. IsDoc(CopiedLeft(left, right, c, dir)) /\ IsDoc(CopiedRight(left, right, c, dir))
    BY <2>2, CopiedDocs DEF ObjectsInv
  <2>4. Show(CopiedLeft(left, right, c, dir), CopiedRight(left, right, c, dir))
    BY <1>3 DEF CopyInObject, Copy
  <2> QED
    BY <2>3, <2>4, ShowDocs
<1>4. ASSUME NEW c \in Arrays!Change, NEW dir \in Direction, CopyInArray(c, dir) PROVE ObjectsInv'
  BY <1>4 DEF ObjectsInv, CopyInArray, vars
<1>5. CASE UNCHANGED allVars
  BY <1>5 DEF ObjectsInv, allVars, vars
<1> QED
  BY <1>1, <1>2, <1>3, <1>4, <1>5 DEF NextContainer

(* Typing, comparing, mergeKeyOrder on the server and the arrows keep the  *)
(* inductive invariant of objects.                                         *)
THEOREM ObjectsInvAlways == SpecContainer => []ObjectsInv
  BY ObjectsInit, ObjectsStep, PTL DEF SpecContainer

(* Every comparison of two objects, before or after any arrows, lists all  *)
(* keys of each side, in that side's order (lineDiff.ts alignObjectKeys).  *)
THEOREM RowsKeepOrderAlways == SpecContainer => []RowsKeepOrder
<1>1. ObjectsInv => RowsKeepOrder
  BY RowsList DEF ObjectsInv, RowsKeepOrder
<1> QED
  BY <1>1, ObjectsInvAlways, PTL

(* The table of alignObjectKeys and the walk over it pair as many keys as  *)
(* any choice of common keys in one order could.                           *)
THEOREM PairsAreMostAlways == SpecContainer => []PairsAreMost
<1>1. ObjectsInv => PairsAreMost
  BY RowsList, LcsIsMost DEF ObjectsInv, PairsAreMost
<1> QED
  BY <1>1, ObjectsInvAlways, PTL

(* The statistics of the API and the listed changes differ by exactly the  *)
(* keys whose order changed (internal/diff/diff.go, lineDiff.ts).          *)
THEOREM StatsAgreeAlways == SpecContainer => []StatsAgree
<1>1. ObjectsInv => StatsAgree
  BY StatsOfDocs DEF ObjectsInv
<1> QED
  BY <1>1, ObjectsInvAlways, PTL

(* With the common keys in one order, an arrow settles its own change and  *)
(* no other, and keeps the order (applyChange.ts copyChange).              *)
THEOREM ArrowsResolveAlways == SpecContainer => []ArrowsResolve
<1>1. ObjectsInv => ArrowsResolve
  <2> SUFFICES ASSUME ObjectsInv, changes # None, SameOrder(left, right),
                      NEW c \in changes, NEW dir \in Direction
               PROVE  LET u == CopiedLeft(left, right, c, dir)
                          v == CopiedRight(left, right, c, dir)
                      IN  ChangesOf(u, v) = changes \ {c} /\ SameOrder(u, v)
    BY DEF ArrowsResolve
  <2>1. IsDoc(left) /\ IsDoc(right) /\ changes = ChangesOf(left, right)
    BY DEF ObjectsInv
  <2> QED
    BY <2>1, ArrowOfDocs
<1> QED
  BY <1>1, ObjectsInvAlways, PTL

-----------------------------------------------------------------------------
(* Arrays: sets of indices in order.                                       *)

(* The library reads the same through ArrayMerge.                          *)
LEMMA LibraryOfArrays ==
  /\ \A S : Arrays!Cardinality(S) = Cardinality(S)
  /\ \A d, p, e : Arrays!InsertAt(d, p, e) = InsertAt(d, p, e)
  /\ \A d, p : Arrays!RemoveAt(d, p) = RemoveAt(d, p)
  /\ \A d : Arrays!ToSet(d) = ToSet(d)
  /\ \A f : Arrays!IsInjective(f) = IsInjective(f)
  /\ \A S, n : Arrays!BoundedSeq(S, n) = BoundedSeq(S, n)
<1>1. \A S : Arrays!Cardinality(S) = Cardinality(S)
  BY DEF Arrays!Cardinality, Cardinality
<1>2. \A d, p, e : Arrays!InsertAt(d, p, e) = InsertAt(d, p, e)
  BY DEF Arrays!InsertAt, InsertAt
<1>3. \A d, p : Arrays!RemoveAt(d, p) = RemoveAt(d, p)
  BY DEF Arrays!RemoveAt, RemoveAt
<1>4. \A d : Arrays!ToSet(d) = ToSet(d)
  BY DEF Arrays!ToSet, ToSet
<1>5. \A f : Arrays!IsInjective(f) = IsInjective(f)
  BY DEF Arrays!IsInjective, IsInjective
<1>6. \A S, n : Arrays!BoundedSeq(S, n) = BoundedSeq(S, n)
  BY DEF Arrays!BoundedSeq, BoundedSeq, Arrays!SeqOf, SeqOf
<1> QED
  BY <1>1, <1>2, <1>3, <1>4, <1>5, <1>6

LEMMA UpToCounts == \A n \in Nat : IsFiniteSet(1..n) /\ Cardinality(1..n) = n
<1> SUFFICES ASSUME NEW n \in Nat PROVE IsFiniteSet(1..n) /\ Cardinality(1..n) = n
  OBVIOUS
<1>1. IsFiniteSet(1..n) /\ Cardinality(1..n) = IF 1 > n THEN 0 ELSE n - 1 + 1
  BY FS_Interval
<1> QED
  BY <1>1

LEMMA BelowIs == \A S, x : Arrays!Below(S, x) = Cardinality({h \in S : h < x})
  BY LibraryOfArrays DEF Arrays!Below

LEMMA BelowGrows ==
  ASSUME NEW S \in SUBSET Nat, IsFiniteSet(S)
  PROVE  /\ \A x : Arrays!Below(S, x) \in Nat
         /\ \A x \in S, y \in Nat : x < y => Arrays!Below(S, x) < Arrays!Below(S, y)
         /\ \A x, y \in Nat : x <= y => Arrays!Below(S, x) <= Arrays!Below(S, y)
         /\ \A x \in S : Arrays!Below(S, x) < Cardinality(S)
<1> DEFINE B(x) == {h \in S : h < x}
<1>1. \A x : IsFiniteSet(B(x)) /\ Cardinality(B(x)) \in Nat /\ B(x) \subseteq S
  BY FS_Subset, FS_CardinalityType
<1>2. ASSUME NEW x \in S, NEW T \in SUBSET S, B(x) \subseteq T, x \in T
      PROVE  Cardinality(B(x)) < Cardinality(T)
  <2>1. IsFiniteSet(T) /\ Cardinality(T) \in Nat
    BY FS_Subset, FS_CardinalityType
  <2>2. x \notin B(x)
    OBVIOUS
  <2> HIDE DEF B
  <2>3. /\ Cardinality(B(x)) <= Cardinality(T)
        /\ Cardinality(T) = Cardinality(B(x)) => T = B(x)
    BY <1>2, <2>1, FS_Subset
  <2>4. Cardinality(B(x)) # Cardinality(T)
    BY <1>2, <2>2, <2>3
  <2> QED
    BY <1>1, <2>1, <2>3, <2>4
<1>3. ASSUME NEW x \in S, NEW y \in Nat, x < y PROVE Cardinality(B(x)) < Cardinality(B(y))
  <2>1. B(x) \subseteq B(y) /\ x \in B(y) /\ B(y) \in SUBSET S
    <3>1. \A h \in S : h < x => h < y
      BY <1>3
    <3> QED
      BY <1>3, <3>1
  <2> HIDE DEF B
  <2> QED
    BY <1>2, <2>1
<1>4. ASSUME NEW x \in Nat, NEW y \in Nat, x <= y PROVE Cardinality(B(x)) <= Cardinality(B(y))
  <2>1. B(x) \subseteq B(y)
    <3>1. \A h \in S : h < x => h < y
      BY <1>4
    <3> QED
      BY <3>1
  <2> HIDE DEF B
  <2> QED
    BY <1>1, <2>1, FS_Subset
<1>5. \A x \in S : Cardinality(B(x)) < Cardinality(S)
  BY <1>1, <1>2
<1>6. \A x : Arrays!Below(S, x) = Cardinality(B(x))
  BY BelowIs
<1> HIDE DEF B
<1> QED
  BY <1>1, <1>3, <1>4, <1>5, <1>6

(* f lists the numbers of S from the smallest to the largest.              *)
Enumerates(f, S) ==
  /\ Cardinality(S) \in Nat
  /\ f \in [1..Cardinality(S) -> S]
  /\ \A i \in S : \E k \in 1..Cardinality(S) : f[k] = i
  /\ \A j, k \in 1..Cardinality(S) : j < k => f[j] < f[k]
  /\ \A k \in 1..Cardinality(S) : Arrays!Below(S, f[k]) = k - 1

LEMMA InOrderEnumerates ==
  ASSUME NEW S \in SUBSET Nat, IsFiniteSet(S)
  PROVE  Enumerates(Arrays!InOrder(S), S)
<1> DEFINE n == Cardinality(S)
           f == Arrays!InOrder(S)
           rank == [i \in S |-> Arrays!Below(S, i)]
<1>1. n \in Nat
  BY FS_CardinalityType
<1>2. /\ \A x \in S : Arrays!Below(S, x) \in 0..(n - 1)
      /\ \A x, y \in S : x < y => Arrays!Below(S, x) < Arrays!Below(S, y)
      /\ \A x, y \in S : Arrays!Below(S, x) = Arrays!Below(S, y) => x = y
  <2>1. \A x \in S : Arrays!Below(S, x) \in Nat /\ Arrays!Below(S, x) < n /\ x \in Nat
    BY BelowGrows
  <2>2. \A x, y \in S : x < y => Arrays!Below(S, x) < Arrays!Below(S, y)
    BY BelowGrows
  <2> HIDE DEF n
  <2>3. \A x, y \in S : Arrays!Below(S, x) = Arrays!Below(S, y) => x = y
    <3>1. \A x, y \in S : x < y \/ y < x \/ x = y
      BY <2>1
    <3> QED
      BY <2>1, <2>2, <3>1
  <2> QED
    BY <1>1, <2>1, <2>2, <2>3
<1> HIDE DEF n
<1>3. rank \in Injection(S, 0..(n - 1))
  BY <1>2 DEF Injection, IsInjective
<1>4. IsFiniteSet(0..(n - 1)) /\ Cardinality(0..(n - 1)) = n
  <2>1. /\ IsFiniteSet(0..(n - 1))
        /\ Cardinality(0..(n - 1)) = IF 0 > n - 1 THEN 0 ELSE (n - 1) - 0 + 1
    BY <1>1, FS_Interval
  <2> QED
    BY <1>1, <2>1
<1>5. rank \in Surjection(S, 0..(n - 1))
  <2> HIDE DEF rank
  <2> QED
    BY <1>3, <1>4, FS_Injection DEF n
<1>6. \A k \in 1..n : \E i \in S : Arrays!Below(S, i) = k - 1
  <2>1. \A c \in 0..(n - 1) : \E i \in S : Arrays!Below(S, i) = c
    BY <1>5 DEF Surjection
  <2>2. \A k \in 1..n : k - 1 \in 0..(n - 1)
    BY <1>1
  <2> QED
    BY <2>1, <2>2
<1>7. f = [k \in 1..n |-> CHOOSE i \in S : Arrays!Below(S, i) = k - 1]
  BY LibraryOfArrays DEF Arrays!InOrder, n
<1> HIDE DEF f
<1>8. \A k \in 1..n : f[k] \in S /\ Arrays!Below(S, f[k]) = k - 1
  BY <1>6, <1>7
<1>9. f \in [1..n -> S]
  BY <1>7, <1>8
<1>10. \A i \in S : \E k \in 1..n : f[k] = i
  <2> SUFFICES ASSUME NEW i \in S PROVE \E k \in 1..n : f[k] = i
    OBVIOUS
  <2> DEFINE k == Arrays!Below(S, i) + 1
  <2>1. k \in 1..n /\ k - 1 = Arrays!Below(S, i)
    BY <1>1, <1>2
  <2> HIDE DEF k
  <2>2. f[k] = i
    BY <1>2, <1>8, <2>1
  <2> QED
    BY <2>1, <2>2
<1>11. ASSUME NEW j \in 1..n, NEW k \in 1..n, j < k PROVE f[j] < f[k]
  <2>1. /\ f[j] \in S /\ f[k] \in S /\ f[j] \in Nat /\ f[k] \in Nat
        /\ Arrays!Below(S, f[j]) = j - 1 /\ Arrays!Below(S, f[k]) = k - 1
    BY <1>8
  <2>2. ~(f[k] < f[j]) /\ f[j] # f[k]
    BY <1>1, <1>2, <1>11, <2>1
  <2> QED
    BY <2>1, <2>2
<1> QED
  BY <1>1, <1>8, <1>9, <1>10, <1>11 DEF Enumerates, f, n

(* There is only one such list.                                            *)
LEMMA OneEnumeration ==
  ASSUME NEW S \in SUBSET Nat, NEW n \in Nat, NEW g \in [1..n -> S],
         \A j, k \in 1..n : j < k => g[j] < g[k],
         \A i \in S : \E k \in 1..n : g[k] = i
  PROVE  IsFiniteSet(S) /\ Cardinality(S) = n /\ g = Arrays!InOrder(S)
<1>1. \A j, k \in 1..n : g[j] = g[k] => j = k
  <2> SUFFICES ASSUME NEW j \in 1..n, NEW k \in 1..n, g[j] = g[k] PROVE j = k
    OBVIOUS
  <2>1. g[j] \in Nat
    OBVIOUS
  <2>2. ~(j < k) /\ ~(k < j)
    BY <2>1
  <2> QED
    BY <2>2
<1>2. IsFiniteSet(1..n) /\ Cardinality(1..n) = n
  BY FS_Interval
<1>3. g \in Surjection(1..n, S) /\ g \in Injection(1..n, S)
  BY <1>1 DEF Surjection, Injection, IsInjective
<1>4. IsFiniteSet(S) /\ Cardinality(S) = n
  BY <1>2, <1>3, FS_Surjection
<1>5. ASSUME NEW k \in 1..n PROVE Arrays!Below(S, g[k]) = k - 1
  <2> DEFINE T == {h \in S : h < g[k]}
             f == [j \in 1..(k - 1) |-> g[j]]
  <2>1. \A j \in 1..(k - 1) : j \in 1..n /\ j < k
    BY <1>5
  <2>2. \A j \in 1..(k - 1) : g[j] \in T
    BY <2>1
  <2>3. ASSUME NEW h \in T PROVE \E j \in 1..(k - 1) : g[j] = h
    <3>1. PICK j \in 1..n : g[j] = h
      OBVIOUS
    <3>2. ~(k < j) /\ j # k
      <4>1. g[j] \in Nat /\ g[k] \in Nat /\ g[j] < g[k]
        BY <1>5, <2>3, <3>1
      <4> QED
        BY <4>1
    <3>3. j \in 1..(k - 1)
      BY <3>2
    <3> QED
      BY <3>1, <3>3
  <2> HIDE DEF T
  <2>4. f \in Surjection(1..(k - 1), T) /\ f \in Injection(1..(k - 1), T)
    BY <1>1, <2>1, <2>2, <2>3 DEF Surjection, Injection, IsInjective
  <2>5. IsFiniteSet(1..(k - 1)) /\ Cardinality(1..(k - 1)) = k - 1
    <3>1. /\ IsFiniteSet(1..(k - 1))
          /\ Cardinality(1..(k - 1)) = IF 1 > k - 1 THEN 0 ELSE (k - 1) - 1 + 1
      BY <1>5, FS_Interval
    <3> QED
      BY <1>5, <3>1
  <2> HIDE DEF f
  <2>6. Cardinality(T) = k - 1
    BY <2>4, <2>5, FS_Surjection
  <2> QED
    BY <2>6, BelowIs DEF T
<1>6. \A x, y \in S : Arrays!Below(S, x) = Arrays!Below(S, y) => x = y
  <2>1. \A x \in S : \E k \in 1..n : g[k] = x /\ Arrays!Below(S, x) = k - 1
    BY <1>5
  <2> SUFFICES ASSUME NEW x \in S, NEW y \in S, Arrays!Below(S, x) = Arrays!Below(S, y) PROVE x = y
    OBVIOUS
  <2>2. PICK j \in 1..n : g[j] = x /\ Arrays!Below(S, x) = j - 1
    BY <2>1
  <2>3. PICK k \in 1..n : g[k] = y /\ Arrays!Below(S, y) = k - 1
    BY <2>1
  <2>4. j - 1 = k - 1
    BY <2>2, <2>3
  <2>5. j = k
    BY <2>4
  <2> QED
    BY <2>2, <2>3, <2>5
<1>7. Arrays!InOrder(S) = [k \in 1..n |-> CHOOSE i \in S : Arrays!Below(S, i) = k - 1]
  BY <1>4, LibraryOfArrays DEF Arrays!InOrder
<1>8. \A k \in 1..n : (CHOOSE i \in S : Arrays!Below(S, i) = k - 1) = g[k]
  <2> SUFFICES ASSUME NEW k \in 1..n PROVE (CHOOSE i \in S : Arrays!Below(S, i) = k - 1) = g[k]
    OBVIOUS
  <2>1. g[k] \in S /\ Arrays!Below(S, g[k]) = k - 1
    BY <1>5
  <2> QED
    BY <1>6, <2>1
<1> QED
  BY <1>4, <1>7, <1>8

-----------------------------------------------------------------------------
(* alignArrayIndices: the slots.                                           *)

(* The script s takes l to r as far as the positions are concerned.        *)
IsScript(l, r, s) ==
  /\ l \in Seq(Element) /\ r \in Seq(Element)
  /\ s.removed \subseteq DOMAIN l
  /\ DOMAIN s.from \subseteq DOMAIN r /\ s.from \in [DOMAIN s.from -> DOMAIN l]
  /\ s.added \subseteq DOMAIN r /\ s.added \cap DOMAIN s.from = {}
  /\ \A i, j \in DOMAIN s.from : s.from[i] = s.from[j] => i = j
  /\ \A j \in DOMAIN s.from : s.from[j] \notin s.removed /\ l[s.from[j]] = r[j]
  /\ Cardinality(Arrays!LeftKept(l, s)) = Cardinality(Arrays!RightKept(r, s))

LEMMA CandidateIsScript ==
  ASSUME NEW l \in Seq(Element), NEW r \in Seq(Element), NEW s \in Arrays!Candidates(l, r)
  PROVE  IsScript(l, r, s)
<1>1. PICK moved \in SUBSET (DOMAIN r) :
        s \in [removed : SUBSET (DOMAIN l), added : SUBSET (DOMAIN r \ moved), from : [moved -> DOMAIN l]]
  BY DEF Arrays!Candidates
<1>2. /\ s.removed \subseteq DOMAIN l /\ s.added \subseteq DOMAIN r \ moved
      /\ s.from \in [moved -> DOMAIN l]
  BY <1>1
<1>3. DOMAIN s.from = moved
  BY <1>2
<1>4. /\ Arrays!IsInjective(s.from)
      /\ \A j \in DOMAIN s.from : s.from[j] \notin s.removed /\ l[s.from[j]] = r[j]
      /\ Arrays!Cardinality(Arrays!LeftKept(l, s)) = Arrays!Cardinality(Arrays!RightKept(r, s))
  BY DEF Arrays!Candidates
<1>5. \A i, j \in DOMAIN s.from : s.from[i] = s.from[j] => i = j
  BY <1>4 DEF Arrays!IsInjective
<1> QED
  BY <1>1, <1>2, <1>3, <1>4, <1>5, LibraryOfArrays DEF IsScript

Placed(s) == s.added \cup DOMAIN s.from

(* The left element, or None, at the slot q of the right array.            *)
Target(l, r, s, q) ==
  IF q \in Placed(s) THEN Arrays!Slot(s, q)
  ELSE Arrays!InOrder(Arrays!LeftKept(l, s))[Arrays!Below(Arrays!RightKept(r, s), q) + 1]

LEMMA ScriptSets ==
  ASSUME NEW l, NEW r, NEW s, IsScript(l, r, s)
  PROVE  /\ Len(l) \in Nat /\ Len(r) \in Nat /\ DOMAIN l = 1..Len(l) /\ DOMAIN r = 1..Len(r)
         /\ Placed(s) \subseteq 1..Len(r) /\ IsFiniteSet(Placed(s))
         /\ Arrays!RightKept(r, s) = (1..Len(r)) \ Placed(s) /\ IsFiniteSet(Arrays!RightKept(r, s))
         /\ Arrays!LeftKept(l, s) = {i \in 1..Len(l) : i \notin s.removed /\ ~\E j \in DOMAIN s.from : s.from[j] = i}
         /\ IsFiniteSet(Arrays!LeftKept(l, s))
         /\ s.removed \subseteq 1..Len(l) /\ IsFiniteSet(s.removed)
         /\ Cardinality(Placed(s)) + Cardinality(Arrays!RightKept(r, s)) = Len(r)
<1>1. Len(l) \in Nat /\ Len(r) \in Nat /\ DOMAIN l = 1..Len(l) /\ DOMAIN r = 1..Len(r)
  BY DEF IsScript
<1>2. IsFiniteSet(1..Len(l)) /\ IsFiniteSet(1..Len(r)) /\ Cardinality(1..Len(r)) = Len(r)
  BY <1>1, UpToCounts
<1>3. Placed(s) \subseteq 1..Len(r) /\ s.removed \subseteq 1..Len(l)
  BY <1>1 DEF IsScript, Placed
<1>4. Arrays!RightKept(r, s) = (1..Len(r)) \ Placed(s)
  BY <1>1 DEF Arrays!RightKept, Placed
<1>5. Arrays!LeftKept(l, s) = {i \in 1..Len(l) : i \notin s.removed /\ ~\E j \in DOMAIN s.from : s.from[j] = i}
  BY <1>1 DEF Arrays!LeftKept
<1>6. IsFiniteSet(Placed(s)) /\ IsFiniteSet(Arrays!RightKept(r, s))
  BY <1>2, <1>3, <1>4, FS_Subset
<1>7. IsFiniteSet(Arrays!LeftKept(l, s)) /\ IsFiniteSet(s.removed)
  BY <1>2, <1>3, <1>5, FS_Subset
<1>8. Cardinality(Placed(s)) + Cardinality(Arrays!RightKept(r, s)) = Len(r)
  <2>1. 1..Len(r) = Placed(s) \cup Arrays!RightKept(r, s) /\ Placed(s) \cap Arrays!RightKept(r, s) = {}
    BY <1>3, <1>4
  <2>2. Cardinality(1..Len(r)) = Cardinality(Placed(s)) + Cardinality(Arrays!RightKept(r, s))
    <3> DEFINE X == 1..Len(r)
               Y == Placed(s)
               Z == Arrays!RightKept(r, s)
    <3>1. IsFiniteSet(X) /\ X = Y \cup Z /\ Y \cap Z = {}
      BY <1>2, <2>1
    <3> HIDE DEF X, Y, Z
    <3>2. Cardinality(X) = Cardinality(Y) + Cardinality(Z)
      BY <3>1, TwoParts
    <3> QED
      BY <3>2 DEF X, Y, Z
  <2> QED
    BY <1>2, <2>2
<1> QED
  BY <1>1, <1>3, <1>4, <1>5, <1>6, <1>7, <1>8

(* Every index has as many placed and kept indices below it as there are.  *)
LEMMA BelowSplits ==
  ASSUME NEW l, NEW r, NEW s, IsScript(l, r, s), NEW x \in 1..(Len(r) + 1)
  PROVE  Arrays!Below(Placed(s), x) + Arrays!Below(Arrays!RightKept(r, s), x) = x - 1
<1> DEFINE n == Len(r)
           P == {h \in Placed(s) : h < x}
           R == {h \in Arrays!RightKept(r, s) : h < x}
<1>1. n \in Nat /\ Placed(s) \subseteq 1..n /\ Arrays!RightKept(r, s) = (1..n) \ Placed(s)
  BY ScriptSets
<1>2. x \in 1..(n + 1)
  OBVIOUS
<1> HIDE DEF n
<1>3. 1..(x - 1) = P \cup R /\ P \cap R = {}
  <2>1. \A h \in 1..n : h < x <=> h \in 1..(x - 1)
    BY <1>1, <1>2
  <2>2. 1..(x - 1) \subseteq 1..n
    BY <1>1, <1>2
  <2> QED
    BY <1>1, <2>1, <2>2
<1>4. IsFiniteSet(1..(x - 1)) /\ Cardinality(1..(x - 1)) = x - 1
  <2>1. /\ IsFiniteSet(1..(x - 1))
        /\ Cardinality(1..(x - 1)) = IF 1 > x - 1 THEN 0 ELSE (x - 1) - 1 + 1
    BY <1>2, FS_Interval
  <2> QED
    BY <1>2, <2>1
<1> HIDE DEF P, R
<1>5. Cardinality(P) + Cardinality(R) = x - 1
  BY <1>3, <1>4, TwoParts
<1> QED
  BY <1>5, BelowIs DEF P, R

LEMMA InsertionsAre ==
  ASSUME NEW l, NEW r, NEW s, IsScript(l, r, s)
  PROVE  /\ Enumerates(Arrays!Insertions(s), Placed(s))
         /\ Len(Arrays!Insertions(s)) = Cardinality(Placed(s)) /\ Cardinality(Placed(s)) \in Nat
         /\ \A t \in 1..Cardinality(Placed(s)) :
              Arrays!Insertions(s)[t] \in 1..(Cardinality(Arrays!RightKept(r, s)) + t)
<1> DEFINE J == Placed(s)
           R == Arrays!RightKept(r, s)
           js == Arrays!Insertions(s)
           m == Cardinality(J)
           n == Len(r)
<1>1. /\ n \in Nat /\ J \subseteq 1..n /\ IsFiniteSet(J) /\ IsFiniteSet(R) /\ R = (1..n) \ J
      /\ m \in Nat /\ Cardinality(R) \in Nat
  BY ScriptSets, FS_CardinalityType
<1>2. Enumerates(js, J)
  <2>1. js = Arrays!InOrder(J)
    BY DEF Arrays!Insertions, Placed
  <2>2. J \in SUBSET Nat
    BY <1>1
  <2> HIDE DEF js, J
  <2> QED
    BY <1>1, <2>1, <2>2, InOrderEnumerates
<1> HIDE DEF J, R, js, m, n
<1>3. Len(js) = m
  BY <1>1, <1>2 DEF Enumerates, m
<1>4. ASSUME NEW t \in 1..m PROVE js[t] \in 1..(Cardinality(R) + t)
  <2>1. js[t] \in 1..n /\ Arrays!Below(J, js[t]) = t - 1
    BY <1>1, <1>2 DEF Enumerates, m
  <2>2. js[t] \in 1..(n + 1)
    BY <1>1, <2>1
  <2>3. Arrays!Below(J, js[t]) + Arrays!Below(R, js[t]) = js[t] - 1
    BY <2>2, BelowSplits DEF J, R, n
  <2>4. Arrays!Below(R, js[t]) \in Nat /\ Arrays!Below(R, js[t]) <= Cardinality(R)
    <3>1. {h \in R : h < js[t]} \in SUBSET R
      OBVIOUS
    <3> QED
      BY <1>1, <3>1, FS_Subset, FS_CardinalityType, BelowIs
  <2> QED
    BY <1>1, <2>1, <2>3, <2>4
<1> QED
  BY <1>1, <1>2, <1>3, <1>4 DEF J, R, js, m

LEMMA BetweenInsertions ==
  ASSUME NEW l, NEW r, NEW s, IsScript(l, r, s),
         NEW t \in 0..Cardinality(Placed(s)), NEW q \in 1..Len(r),
         t # 0 => Arrays!Insertions(s)[t] < q,
         t # Cardinality(Placed(s)) => q < Arrays!Insertions(s)[t + 1]
  PROVE  q \notin Placed(s) /\ Arrays!Below(Arrays!RightKept(r, s), q) + 1 = q - t
<1> DEFINE J == Placed(s)
           R == Arrays!RightKept(r, s)
           js == Arrays!Insertions(s)
           m == Cardinality(J)
           n == Len(r)
<1>1. /\ n \in Nat /\ J \subseteq 1..n /\ IsFiniteSet(J) /\ m \in Nat
      /\ Enumerates(js, J) /\ q \in 1..n /\ t \in 0..m
      /\ t # 0 => js[t] < q
      /\ t # m => q < js[t + 1]
  BY ScriptSets, InsertionsAre
<1>2. /\ Arrays!Below(J, q) + Arrays!Below(R, q) = q - 1
      /\ Arrays!Below(R, q) \in Nat
  <2>1. q \in 1..(Len(r) + 1)
    BY <1>1
  <2>2. R \in SUBSET Nat /\ IsFiniteSet(R)
    BY ScriptSets
  <2> HIDE DEF R, n, J
  <2> QED
    BY <2>1, <2>2, BelowSplits, BelowGrows DEF J, R
<1> HIDE DEF J, R, js, m, n
<1>3. /\ \A k \in 1..m : js[k] \in J /\ js[k] \in Nat /\ Arrays!Below(J, js[k]) = k - 1
      /\ \A i, k \in 1..m : i < k => js[i] < js[k]
      /\ \A i \in J : \E k \in 1..m : js[k] = i
  <2>1. J \subseteq Nat
    BY <1>1
  <2>2. \A k \in 1..m : js[k] \in J /\ Arrays!Below(J, js[k]) = k - 1
    BY <1>1 DEF Enumerates, m
  <2>3. /\ \A i, k \in 1..m : i < k => js[i] < js[k]
        /\ \A i \in J : \E k \in 1..m : js[k] = i
    BY <1>1 DEF Enumerates, m
  <2> QED
    BY <2>1, <2>2, <2>3
<1>4. q \notin J
  <2> SUFFICES ASSUME q \in J PROVE FALSE
    OBVIOUS
  <2>1. PICK k \in 1..m : js[k] = q
    BY <1>3
  <2>2. t # 0 => t < k
    <3> SUFFICES ASSUME t # 0, ~(t < k) PROVE FALSE
      OBVIOUS
    <3>1. t \in 1..m /\ (k < t \/ k = t)
      BY <1>1
    <3>2. js[k] < js[t] \/ js[k] = js[t]
      BY <1>3, <3>1
    <3> QED
      BY <1>1, <1>3, <2>1, <3>1, <3>2
  <2>3. t # m => k < t + 1
    <3> SUFFICES ASSUME t # m, ~(k < t + 1) PROVE FALSE
      OBVIOUS
    <3>1. t + 1 \in 1..m /\ (t + 1 < k \/ t + 1 = k)
      BY <1>1
    <3>2. js[t + 1] < js[k] \/ js[t + 1] = js[k]
      BY <1>3, <3>1
    <3> QED
      BY <1>1, <1>3, <2>1, <3>1, <3>2
  <2> QED
    BY <1>1, <2>2, <2>3
<1>5. J \in SUBSET Nat /\ q \in Nat
  BY <1>1
<1>6. Arrays!Below(J, q) >= t
  <2>1. CASE t = 0
    BY <1>1, <1>5, <2>1, BelowGrows
  <2>2. CASE t # 0
    <3>1. t \in 1..m /\ js[t] \in J /\ js[t] < q /\ Arrays!Below(J, js[t]) = t - 1
      BY <1>1, <1>3, <2>2
    <3>2. Arrays!Below(J, js[t]) < Arrays!Below(J, q) /\ Arrays!Below(J, q) \in Nat
      BY <1>1, <1>5, <3>1, BelowGrows
    <3> QED
      BY <3>1, <3>2
  <2> QED
    BY <2>1, <2>2
<1>7. Arrays!Below(J, q) <= t
  <2>1. CASE t = m
    <3>1. {h \in J : h < q} \in SUBSET J
      OBVIOUS
    <3> QED
      BY <1>1, <2>1, <3>1, FS_Subset, BelowIs DEF m
  <2>2. CASE t # m
    <3>1. t + 1 \in 1..m /\ (t + 1) - 1 = t
      BY <1>1, <2>2
    <3>2. q < js[t + 1] /\ Arrays!Below(J, js[t + 1]) = (t + 1) - 1 /\ js[t + 1] \in Nat
      BY <1>1, <1>3, <2>2, <3>1
    <3>3. q <= js[t + 1]
      BY <1>5, <3>2
    <3>4. Arrays!Below(J, q) <= Arrays!Below(J, js[t + 1])
      BY <1>1, <1>5, <3>2, <3>3, BelowGrows
    <3> QED
      BY <3>1, <3>2, <3>4
  <2> QED
    BY <2>1, <2>2
<1>8. Arrays!Below(J, q) \in Nat
  BY <1>1, <1>5, BelowGrows
<1>9. Arrays!Below(J, q) = t
  BY <1>1, <1>6, <1>7, <1>8
<1> QED
  BY <1>1, <1>2, <1>4, <1>9 DEF J, R

LEMMA SpliceIs ==
  ASSUME NEW S, NEW d \in Seq(S), NEW j \in 1..(Len(d) + 1), NEW v \in S
  PROVE  /\ Arrays!Splice(d, j, v) \in Seq(S) /\ Len(Arrays!Splice(d, j, v)) = Len(d) + 1
         /\ \A i \in 1..(Len(d) + 1) :
              Arrays!Splice(d, j, v)[i] = IF i < j THEN d[i] ELSE IF i = j THEN v ELSE d[i - 1]
<1>1. Len(d) \in Nat
  OBVIOUS
<1>2. (IF j <= Len(d) THEN j ELSE Len(d) + 1) = j
  BY <1>1
<1>3. Arrays!Splice(d, j, v) = InsertAt(d, j, v)
  BY <1>2, LibraryOfArrays DEF Arrays!Splice
<1> QED
  BY <1>3, AfterInsertAt

LEMMA WorkingIs ==
  ASSUME NEW l, NEW r, NEW s, IsScript(l, r, s)
  PROVE  /\ Arrays!Working(l, s) \in Seq(Nat \cup {None}) /\ Len(Arrays!Working(l, s)) = Len(r)
         /\ \A q \in 1..Len(r) : Arrays!Working(l, s)[q] = Target(l, r, s, q)
<1> DEFINE J == Placed(s)
           R == Arrays!RightKept(r, s)
           L == Arrays!LeftKept(l, s)
           js == Arrays!Insertions(s)
           ls == Arrays!InOrder(L)
           m == Cardinality(J)
           K == Cardinality(R)
           n == Len(r)
           V == Nat \cup {None}
           last(t) == IF t = 0 THEN 0 ELSE js[t]
           F == [t \in 0..m |-> {w \in Seq(V) :
                   /\ Len(w) = K + t
                   /\ \A q \in 1..(K + t) : w[q] = IF q <= last(t) THEN Target(l, r, s, q) ELSE ls[q - t]}]
           H == [p \in Seq(V) \X (1..m) |-> Arrays!Splice(p[1], js[p[2]], Arrays!Slot(s, js[p[2]]))]
<1>1. /\ n \in Nat /\ m \in Nat /\ K \in Nat /\ m + K = n /\ J \subseteq 1..n
      /\ Enumerates(js, J) /\ Len(js) = m /\ Cardinality(L) = K
      /\ L \in SUBSET Nat /\ IsFiniteSet(L)
      /\ \A t \in 1..m : js[t] \in 1..(K + t)
  <2>1. n \in Nat /\ J \subseteq 1..n /\ IsFiniteSet(L) /\ IsFiniteSet(R) /\ L \subseteq 1..Len(l) /\ m + K = n
    BY ScriptSets
  <2>2. K \in Nat
    BY <2>1, FS_CardinalityType
  <2>3. Cardinality(L) = K
    BY DEF IsScript
  <2> QED
    BY <2>1, <2>2, <2>3, InsertionsAre
<1>2. ls \in [1..K -> L]
  <2>1. Enumerates(ls, L)
    BY <1>1, InOrderEnumerates
  <2> HIDE DEF ls, L, K
  <2> QED
    BY <1>1, <2>1 DEF Enumerates
<1>3. ls \in Seq(V) /\ Len(ls) = K /\ \A q \in 1..K : ls[q - 0] = ls[q]
  <2>1. L \subseteq V /\ K \in Nat
    BY <1>1
  <2>2. ls \in [1..K -> L]
    BY <1>2
  <2> HIDE DEF ls, L, K, V, F, H
  <2>3. ls \in [1..K -> V]
    BY <2>1, <2>2
  <2>4. ls \in Seq(V) /\ Len(ls) = K
    BY <2>1, <2>3
  <2>5. \A q \in 1..K : q - 0 = q
    BY <2>1
  <2> QED
    BY <2>4, <2>5
<1>4. \A t \in 1..m : js[t] \in J /\ Arrays!Slot(s, js[t]) \in V /\ Target(l, r, s, js[t]) = Arrays!Slot(s, js[t])
  <2>1. \A t \in 1..m : js[t] \in J
    BY <1>1 DEF Enumerates
  <2>2. \A j \in J : Arrays!Slot(s, j) \in V
    BY ScriptSets DEF Placed, Arrays!Slot, IsScript
  <2> HIDE DEF js, m, V
  <2> QED
    BY <2>1, <2>2 DEF Target
<1>5. \A q \in 1..n : q \notin J => Target(l, r, s, q) = ls[Arrays!Below(R, q) + 1]
  BY DEF Target
<1>6. ASSUME NEW t \in 0..m, NEW q \in 1..n, t # 0 => js[t] < q, t # m => q < js[t + 1]
      PROVE  Target(l, r, s, q) = ls[q - t]
  <2>1. q \notin J /\ Arrays!Below(R, q) + 1 = q - t
    BY <1>6, BetweenInsertions
  <2> HIDE DEF J, R, ls, n
  <2> QED
    BY <1>5, <2>1
<1> HIDE DEF J, R, L, js, ls, m, K, n, V
<1>7. ls \in F[0]
  <2>1. \A q \in 1..K : ~(q <= 0)
    OBVIOUS
  <2>2. 0 \in 0..m /\ K + 0 = K
    BY <1>1
  <2> QED
    BY <1>3, <2>1, <2>2
<1>8. ASSUME NEW t \in 1..m, NEW x \in F[t - 1] PROVE H[<<x, t>>] \in F[t]
  <2> DEFINE j == js[t]
             y == Arrays!Splice(x, j, Arrays!Slot(s, j))
  <2>1. t \in Nat /\ t - 1 \in 0..m /\ t \in 0..m /\ t # 0 /\ (t - 1) + 1 = t /\ t - 1 # m
    BY <1>1
  <2>2. /\ x \in Seq(V) /\ Len(x) = K + (t - 1)
        /\ \A q \in 1..(K + (t - 1)) :
             x[q] = IF q <= last(t - 1) THEN Target(l, r, s, q) ELSE ls[q - (t - 1)]
    BY <1>8, <2>1
  <2>3. j \in 1..(K + t) /\ j \in 1..n /\ K + t <= n
    BY <1>1, <1>4, <2>1
  <2>4. last(t) = j
    BY <2>1
  <2>5. t - 1 # 0 => js[t - 1] < j /\ js[t - 1] \in Nat
    BY <1>1, <2>1 DEF Enumerates, m
  <2>6. last(t - 1) < j /\ last(t - 1) \in Nat
    BY <2>3, <2>5
  <2>7. H[<<x, t>>] = y
    BY <2>2
  <2>8. Len(x) + 1 = K + t
    BY <1>1, <2>1, <2>2
  <2> HIDE DEF last, F, H
  <2>9. /\ y \in Seq(V) /\ Len(y) = K + t
        /\ \A i \in 1..(K + t) :
             y[i] = IF i < j THEN x[i] ELSE IF i = j THEN Arrays!Slot(s, j) ELSE x[i - 1]
    <3>1. Arrays!Slot(s, j) \in V
      BY <1>4
    <3> HIDE DEF j
    <3>2. j \in 1..(Len(x) + 1)
      BY <2>3, <2>8
    <3>3. /\ y \in Seq(V) /\ Len(y) = Len(x) + 1
          /\ \A i \in 1..(Len(x) + 1) :
               y[i] = IF i < j THEN x[i] ELSE IF i = j THEN Arrays!Slot(s, j) ELSE x[i - 1]
      BY <2>2, <3>1, <3>2, SpliceIs
    <3> HIDE DEF y
    <3> QED
      BY <2>8, <3>3
  <2>10. ASSUME NEW q \in 1..(K + t)
         PROVE  y[q] = IF q <= j THEN Target(l, r, s, q) ELSE ls[q - t]
    <3>1. CASE q < j
      <4>1. q \in 1..(K + (t - 1)) /\ q \in 1..n /\ q <= j
        BY <1>1, <2>1, <2>3, <3>1
      <4>2. y[q] = x[q]
        BY <2>9, <3>1
      <4>3. CASE q <= last(t - 1)
        BY <2>2, <4>1, <4>2, <4>3
      <4>4. CASE ~(q <= last(t - 1))
        <5>1. t - 1 # 0 => js[t - 1] < q
          BY <2>5, <4>1, <4>4 DEF last
        <5>2. Target(l, r, s, q) = ls[q - (t - 1)]
          BY <1>6, <2>1, <3>1, <4>1, <5>1
        <5> QED
          BY <2>2, <4>1, <4>2, <4>4, <5>2
      <4> QED
        BY <4>3, <4>4
    <3>2. CASE q = j
      BY <1>4, <2>3, <2>9, <3>2
    <3>3. CASE q > j
      <4>1. q - 1 \in 1..(K + (t - 1)) /\ ~(q - 1 <= last(t - 1)) /\ (q - 1) - (t - 1) = q - t
        BY <1>1, <2>1, <2>3, <2>6, <3>3
      <4>2. y[q] = x[q - 1]
        BY <2>3, <2>9, <3>3
      <4>3. x[q - 1] = ls[q - t]
        BY <2>2, <4>1
      <4> QED
        BY <2>3, <3>3, <4>2, <4>3
    <3> QED
      BY <2>3, <3>1, <3>2, <3>3
  <2> HIDE DEF y
  <2> QED
    BY <2>1, <2>4, <2>7, <2>9, <2>10 DEF F
<1>9. PICK f : /\ f = [t \in 0..m |-> f[t]] /\ f[0] = ls
               /\ \A t \in 1..m : f[t - 1] \in F[t - 1] /\ f[t] = H[<<f[t - 1], t>>]
  <2>1. Marches(F, m, ls, H)
    <3> HIDE DEF F, H
    <3> QED
      BY <1>1, <1>7, <1>8, March
  <2> HIDE DEF F, H
  <2> QED
    BY <2>1 DEF Marches
<1> DEFINE Next1(w, t) == Arrays!Splice(w[t - 1], js[t], Arrays!Slot(s, js[t]))
           walk == CHOOSE w : w = [t \in 0..m |-> IF t = 0 THEN ls ELSE Next1(w, t)]
<1>10. ASSUME NEW x, NEW t \in 1..m, x \in F[t - 1]
       PROVE  H[<<x, t>>] = Arrays!Splice(x, js[t], Arrays!Slot(s, js[t]))
  <2>1. t - 1 \in 0..m
    BY <1>1
  <2>2. x \in Seq(V)
    BY <1>10, <2>1
  <2> QED
    BY <2>2
<1> HIDE DEF F, H
<1>11. walk = [t \in 0..m |-> IF t = 0 THEN ls ELSE Next1(walk, t)]
  <2>1. \A t \in 1..m : f[t] = Next1(f, t)
    BY <1>9, <1>10
  <2>2. \A t \in 0..m : t = 0 \/ t \in 1..m
    BY <1>1
  <2>3. f = [t \in 0..m |-> IF t = 0 THEN ls ELSE Next1(f, t)]
    <3> HIDE DEF Next1
    <3> QED
      BY <1>9, <2>1, <2>2
  <2> HIDE DEF Next1
  <2> QED
    BY <2>3
<1>12. walk[0] = ls /\ \A t \in 1..m : walk[t] = Next1(walk, t)
  <2>1. 0 \in 0..m /\ \A t \in 1..m : t \in 0..m /\ t # 0
    BY <1>1
  <2> HIDE DEF walk, Next1
  <2> QED
    BY <1>11, <2>1
<1>13. Arrays!Working(l, s) = walk[m]
  BY <1>1 DEF Arrays!Working, js, ls, L
<1> HIDE DEF walk
<1>14. walk[m] \in F[m]
  <2> DEFINE T == {t \in 0..m : walk[t] \in F[t]}
  <2>1. 0 \in T
    BY <1>1, <1>7, <1>12
  <2>2. ASSUME NEW t \in 0..(m - 1), t \in T PROVE t + 1 \in T
    <3>1. t + 1 \in 1..m /\ t + 1 \in 0..m /\ (t + 1) - 1 = t
      BY <1>1
    <3>2. walk[t + 1] = H[<<walk[t], t + 1>>]
      BY <1>10, <1>12, <2>2, <3>1
    <3>3. H[<<walk[t], t + 1>>] \in F[t + 1]
      BY <1>8, <2>2, <3>1
    <3> QED
      BY <3>1, <3>2, <3>3
  <2> HIDE DEF T
  <2>3. 0..m \subseteq T
    BY <1>1, <2>1, <2>2, UpTo
  <2>4. m \in 0..m
    BY <1>1
  <2> QED
    BY <2>3, <2>4 DEF T
<1>15. /\ walk[m] \in Seq(V) /\ Len(walk[m]) = K + m
       /\ \A q \in 1..(K + m) : walk[m][q] = IF q <= last(m) THEN Target(l, r, s, q) ELSE ls[q - m]
  <2>1. m \in 0..m
    BY <1>1
  <2> HIDE DEF last
  <2> QED
    BY <1>14, <2>1 DEF F
<1>16. ASSUME NEW q \in 1..n PROVE walk[m][q] = Target(l, r, s, q)
  <2>1. CASE q <= last(m)
    BY <1>1, <1>15, <2>1
  <2>2. CASE ~(q <= last(m))
    <3>1. m # 0 => js[m] < q
      <4>1. m # 0 => m \in 1..m /\ js[m] \in Nat
        BY <1>1
      <4> QED
        BY <1>1, <2>2, <4>1
    <3>2. m \in 0..m
      BY <1>1
    <3>3. Target(l, r, s, q) = ls[q - m]
      BY <1>6, <3>1, <3>2
    <3> QED
      BY <1>1, <1>15, <2>2, <3>3
  <2> QED
    BY <2>1, <2>2
<1> QED
  BY <1>1, <1>13, <1>15, <1>16 DEF V, n

(* The pairs of indices a script keeps or moves.                           *)
PairsOf(l, r, s) == Arrays!Kept(l, r, s) \cup {<<s.from[j], j>> : j \in DOMAIN s.from}

LEMMA SlotsPair ==
  ASSUME NEW l, NEW r, NEW s, IsScript(l, r, s)
  PROVE  LET w == Arrays!Working(l, s)
         IN  /\ \A j \in 1..Len(r) : w[j] # None => <<w[j], j>> \in PairsOf(l, r, s)
             /\ \A x \in PairsOf(l, r, s) : \E j \in 1..Len(r) : w[j] # None /\ x = <<w[j], j>>
             /\ \A j \in 1..Len(r) : w[j] # None => w[j] \in (1..Len(l)) \ s.removed
             /\ \A i, j \in 1..Len(r) : w[i] # None /\ w[i] = w[j] => i = j
             /\ \A i \in (1..Len(l)) \ s.removed : \E j \in 1..Len(r) : w[j] = i
             /\ \A j \in 1..Len(r) : w[j] = None <=> j \in s.added
             /\ DOMAIN s.from = {} => \A i, j \in 1..Len(r) : i < j /\ w[i] # None /\ w[j] # None => w[i] < w[j]
<1> DEFINE w == Arrays!Working(l, s)
           J == Placed(s)
           R == Arrays!RightKept(r, s)
           L == Arrays!LeftKept(l, s)
           ls == Arrays!InOrder(L)
           rs == Arrays!InOrder(R)
           K == Cardinality(R)
           n == Len(r)
           D == DOMAIN s.from
<1>1. /\ n \in Nat /\ K \in Nat /\ J \subseteq 1..n /\ R = (1..n) \ J /\ IsFiniteSet(R) /\ IsFiniteSet(L)
      /\ L = {i \in 1..Len(l) : i \notin s.removed /\ ~\E j \in D : s.from[j] = i}
      /\ Cardinality(L) = K
      /\ J = s.added \cup D /\ s.added \cap D = {} /\ D \subseteq 1..n
      /\ \A j \in D : s.from[j] \in 1..Len(l) /\ s.from[j] \notin s.removed
      /\ \A i, j \in D : s.from[i] = s.from[j] => i = j
      /\ \A i \in 1..Len(l) : i # None
  <2>1. K \in Nat /\ n \in Nat
    BY ScriptSets, FS_CardinalityType
  <2>2. DOMAIN l = 1..Len(l) /\ DOMAIN r = 1..n /\ Len(l) \in Nat
    BY ScriptSets
  <2>3. \A i \in 1..Len(l) : i # None
    BY <2>2, ContainerAssumption
  <2>4. \A j \in D : s.from[j] \in 1..Len(l) /\ s.from[j] \notin s.removed
    BY <2>2 DEF IsScript
  <2>5. D \subseteq 1..n
    BY <2>2 DEF IsScript
  <2> QED
    BY <2>1, <2>3, <2>4, <2>5, ScriptSets DEF IsScript, Placed
<1>2. Enumerates(ls, L) /\ Enumerates(rs, R)
  <2>1. L \in SUBSET Nat /\ R \in SUBSET Nat
    BY <1>1
  <2> HIDE DEF L, R
  <2> QED
    BY <1>1, <2>1, InOrderEnumerates
<1>3. \A q \in 1..n : w[q] = Target(l, r, s, q)
  BY WorkingIs
<1>4. /\ \A j \in D : w[j] = s.from[j]
      /\ \A j \in s.added : w[j] = None
      /\ \A j \in R : w[j] = ls[Arrays!Below(R, j) + 1]
  <2> HIDE DEF w
  <2>1. \A j \in D : j \in J /\ j \in 1..n /\ j \notin s.added
    BY <1>1
  <2>2. \A j \in s.added : j \in J /\ j \in 1..n
    BY <1>1
  <2>3. \A j \in R : j \notin J /\ j \in 1..n
    BY <1>1
  <2> QED
    BY <1>3, <2>1, <2>2, <2>3 DEF Target, Arrays!Slot
<1>5. Arrays!Kept(l, r, s) = {<<ls[p], rs[p]>> : p \in DOMAIN ls}
  BY DEF Arrays!Kept
<1> HIDE DEF w, J, R, L, ls, rs, K, n, D
<1>6. /\ DOMAIN ls = 1..K /\ DOMAIN rs = 1..K
      /\ \A k \in 1..K : ls[k] \in L /\ rs[k] \in R /\ Arrays!Below(R, rs[k]) = k - 1
      /\ \A i \in L : \E k \in 1..K : ls[k] = i
      /\ \A j \in R : \E k \in 1..K : rs[k] = j
      /\ \A i, k \in 1..K : i < k => ls[i] < ls[k] /\ rs[i] < rs[k]
  BY <1>1, <1>2 DEF Enumerates, K
<1>7. \A k \in 1..K : w[rs[k]] = ls[k]
  <2> SUFFICES ASSUME NEW k \in 1..K PROVE w[rs[k]] = ls[k]
    OBVIOUS
  <2>1. w[rs[k]] = ls[(k - 1) + 1]
    BY <1>4, <1>6
  <2> QED
    BY <2>1
<1>8. \A k \in 1..K : ls[k] \in (1..Len(l)) \ s.removed /\ ls[k] # None /\ ~\E j \in D : s.from[j] = ls[k]
  BY <1>1, <1>6
<1>9. ASSUME NEW j \in 1..n
      PROVE  \/ j \in s.added /\ w[j] = None
             \/ j \in D /\ w[j] = s.from[j] /\ w[j] # None /\ w[j] \in (1..Len(l)) \ s.removed
             \/ \E k \in 1..K : rs[k] = j /\ w[j] = ls[k] /\ w[j] # None /\ w[j] \in (1..Len(l)) \ s.removed
  <2>1. j \in s.added \/ j \in D \/ j \in R
    BY <1>1
  <2> QED
    BY <1>1, <1>4, <1>6, <1>7, <1>8, <2>1
<1>10. ASSUME NEW j \in 1..n, w[j] # None PROVE <<w[j], j>> \in PairsOf(l, r, s)
  BY <1>5, <1>6, <1>9, <1>10 DEF PairsOf, D
<1>11. ASSUME NEW x \in PairsOf(l, r, s) PROVE \E j \in 1..n : w[j] # None /\ x = <<w[j], j>>
  <2>1. CASE \E j \in D : x = <<s.from[j], j>>
    BY <1>1, <1>4, <2>1
  <2>2. CASE \E k \in 1..K : x = <<ls[k], rs[k]>>
    BY <1>1, <1>6, <1>7, <1>8, <2>2
  <2> QED
    BY <1>5, <1>6, <2>1, <2>2 DEF PairsOf, D
<1>12. ASSUME NEW i \in 1..n, NEW j \in 1..n, w[i] # None, w[i] = w[j] PROVE i = j
  <2>1. \A h, k \in 1..K : ls[h] = ls[k] => h = k
    <3> SUFFICES ASSUME NEW h \in 1..K, NEW k \in 1..K, ls[h] = ls[k] PROVE h = k
      OBVIOUS
    <3>1. ls[h] \in Nat
      BY <1>8
    <3>2. ~(h < k) /\ ~(k < h)
      BY <1>6, <3>1
    <3> QED
      BY <3>2
  <2>2. CASE i \in D /\ w[i] = s.from[i]
    <3>1. CASE j \in D /\ w[j] = s.from[j]
      BY <1>1, <1>12, <2>2, <3>1
    <3>2. CASE \E k \in 1..K : rs[k] = j /\ w[j] = ls[k]
      BY <1>8, <1>12, <2>2, <3>2
    <3> QED
      BY <1>9, <1>12, <3>1, <3>2
  <2>3. CASE \E k \in 1..K : rs[k] = i /\ w[i] = ls[k]
    <3>1. PICK h \in 1..K : rs[h] = i /\ w[i] = ls[h]
      BY <2>3
    <3>2. CASE j \in D /\ w[j] = s.from[j]
      BY <1>8, <1>12, <3>1, <3>2
    <3>3. CASE \E k \in 1..K : rs[k] = j /\ w[j] = ls[k]
      <4>1. PICK k \in 1..K : rs[k] = j /\ w[j] = ls[k]
        BY <3>3
      <4>2. h = k
        BY <1>12, <2>1, <3>1, <4>1
      <4> QED
        BY <3>1, <4>1, <4>2
    <3> QED
      BY <1>9, <1>12, <3>2, <3>3
  <2> QED
    BY <1>9, <1>12, <2>2, <2>3
<1>13. ASSUME NEW i \in (1..Len(l)) \ s.removed PROVE \E j \in 1..n : w[j] = i
  <2>1. CASE \E j \in D : s.from[j] = i
    BY <1>1, <1>4, <2>1
  <2>2. CASE i \in L
    <3>1. PICK k \in 1..K : ls[k] = i
      BY <1>6, <2>2
    <3>2. w[rs[k]] = i /\ rs[k] \in 1..n
      BY <1>1, <1>6, <1>7, <3>1
    <3> QED
      BY <3>2
  <2> QED
    BY <1>1, <2>1, <2>2
<1>14. \A j \in 1..n : w[j] = None <=> j \in s.added
  BY <1>4, <1>9
<1>15. ASSUME D = {}, NEW i \in 1..n, NEW j \in 1..n, i < j, w[i] # None, w[j] # None
       PROVE  w[i] < w[j]
  <2>1. PICK h \in 1..K : rs[h] = i /\ w[i] = ls[h]
    BY <1>9, <1>15
  <2>2. PICK k \in 1..K : rs[k] = j /\ w[j] = ls[k]
    BY <1>9, <1>15
  <2>3. ~(k < h) /\ k # h
    BY <1>6, <1>15, <2>1, <2>2
  <2>4. h < k
    BY <2>3
  <2> QED
    BY <1>6, <2>1, <2>2, <2>4
<1> QED
  BY <1>9, <1>10, <1>11, <1>12, <1>13, <1>14, <1>15 DEF w, n, D

-----------------------------------------------------------------------------
(* alignArrayIndices: the rows.                                            *)

ArrayRow == [leftKey : Nat \cup {None}, rightKey : Nat \cup {None}]

(* Slots and removed elements as a script gives them.                      *)
Walkable(w, rem) ==
  /\ w \in Seq(Nat \cup {None}) /\ rem \in Seq(Nat)
  /\ \A h, i \in 1..Len(rem) : h < i => rem[h] < rem[i]
  /\ \A j \in 1..Len(w), i \in 1..Len(rem) : w[j] # rem[i]
  /\ \A h, j \in 1..Len(w) : w[h] # None /\ w[h] = w[j] => h = j

Rising(w) == \A h, j \in 1..Len(w) : h < j /\ w[h] # None /\ w[j] # None => w[h] < w[j]

FromSlot(w, x, j) == x.rightKey = j /\ x.leftKey = w[j]
FromRemoved(rem, x, i) == x.rightKey = None /\ x.leftKey = rem[i]

(* The walk has listed the slots before t.slot and the removed elements    *)
(* before t.ptr, each once, and never a later one before.                  *)
Laid(w, rem, t) ==
  /\ t \in [slot : Nat \ {0}, ptr : Nat \ {0}, rows : Seq(ArrayRow)]
  /\ t.slot <= Len(w) + 1 /\ t.ptr <= Len(rem) + 1
  /\ \A p \in DOMAIN t.rows : \/ \E j \in 1..(t.slot - 1) : FromSlot(w, t.rows[p], j)
                              \/ \E i \in 1..(t.ptr - 1) : FromRemoved(rem, t.rows[p], i)
  /\ \A j \in 1..(t.slot - 1) : \E p \in DOMAIN t.rows : FromSlot(w, t.rows[p], j)
  /\ \A i \in 1..(t.ptr - 1) : \E p \in DOMAIN t.rows : FromRemoved(rem, t.rows[p], i)
  /\ \A p, q \in DOMAIN t.rows :
       p < q => /\ t.rows[p].rightKey # None /\ t.rows[q].rightKey # None
                     => t.rows[p].rightKey < t.rows[q].rightKey
                /\ t.rows[p].leftKey # None => t.rows[p].leftKey # t.rows[q].leftKey

LaidInOrder(w, rem, t) ==
  /\ \A p, q \in DOMAIN t.rows :
       p < q /\ t.rows[p].leftKey # None /\ t.rows[q].leftKey # None
         => t.rows[p].leftKey < t.rows[q].leftKey
  /\ \A p \in DOMAIN t.rows : t.rows[p].leftKey # None =>
       /\ \A j \in t.slot..Len(w) : w[j] # None => t.rows[p].leftKey < w[j]
       /\ \A i \in t.ptr..Len(rem) : t.rows[p].leftKey < rem[i]

(* The keys of a row stand apart from those of the rows before it.         *)
Fresh(rows, x) ==
  \A p \in DOMAIN rows :
    /\ rows[p].rightKey # None /\ x.rightKey # None => rows[p].rightKey < x.rightKey
    /\ rows[p].leftKey # None => rows[p].leftKey # x.leftKey

(* Its left key lies above the earlier ones and below those still to come. *)
Between(w, rem, rows, x, slot, ptr) ==
  x.leftKey # None =>
    /\ \A p \in DOMAIN rows : rows[p].leftKey # None => rows[p].leftKey < x.leftKey
    /\ \A j \in slot..Len(w) : w[j] # None => x.leftKey < w[j]
    /\ \A i \in ptr..Len(rem) : x.leftKey < rem[i]

LEMMA RowAppended ==
  ASSUME NEW w, NEW rem, NEW t, Laid(w, rem, t), NEW x \in ArrayRow,
         NEW slot, NEW ptr, NEW u, u = [slot |-> slot, ptr |-> ptr, rows |-> Append(t.rows, x)],
         Len(w) \in Nat, Len(rem) \in Nat,
         \/ slot = t.slot + 1 /\ ptr = t.ptr /\ FromSlot(w, x, t.slot)
         \/ slot = t.slot /\ ptr = t.ptr + 1 /\ FromRemoved(rem, x, t.ptr),
         slot <= Len(w) + 1, ptr <= Len(rem) + 1,
         Fresh(t.rows, x)
  PROVE  /\ Laid(w, rem, u)
         /\ LaidInOrder(w, rem, t) /\ Between(w, rem, t.rows, x, slot, ptr) => LaidInOrder(w, rem, u)
<1> DEFINE n == Len(w)
           m == Len(rem)
           N == Len(t.rows)
<1>1. t.slot \in Nat \ {0} /\ t.ptr \in Nat \ {0} /\ t.rows \in Seq(ArrayRow)
  BY DEF Laid
<1>2. /\ slot \in Nat \ {0} /\ ptr \in Nat \ {0}
      /\ 1..(t.slot - 1) \subseteq 1..(slot - 1) /\ 1..(t.ptr - 1) \subseteq 1..(ptr - 1)
      /\ slot..n \subseteq t.slot..n /\ ptr..m \subseteq t.ptr..m
  BY <1>1
<1>3. u.slot = slot /\ u.ptr = ptr /\ u.rows = Append(t.rows, x)
  OBVIOUS
<1>4. u \in [slot : Nat \ {0}, ptr : Nat \ {0}, rows : Seq(ArrayRow)]
  <2>1. Append(t.rows, x) \in Seq(ArrayRow)
    BY <1>1
  <2> QED
    BY <1>2, <2>1
<1>5. /\ N \in Nat /\ DOMAIN t.rows = 1..N /\ DOMAIN u.rows = 1..(N + 1)
      /\ u.rows[N + 1] = x /\ \A p \in 1..N : u.rows[p] = t.rows[p]
  BY <1>1, <1>3
<1> HIDE DEF N, n, m
<1>6. /\ \A p \in 1..(N + 1) : p \in 1..N \/ p = N + 1
      /\ \A p \in 1..N : p \in 1..(N + 1)
      /\ N + 1 \in 1..(N + 1)
      /\ \A p \in 1..(N + 1), q \in 1..(N + 1) : p < q => p \in 1..N
  BY <1>5
<1>7. \A p \in DOMAIN u.rows : \/ \E j \in 1..(slot - 1) : FromSlot(w, u.rows[p], j)
                               \/ \E i \in 1..(ptr - 1) : FromRemoved(rem, u.rows[p], i)
  <2>1. \A p \in 1..N : \/ \E j \in 1..(t.slot - 1) : FromSlot(w, t.rows[p], j)
                        \/ \E i \in 1..(t.ptr - 1) : FromRemoved(rem, t.rows[p], i)
    BY <1>5 DEF Laid
  <2>2. \/ \E j \in 1..(slot - 1) : FromSlot(w, x, j)
        \/ \E i \in 1..(ptr - 1) : FromRemoved(rem, x, i)
    <3>1. slot = t.slot + 1 => t.slot \in 1..(slot - 1)
      BY <1>1
    <3>2. ptr = t.ptr + 1 => t.ptr \in 1..(ptr - 1)
      BY <1>1
    <3> QED
      BY <3>1, <3>2
  <2>3. ASSUME NEW p \in 1..N
        PROVE  \/ \E j \in 1..(slot - 1) : FromSlot(w, u.rows[p], j)
               \/ \E i \in 1..(ptr - 1) : FromRemoved(rem, u.rows[p], i)
    <3>1. u.rows[p] = t.rows[p]
      BY <1>5
    <3> QED
      BY <1>2, <2>1, <3>1
  <2> QED
    BY <1>5, <1>6, <2>2, <2>3
<1>8. ASSUME NEW j \in 1..(slot - 1) PROVE \E p \in DOMAIN u.rows : FromSlot(w, u.rows[p], j)
  <2>1. j \in 1..(t.slot - 1) \/ (slot = t.slot + 1 /\ j = t.slot)
    BY <1>1, <1>2
  <2>2. CASE j \in 1..(t.slot - 1)
    <3>1. PICK p \in 1..N : FromSlot(w, t.rows[p], j)
      BY <1>5, <2>2 DEF Laid
    <3> QED
      BY <1>5, <1>6, <3>1
  <2>3. CASE slot = t.slot + 1 /\ j = t.slot
    <3>1. slot # t.slot
      BY <1>1, <2>3
    <3>2. FromSlot(w, u.rows[N + 1], j)
      BY <1>5, <2>3, <3>1
    <3> QED
      BY <1>5, <1>6, <3>2
  <2> QED
    BY <2>1, <2>2, <2>3
<1>9. ASSUME NEW i \in 1..(ptr - 1) PROVE \E p \in DOMAIN u.rows : FromRemoved(rem, u.rows[p], i)
  <2>1. i \in 1..(t.ptr - 1) \/ (ptr = t.ptr + 1 /\ i = t.ptr)
    BY <1>1, <1>2
  <2>2. CASE i \in 1..(t.ptr - 1)
    <3>1. PICK p \in 1..N : FromRemoved(rem, t.rows[p], i)
      BY <1>5, <2>2 DEF Laid
    <3> QED
      BY <1>5, <1>6, <3>1
  <2>3. CASE ptr = t.ptr + 1 /\ i = t.ptr
    <3>1. ptr # t.ptr
      BY <1>1, <2>3
    <3>2. FromRemoved(rem, u.rows[N + 1], i)
      BY <1>5, <2>3, <3>1
    <3> QED
      BY <1>5, <1>6, <3>2
  <2> QED
    BY <2>1, <2>2, <2>3
<1>10. \A p, q \in DOMAIN u.rows :
         p < q => /\ u.rows[p].rightKey # None /\ u.rows[q].rightKey # None
                       => u.rows[p].rightKey < u.rows[q].rightKey
                  /\ u.rows[p].leftKey # None => u.rows[p].leftKey # u.rows[q].leftKey
  <2> SUFFICES ASSUME NEW p \in 1..(N + 1), NEW q \in 1..(N + 1), p < q
               PROVE  /\ u.rows[p].rightKey # None /\ u.rows[q].rightKey # None
                           => u.rows[p].rightKey < u.rows[q].rightKey
                      /\ u.rows[p].leftKey # None => u.rows[p].leftKey # u.rows[q].leftKey
    BY <1>5
  <2>1. p \in 1..N /\ u.rows[p] = t.rows[p]
    BY <1>5, <1>6
  <2>2. CASE q \in 1..N
    <3>1. u.rows[q] = t.rows[q] /\ p \in DOMAIN t.rows /\ q \in DOMAIN t.rows
      BY <1>5, <2>1, <2>2
    <3> QED
      BY <2>1, <3>1 DEF Laid
  <2>3. CASE q = N + 1
    <3>1. u.rows[q] = x /\ p \in DOMAIN t.rows
      BY <1>5, <2>1, <2>3
    <3> QED
      BY <2>1, <3>1 DEF Fresh
  <2> QED
    BY <1>6, <2>2, <2>3
<1>11. Laid(w, rem, u)
  BY <1>3, <1>4, <1>7, <1>8, <1>9, <1>10 DEF Laid
<1>12. ASSUME LaidInOrder(w, rem, t), Between(w, rem, t.rows, x, slot, ptr)
       PROVE  LaidInOrder(w, rem, u)
  <2>1. ASSUME NEW p \in DOMAIN u.rows, NEW q \in DOMAIN u.rows, p < q,
               u.rows[p].leftKey # None, u.rows[q].leftKey # None
        PROVE  u.rows[p].leftKey < u.rows[q].leftKey
    <3>1. p \in 1..N /\ u.rows[p] = t.rows[p] /\ p \in DOMAIN t.rows
      BY <1>5, <1>6, <2>1
    <3>2. CASE q \in 1..N
      <4>1. u.rows[q] = t.rows[q] /\ q \in DOMAIN t.rows
        BY <1>5, <3>2
      <4> QED
        BY <1>12, <2>1, <3>1, <4>1 DEF LaidInOrder
    <3>3. CASE q = N + 1
      <4>1. u.rows[q] = x
        BY <1>5, <3>3
      <4> QED
        BY <1>12, <2>1, <3>1, <4>1 DEF Between
    <3> QED
      BY <1>5, <1>6, <3>2, <3>3
  <2>2. ASSUME NEW p \in DOMAIN u.rows, u.rows[p].leftKey # None
        PROVE  /\ \A j \in slot..n : w[j] # None => u.rows[p].leftKey < w[j]
               /\ \A i \in ptr..m : u.rows[p].leftKey < rem[i]
    <3>1. CASE p \in 1..N
      <4>1. u.rows[p] = t.rows[p] /\ p \in DOMAIN t.rows
        BY <1>5, <3>1
      <4>2. /\ \A j \in t.slot..n : w[j] # None => t.rows[p].leftKey < w[j]
            /\ \A i \in t.ptr..m : t.rows[p].leftKey < rem[i]
        BY <1>12, <2>2, <4>1 DEF LaidInOrder, n, m
      <4> QED
        BY <1>2, <4>1, <4>2
    <3>2. CASE p = N + 1
      BY <1>5, <1>12, <2>2, <3>2 DEF Between, n, m
    <3> QED
      BY <1>5, <1>6, <3>1, <3>2
  <2> QED
    BY <1>3, <2>1, <2>2 DEF LaidInOrder, n, m
<1> QED
  BY <1>11, <1>12

LEMMA LaidOneMore ==
  ASSUME NEW w, NEW rem, Walkable(w, rem), NEW t, Laid(w, rem, t),
         t.slot <= Len(w) \/ t.ptr <= Len(rem)
  PROVE  LET u == Arrays!Turn(w, rem, t)
         IN  /\ Laid(w, rem, u) /\ u.slot + u.ptr = t.slot + t.ptr + 1
             /\ Rising(w) /\ LaidInOrder(w, rem, t) => LaidInOrder(w, rem, u)
<1> DEFINE u == Arrays!Turn(w, rem, t)
           n == Len(w)
           m == Len(rem)
<1>1. /\ n \in Nat /\ m \in Nat /\ DOMAIN rem = 1..m
      /\ \A j \in 1..n : w[j] \in Nat \cup {None}
      /\ \A i \in 1..m : rem[i] \in Nat
      /\ None \notin Nat
  BY ContainerAssumption DEF Walkable
<1>2. /\ t.slot \in Nat \ {0} /\ t.ptr \in Nat \ {0} /\ t.rows \in Seq(ArrayRow)
      /\ t.slot <= n + 1 /\ t.ptr <= m + 1
      /\ t \in [slot : Nat \ {0}, ptr : Nat \ {0}, rows : Seq(ArrayRow)]
  BY DEF Laid
<1>3. \A x \in Nat \cup {None}, y \in Nat \cup {None} : Arrays!Row(x, y) \in ArrayRow
  BY DEF ArrayRow, Arrays!Row
<1>4. \A p \in DOMAIN t.rows : \/ \E j \in 1..(t.slot - 1) : FromSlot(w, t.rows[p], j)
                               \/ \E i \in 1..(t.ptr - 1) : FromRemoved(rem, t.rows[p], i)
  BY DEF Laid
<1>5. \A j \in 1..(t.slot - 1) : j \in 1..n /\ j < t.slot
  BY <1>1, <1>2
<1>6. \A i \in 1..(t.ptr - 1) : i \in 1..m /\ i < t.ptr
  BY <1>1, <1>2
<1>7. CASE Arrays!RemovedDue(w, rem, t)
  <2> DEFINE x == Arrays!Row(rem[t.ptr], None)
  <2>1. t.ptr \in 1..m /\ (t.slot <= n => w[t.slot] # None /\ rem[t.ptr] < w[t.slot])
    BY <1>1, <1>2, <1>7 DEF Arrays!RemovedDue
  <2>2. u = [t EXCEPT !.ptr = @ + 1, !.rows = Append(@, x)]
    BY <1>7 DEF Arrays!Turn
  <2>3. x \in ArrayRow /\ x.leftKey = rem[t.ptr] /\ x.rightKey = None /\ x.leftKey # None
        /\ rem[t.ptr] \in Nat
    BY <1>1, <1>3, <2>1 DEF Arrays!Row
  <2> HIDE DEF x, u, n, m
  <2>4. u.slot = t.slot /\ u.ptr = t.ptr + 1 /\ t.ptr + 1 \in Nat
        /\ u = [slot |-> t.slot, ptr |-> t.ptr + 1, rows |-> Append(t.rows, x)]
    <3>1. t \in [slot : Nat \ {0}, ptr : Nat \ {0}, rows : Seq(ArrayRow)] /\ t.ptr + 1 \in Nat
      BY <1>2
    <3>2. u = [slot |-> t.slot, ptr |-> t.ptr + 1, rows |-> Append(t.rows, x)]
      BY <2>2, <3>1
    <3> QED
      BY <3>1, <3>2
  <2>5. ASSUME NEW p \in DOMAIN t.rows, t.rows[p].leftKey = rem[t.ptr] PROVE FALSE
    <3>1. CASE \E j \in 1..(t.slot - 1) : FromSlot(w, t.rows[p], j)
      <4>1. PICK j \in 1..(t.slot - 1) : w[j] = rem[t.ptr]
        BY <2>5, <3>1 DEF FromSlot
      <4> QED
        BY <1>5, <2>1, <4>1 DEF Walkable, n, m
    <3>2. CASE \E i \in 1..(t.ptr - 1) : FromRemoved(rem, t.rows[p], i)
      <4>1. PICK i \in 1..(t.ptr - 1) : rem[i] = rem[t.ptr]
        BY <2>5, <3>2 DEF FromRemoved
      <4>2. rem[i] < rem[t.ptr]
        BY <1>6, <2>1, <4>1 DEF Walkable, m
      <4> QED
        BY <2>3, <4>1, <4>2
    <3> QED
      BY <1>4, <3>1, <3>2
  <2>6. Fresh(t.rows, x)
    BY <2>3, <2>5 DEF Fresh
  <2>7. ASSUME Rising(w), LaidInOrder(w, rem, t) PROVE Between(w, rem, t.rows, x, u.slot, u.ptr)
    <3>1. \A p \in DOMAIN t.rows : t.rows[p].leftKey # None => t.rows[p].leftKey < x.leftKey
      <4>1. t.ptr \in t.ptr..m
        BY <1>1, <2>1
      <4> QED
        BY <2>3, <2>7, <4>1 DEF LaidInOrder, m
    <3>2. ASSUME NEW j \in t.slot..n, w[j] # None PROVE x.leftKey < w[j]
      <4>1. t.slot \in 1..n /\ j \in 1..n /\ t.slot <= n
        BY <1>1, <1>2
      <4>2. w[t.slot] \in Nat /\ w[j] \in Nat /\ rem[t.ptr] < w[t.slot] /\ w[t.slot] # None
        BY <1>1, <2>1, <3>2, <4>1
      <4>3. t.slot = j \/ t.slot < j
        BY <1>2, <4>1
      <4>4. t.slot < j => w[t.slot] < w[j]
        BY <2>7, <3>2, <4>1, <4>2 DEF Rising, n
      <4> QED
        BY <2>3, <4>2, <4>3, <4>4
    <3>3. ASSUME NEW i \in (t.ptr + 1)..m PROVE x.leftKey < rem[i]
      <4>1. i \in 1..m /\ t.ptr < i
        BY <1>1, <2>1
      <4> QED
        BY <2>1, <2>3, <4>1 DEF Walkable, m
    <3> QED
      BY <2>4, <3>1, <3>2, <3>3 DEF Between, n, m
  <2>8. t.slot <= n + 1 /\ t.ptr + 1 <= m + 1 /\ t.slot + (t.ptr + 1) = t.slot + t.ptr + 1
    BY <1>1, <1>2, <2>1
  <2>9. FromRemoved(rem, x, t.ptr)
    BY <2>3 DEF FromRemoved
  <2>10. Laid(w, rem, u) /\ (Rising(w) /\ LaidInOrder(w, rem, t) => LaidInOrder(w, rem, u))
    BY <1>1, <2>3, <2>4, <2>6, <2>7, <2>8, <2>9, RowAppended DEF n, m
  <2> QED
    BY <2>4, <2>8, <2>10 DEF u
<1>8. CASE ~Arrays!RemovedDue(w, rem, t)
  <2> DEFINE x == Arrays!Row(w[t.slot], t.slot)
  <2>1. t.slot \in 1..n /\ (t.ptr <= m /\ w[t.slot] # None => ~(rem[t.ptr] < w[t.slot]))
    <3>1. t.ptr <= m => t.ptr \in DOMAIN rem
      BY <1>1, <1>2
    <3>2. t.slot <= n
      BY <1>1, <1>2, <1>8, <3>1 DEF Arrays!RemovedDue
    <3> QED
      BY <1>1, <1>2, <1>8, <3>1, <3>2 DEF Arrays!RemovedDue
  <2>2. u = [t EXCEPT !.slot = @ + 1, !.rows = Append(@, x)]
    BY <1>8 DEF Arrays!Turn
  <2>3. x \in ArrayRow /\ x.leftKey = w[t.slot] /\ x.rightKey = t.slot
    BY <1>1, <1>2, <1>3, <2>1 DEF Arrays!Row
  <2> HIDE DEF x, u, n, m
  <2>4. u.slot = t.slot + 1 /\ u.ptr = t.ptr /\ t.slot + 1 \in Nat
        /\ u = [slot |-> t.slot + 1, ptr |-> t.ptr, rows |-> Append(t.rows, x)]
    <3>1. t \in [slot : Nat \ {0}, ptr : Nat \ {0}, rows : Seq(ArrayRow)] /\ t.slot + 1 \in Nat
      BY <1>2
    <3>2. u = [slot |-> t.slot + 1, ptr |-> t.ptr, rows |-> Append(t.rows, x)]
      BY <2>2, <3>1
    <3> QED
      BY <3>1, <3>2
  <2>5. ASSUME NEW p \in DOMAIN t.rows
        PROVE  /\ t.rows[p].rightKey # None => t.rows[p].rightKey < t.slot
               /\ t.rows[p].leftKey # None => t.rows[p].leftKey # w[t.slot]
    <3>1. CASE \E j \in 1..(t.slot - 1) : FromSlot(w, t.rows[p], j)
      <4>1. PICK j \in 1..(t.slot - 1) : t.rows[p].rightKey = j /\ t.rows[p].leftKey = w[j]
        BY <3>1 DEF FromSlot
      <4>2. j \in 1..n /\ j < t.slot /\ j # t.slot
        BY <1>2, <1>5
      <4> QED
        BY <2>1, <4>1, <4>2 DEF Walkable, n
    <3>2. CASE \E i \in 1..(t.ptr - 1) : FromRemoved(rem, t.rows[p], i)
      <4>1. PICK i \in 1..(t.ptr - 1) : t.rows[p].rightKey = None /\ t.rows[p].leftKey = rem[i]
        BY <3>2 DEF FromRemoved
      <4> QED
        BY <1>6, <2>1, <4>1 DEF Walkable, n, m
    <3> QED
      BY <1>4, <3>1, <3>2
  <2>6. Fresh(t.rows, x)
    BY <2>3, <2>5 DEF Fresh
  <2>7. ASSUME Rising(w), LaidInOrder(w, rem, t) PROVE Between(w, rem, t.rows, x, u.slot, u.ptr)
    <3> SUFFICES ASSUME x.leftKey # None
                 PROVE  /\ \A p \in DOMAIN t.rows : t.rows[p].leftKey # None => t.rows[p].leftKey < x.leftKey
                        /\ \A j \in (t.slot + 1)..n : w[j] # None => x.leftKey < w[j]
                        /\ \A i \in t.ptr..m : x.leftKey < rem[i]
      BY <2>4 DEF Between, n, m
    <3>1. \A p \in DOMAIN t.rows : t.rows[p].leftKey # None => t.rows[p].leftKey < x.leftKey
      <4>1. t.slot \in t.slot..n
        BY <1>1, <2>1
      <4> QED
        BY <2>3, <2>7, <4>1 DEF LaidInOrder, n
    <3>2. ASSUME NEW j \in (t.slot + 1)..n, w[j] # None PROVE x.leftKey < w[j]
      <4>1. j \in 1..n /\ t.slot < j
        BY <1>1, <2>1
      <4> QED
        BY <2>1, <2>3, <2>7, <3>2, <4>1 DEF Rising, n
    <3>3. ASSUME NEW i \in t.ptr..m PROVE x.leftKey < rem[i]
      <4>1. t.ptr \in 1..m /\ i \in 1..m /\ t.ptr <= m
        BY <1>1, <1>2
      <4>2. rem[t.ptr] \in Nat /\ rem[i] \in Nat /\ w[t.slot] \in Nat
        BY <1>1, <2>1, <2>3, <4>1
      <4>3. ~(rem[t.ptr] < w[t.slot]) /\ w[t.slot] # rem[t.ptr]
        BY <2>1, <2>3, <4>1 DEF Walkable, n, m
      <4>4. w[t.slot] < rem[t.ptr]
        BY <4>2, <4>3
      <4>5. t.ptr = i \/ t.ptr < i
        BY <1>2, <4>1
      <4>6. t.ptr < i => rem[t.ptr] < rem[i]
        BY <4>1 DEF Walkable, m
      <4> QED
        BY <2>3, <4>2, <4>4, <4>5, <4>6
    <3> QED
      BY <3>1, <3>2, <3>3
  <2>8. t.slot + 1 <= n + 1 /\ t.ptr <= m + 1 /\ (t.slot + 1) + t.ptr = t.slot + t.ptr + 1
    BY <1>1, <1>2, <2>1
  <2>9. FromSlot(w, x, t.slot)
    BY <2>3 DEF FromSlot
  <2>10. Laid(w, rem, u) /\ (Rising(w) /\ LaidInOrder(w, rem, t) => LaidInOrder(w, rem, u))
    BY <1>1, <2>3, <2>4, <2>6, <2>7, <2>8, <2>9, RowAppended DEF n, m
  <2> QED
    BY <2>4, <2>8, <2>10 DEF u
<1> QED
  BY <1>7, <1>8

(* What the walk has after k turns.                                        *)
Progress == [slot : Nat \ {0}, ptr : Nat \ {0}, rows : Seq(ArrayRow)]
WalkedTo(w, rem, k, t) ==
  /\ Laid(w, rem, t) /\ t.slot + t.ptr = k + 2
  /\ Rising(w) => LaidInOrder(w, rem, t)

LEMMA WalkedToOneMore ==
  ASSUME NEW w, NEW rem, Walkable(w, rem), NEW k \in 1..(Len(w) + Len(rem)),
         NEW t, WalkedTo(w, rem, k - 1, t)
  PROVE  WalkedTo(w, rem, k, Arrays!Turn(w, rem, t)) /\ Arrays!Turn(w, rem, t) \in Progress
<1> DEFINE u == Arrays!Turn(w, rem, t)
<1>1. Len(w) \in Nat /\ Len(rem) \in Nat
  BY DEF Walkable
<1>2. t.slot \in Nat /\ t.ptr \in Nat /\ t.slot + t.ptr = (k - 1) + 2 /\ Laid(w, rem, t)
  BY DEF WalkedTo, Laid
<1>3. t.slot <= Len(w) \/ t.ptr <= Len(rem)
  BY <1>1, <1>2
<1>4. /\ Laid(w, rem, u) /\ u.slot + u.ptr = t.slot + t.ptr + 1
      /\ Rising(w) /\ LaidInOrder(w, rem, t) => LaidInOrder(w, rem, u)
  BY <1>2, <1>3, LaidOneMore
<1>5. u.slot + u.ptr = k + 2
  <2> HIDE DEF u
  <2> QED
    BY <1>1, <1>2, <1>4
<1>6. u \in Progress
  <2> HIDE DEF u
  <2> QED
    BY <1>4 DEF Laid, Progress
<1> QED
  BY <1>4, <1>5, <1>6 DEF WalkedTo

LEMMA WalkLists ==
  ASSUME NEW w, NEW rem, Walkable(w, rem)
  PROVE  \E t : /\ Laid(w, rem, t) /\ t.slot = Len(w) + 1 /\ t.ptr = Len(rem) + 1
                /\ t.rows = Arrays!Walk(w, rem)
                /\ Rising(w) => LaidInOrder(w, rem, t)
<1> DEFINE N == Len(w) + Len(rem)
           F == [k \in 0..N |-> {t \in Progress : WalkedTo(w, rem, k, t)}]
           H == [p \in Progress \X (1..N) |-> Arrays!Turn(w, rem, p[1])]
           start == Arrays!Begin
           walk == CHOOSE f : f = [k \in 0..N |-> IF k = 0 THEN start ELSE Arrays!Turn(w, rem, f[k - 1])]
<1>1. N \in Nat /\ Len(w) \in Nat /\ Len(rem) \in Nat
  BY DEF Walkable
<1>2. start \in Progress /\ WalkedTo(w, rem, 0, start)
  <2>1. start = [slot |-> 1, ptr |-> 1, rows |-> <<>>]
    BY DEF Arrays!Begin
  <2> HIDE DEF start
  <2>2. start.slot = 1 /\ start.ptr = 1 /\ start.rows = <<>> /\ DOMAIN start.rows = {}
    BY <2>1
  <2>3. start \in Progress
    BY <2>1 DEF Progress
  <2>4. 1..(start.slot - 1) = {} /\ 1..(start.ptr - 1) = {}
    BY <2>2
  <2>5. Laid(w, rem, start)
    BY <1>1, <2>2, <2>3, <2>4 DEF Laid, Progress
  <2>6. LaidInOrder(w, rem, start)
    BY <2>2 DEF LaidInOrder
  <2> QED
    BY <2>2, <2>3, <2>5, <2>6 DEF WalkedTo
<1> HIDE DEF N, start
<1>3. start \in F[0]
  BY <1>1, <1>2
<1>4. \A k \in 1..N : k - 1 \in 0..N /\ k \in 0..N /\ k # 0
  BY <1>1
<1>5. ASSUME NEW k \in 1..N, NEW x \in F[k - 1]
      PROVE  H[<<x, k>>] = Arrays!Turn(w, rem, x) /\ H[<<x, k>>] \in F[k]
  <2>1. x \in Progress /\ WalkedTo(w, rem, k - 1, x)
    BY <1>4
  <2>2. WalkedTo(w, rem, k, Arrays!Turn(w, rem, x)) /\ Arrays!Turn(w, rem, x) \in Progress
    BY <2>1, WalkedToOneMore DEF N
  <2> QED
    BY <1>4, <2>1, <2>2
<1> HIDE DEF F, H
<1>6. PICK f : /\ f = [k \in 0..N |-> f[k]] /\ f[0] = start
               /\ \A k \in 1..N : f[k - 1] \in F[k - 1] /\ f[k] = H[<<f[k - 1], k>>]
  <2>1. Marches(F, N, start, H)
    BY <1>1, <1>3, <1>5, March
  <2> QED
    BY <2>1 DEF Marches
<1>7. walk = [k \in 0..N |-> IF k = 0 THEN start ELSE Arrays!Turn(w, rem, walk[k - 1])]
  <2>1. \A k \in 1..N : f[k] = Arrays!Turn(w, rem, f[k - 1])
    BY <1>5, <1>6
  <2>2. \A k \in 0..N : k = 0 \/ k \in 1..N
    BY <1>1
  <2>3. f = [k \in 0..N |-> IF k = 0 THEN start ELSE Arrays!Turn(w, rem, f[k - 1])]
    BY <1>6, <2>1, <2>2
  <2> QED
    BY <2>3
<1>8. Arrays!Walk(w, rem) = walk[N].rows
  BY DEF Arrays!Walk, N, start
<1> HIDE DEF walk
<1>9. walk[0] = start /\ \A k \in 1..N : walk[k] = Arrays!Turn(w, rem, walk[k - 1])
  <2>1. 0 \in 0..N
    BY <1>1
  <2> QED
    BY <1>4, <1>7, <2>1
<1>10. walk[N] \in F[N]
  <2> DEFINE T == {k \in 0..N : walk[k] \in F[k]}
  <2>1. 0 \in T
    BY <1>1, <1>3, <1>9
  <2>2. ASSUME NEW k \in 0..(N - 1), k \in T PROVE k + 1 \in T
    <3>1. k + 1 \in 1..N /\ k + 1 \in 0..N /\ (k + 1) - 1 = k
      BY <1>1
    <3>2. walk[k + 1] = Arrays!Turn(w, rem, walk[k])
      BY <1>9, <3>1
    <3>3. H[<<walk[k], k + 1>>] \in F[k + 1] /\ H[<<walk[k], k + 1>>] = Arrays!Turn(w, rem, walk[k])
      BY <1>5, <2>2, <3>1
    <3> QED
      BY <3>1, <3>2, <3>3
  <2> HIDE DEF T
  <2>3. 0..N \subseteq T
    BY <1>1, <2>1, <2>2, UpTo
  <2>4. N \in 0..N
    BY <1>1
  <2> QED
    BY <2>3, <2>4 DEF T
<1>11. WalkedTo(w, rem, N, walk[N])
  <2>1. N \in 0..N
    BY <1>1
  <2> QED
    BY <1>10, <2>1 DEF F
<1> DEFINE t == walk[N]
<1>12. /\ Laid(w, rem, t) /\ t.slot + t.ptr = N + 2 /\ (Rising(w) => LaidInOrder(w, rem, t))
       /\ t.slot \in Nat /\ t.ptr \in Nat /\ t.slot <= Len(w) + 1 /\ t.ptr <= Len(rem) + 1
  BY <1>11 DEF WalkedTo, Laid
<1> HIDE DEF t
<1>13. t.slot = Len(w) + 1 /\ t.ptr = Len(rem) + 1
  BY <1>1, <1>12 DEF N
<1> QED
  BY <1>8, <1>12, <1>13 DEF t

(* The rows of a script: every element of both sides once, the right side  *)
(* from first to last, and the left side too as long as nothing moves.     *)
Aligned(l, r, s, rows) ==
  /\ rows \in Seq(ArrayRow)
  /\ \A p \in DOMAIN rows :
       /\ rows[p].leftKey # None => rows[p].leftKey \in 1..Len(l)
       /\ rows[p].rightKey # None => rows[p].rightKey \in 1..Len(r)
       /\ rows[p].leftKey = None => rows[p].rightKey \in s.added
       /\ rows[p].rightKey = None => rows[p].leftKey \in s.removed
       /\ rows[p].leftKey # None /\ rows[p].rightKey # None
            => <<rows[p].leftKey, rows[p].rightKey>> \in PairsOf(l, r, s)
  /\ \A i \in 1..Len(l) : \E p \in DOMAIN rows : rows[p].leftKey = i
  /\ \A j \in 1..Len(r) : \E p \in DOMAIN rows : rows[p].rightKey = j
  /\ \A x \in PairsOf(l, r, s) :
       \E p \in DOMAIN rows : /\ x = <<rows[p].leftKey, rows[p].rightKey>>
                             /\ rows[p].leftKey # None /\ rows[p].rightKey # None
  /\ \A p, q \in DOMAIN rows :
       p < q => /\ rows[p].rightKey # None /\ rows[q].rightKey # None
                     => rows[p].rightKey < rows[q].rightKey
                /\ rows[p].leftKey # None => rows[p].leftKey # rows[q].leftKey
  /\ DOMAIN s.from = {} =>
       \A p, q \in DOMAIN rows :
         p < q /\ rows[p].leftKey # None /\ rows[q].leftKey # None
           => rows[p].leftKey < rows[q].leftKey

LEMMA ScriptAligned ==
  ASSUME NEW l, NEW r, NEW s, IsScript(l, r, s)
  PROVE  Aligned(l, r, s, Arrays!Rows(l, s))
<1> DEFINE w == Arrays!Working(l, s)
           rem == Arrays!InOrder(s.removed)
           n == Len(r)
           m == Cardinality(s.removed)
           rows == Arrays!Rows(l, s)
<1>1. /\ n \in Nat /\ s.removed \subseteq 1..Len(l) /\ IsFiniteSet(s.removed) /\ Len(l) \in Nat
      /\ \A i \in 1..Len(l) : i # None /\ i \in Nat
      /\ \A j \in 1..n : j # None /\ j \in Nat
      /\ s.added \subseteq 1..n
  <2>1. /\ n \in Nat /\ s.removed \subseteq 1..Len(l) /\ IsFiniteSet(s.removed) /\ Len(l) \in Nat
        /\ Placed(s) \subseteq 1..n
    BY ScriptSets
  <2> QED
    BY <2>1, ContainerAssumption DEF Placed
<1>2. m \in Nat /\ rem \in [1..m -> s.removed]
      /\ (\A i \in s.removed : \E k \in 1..m : rem[k] = i)
      /\ \A j, k \in 1..m : j < k => rem[j] < rem[k]
  <2>1. s.removed \in SUBSET Nat
    BY <1>1
  <2>2. Enumerates(rem, s.removed)
    BY <1>1, <2>1, InOrderEnumerates
  <2> HIDE DEF rem
  <2> QED
    BY <2>2 DEF Enumerates
<1>3. w \in Seq(Nat \cup {None}) /\ Len(w) = n
  BY WorkingIs
<1>4. /\ \A j \in 1..n : w[j] # None => <<w[j], j>> \in PairsOf(l, r, s)
      /\ \A x \in PairsOf(l, r, s) : \E j \in 1..n : w[j] # None /\ x = <<w[j], j>>
      /\ \A j \in 1..n : w[j] # None => w[j] \in (1..Len(l)) \ s.removed
      /\ \A i, j \in 1..n : w[i] # None /\ w[i] = w[j] => i = j
      /\ \A i \in (1..Len(l)) \ s.removed : \E j \in 1..n : w[j] = i
      /\ \A j \in 1..n : w[j] = None <=> j \in s.added
      /\ DOMAIN s.from = {} => \A i, j \in 1..n : i < j /\ w[i] # None /\ w[j] # None => w[i] < w[j]
  BY SlotsPair
<1>5. rows = Arrays!Walk(w, rem)
  BY DEF Arrays!Rows
<1> HIDE DEF w, rem, n, m, rows
<1>6. rem \in Seq(Nat) /\ Len(rem) = m /\ \A k \in 1..m : rem[k] \in s.removed
  <2>1. rem \in [1..m -> Nat]
    BY <1>1, <1>2
  <2> QED
    BY <1>2, <2>1
<1>7. Walkable(w, rem)
  <2>1. \A j \in 1..n, k \in 1..m : w[j] # rem[k]
    <3> SUFFICES ASSUME NEW j \in 1..n, NEW k \in 1..m, w[j] = rem[k] PROVE FALSE
      OBVIOUS
    <3>1. rem[k] \in s.removed /\ rem[k] # None
      BY <1>1, <1>6
    <3> QED
      BY <1>4, <3>1
  <2> QED
    BY <1>2, <1>3, <1>4, <1>6, <2>1 DEF Walkable
<1>8. PICK t : /\ Laid(w, rem, t) /\ t.slot = n + 1 /\ t.ptr = m + 1 /\ t.rows = rows
               /\ Rising(w) => LaidInOrder(w, rem, t)
  BY <1>3, <1>5, <1>6, <1>7, WalkLists
<1>9. /\ rows \in Seq(ArrayRow)
      /\ \A p \in DOMAIN rows : \/ \E j \in 1..n : FromSlot(w, rows[p], j)
                                \/ \E i \in 1..m : FromRemoved(rem, rows[p], i)
      /\ \A j \in 1..n : \E p \in DOMAIN rows : FromSlot(w, rows[p], j)
      /\ \A i \in 1..m : \E p \in DOMAIN rows : FromRemoved(rem, rows[p], i)
      /\ \A p, q \in DOMAIN rows :
           p < q => /\ rows[p].rightKey # None /\ rows[q].rightKey # None
                         => rows[p].rightKey < rows[q].rightKey
                    /\ rows[p].leftKey # None => rows[p].leftKey # rows[q].leftKey
  <2>1. t.slot - 1 = n /\ t.ptr - 1 = m
    BY <1>1, <1>2, <1>8
  <2>2. t.rows \in Seq(ArrayRow)
    BY <1>8 DEF Laid
  <2> QED
    BY <1>8, <2>1, <2>2 DEF Laid
<1>10. ASSUME NEW p \in DOMAIN rows
       PROVE  /\ rows[p].leftKey # None => rows[p].leftKey \in 1..Len(l)
              /\ rows[p].rightKey # None => rows[p].rightKey \in 1..n
              /\ rows[p].leftKey = None => rows[p].rightKey \in s.added
              /\ rows[p].rightKey = None => rows[p].leftKey \in s.removed
              /\ rows[p].leftKey # None /\ rows[p].rightKey # None
                   => <<rows[p].leftKey, rows[p].rightKey>> \in PairsOf(l, r, s)
  <2>1. CASE \E j \in 1..n : FromSlot(w, rows[p], j)
    <3>1. PICK j \in 1..n : rows[p].rightKey = j /\ rows[p].leftKey = w[j]
      BY <2>1 DEF FromSlot
    <3> QED
      BY <1>1, <1>4, <3>1
  <2>2. CASE \E i \in 1..m : FromRemoved(rem, rows[p], i)
    <3>1. PICK i \in 1..m : rows[p].rightKey = None /\ rows[p].leftKey = rem[i]
      BY <2>2 DEF FromRemoved
    <3>2. rem[i] \in s.removed /\ rem[i] \in 1..Len(l) /\ rem[i] # None
      BY <1>1, <1>6
    <3> QED
      BY <3>1, <3>2
  <2> QED
    BY <1>9, <2>1, <2>2
<1>11. ASSUME NEW i \in 1..Len(l) PROVE \E p \in DOMAIN rows : rows[p].leftKey = i
  <2>1. CASE i \in s.removed
    <3>1. PICK k \in 1..m : rem[k] = i
      BY <1>2, <2>1
    <3> QED
      BY <1>9, <3>1 DEF FromRemoved
  <2>2. CASE i \notin s.removed
    <3>1. PICK j \in 1..n : w[j] = i
      BY <1>4, <2>2
    <3> QED
      BY <1>9, <3>1 DEF FromSlot
  <2> QED
    BY <2>1, <2>2
<1>12. \A j \in 1..n : \E p \in DOMAIN rows : rows[p].rightKey = j
  BY <1>9 DEF FromSlot
<1>13. ASSUME NEW x \in PairsOf(l, r, s)
       PROVE  \E p \in DOMAIN rows : /\ x = <<rows[p].leftKey, rows[p].rightKey>>
                                     /\ rows[p].leftKey # None /\ rows[p].rightKey # None
  <2>1. PICK j \in 1..n : w[j] # None /\ x = <<w[j], j>> /\ j # None
    BY <1>1, <1>4
  <2>2. PICK p \in DOMAIN rows : rows[p].rightKey = j /\ rows[p].leftKey = w[j]
    BY <1>9 DEF FromSlot
  <2> QED
    BY <2>1, <2>2
<1>14. DOMAIN s.from = {} =>
         \A p, q \in DOMAIN rows :
           p < q /\ rows[p].leftKey # None /\ rows[q].leftKey # None
             => rows[p].leftKey < rows[q].leftKey
  <2>1. DOMAIN s.from = {} => Rising(w)
    BY <1>3, <1>4 DEF Rising
  <2> QED
    BY <1>8, <2>1 DEF LaidInOrder
<1> QED
  BY <1>9, <1>10, <1>11, <1>12, <1>13, <1>14 DEF Aligned, n, rows

-----------------------------------------------------------------------------
(* buildRows: the two columns.                                             *)

(* at leads through the rows of one side, from the first to the last.      *)
Leads(rows, side, n, at) ==
  /\ n \in Nat /\ at \in [1..n -> DOMAIN rows]
  /\ \A k \in 1..n : rows[at[k]][side] # None
  /\ \A j, k \in 1..n : j < k => at[j] < at[k]
  /\ \A p \in DOMAIN rows : rows[p][side] # None => \E k \in 1..n : at[k] = p
  /\ Arrays!OnSide(rows, side) = [k \in 1..n |-> rows[at[k]]]

LEMMA SideLeads ==
  ASSUME NEW rows \in Seq(ArrayRow), NEW side
  PROVE  \E n, at : Leads(rows, side, n, at)
<1> DEFINE S == {p \in DOMAIN rows : rows[p][side] # None}
           at == Arrays!InOrder(S)
           n == Cardinality(S)
<1>1. S \in SUBSET Nat /\ IsFiniteSet(S)
  <2>1. Len(rows) \in Nat /\ DOMAIN rows = 1..Len(rows)
    OBVIOUS
  <2>2. IsFiniteSet(1..Len(rows))
    BY <2>1, UpToCounts
  <2>3. S \subseteq 1..Len(rows)
    BY <2>1
  <2>4. 1..Len(rows) \in SUBSET Nat
    BY <2>1
  <2> HIDE DEF S
  <2>5. IsFiniteSet(S)
    BY <2>2, <2>3, FS_Subset
  <2> QED
    BY <2>3, <2>4, <2>5
<1>2. Enumerates(at, S)
  <2> HIDE DEF S
  <2> QED
    BY <1>1, InOrderEnumerates
<1>3. Arrays!OnSide(rows, side) = [k \in DOMAIN at |-> rows[at[k]]]
  BY DEF Arrays!OnSide
<1> HIDE DEF at
<1>4. /\ n \in Nat /\ at \in [1..n -> S] /\ DOMAIN at = 1..n
      /\ \A i \in S : \E k \in 1..n : at[k] = i
      /\ \A j, k \in 1..n : j < k => at[j] < at[k]
  <2> HIDE DEF S
  <2> QED
    BY <1>2 DEF Enumerates
<1> HIDE DEF n
<1>5. at \in [1..n -> DOMAIN rows] /\ \A k \in 1..n : rows[at[k]][side] # None
  BY <1>4
<1>6. Arrays!OnSide(rows, side) = [k \in 1..n |-> rows[at[k]]]
  BY <1>3, <1>4
<1>7. \A p \in DOMAIN rows : rows[p][side] # None => \E k \in 1..n : at[k] = p
  BY <1>4
<1> HIDE DEF S
<1>8. Leads(rows, side, n, at)
  BY <1>4, <1>5, <1>6, <1>7 DEF Leads
<1> QED
  BY <1>8

LEMMA RightColumn ==
  ASSUME NEW l, NEW r, NEW s, IsScript(l, r, s), NEW rows, Aligned(l, r, s, rows)
  PROVE  LET col == Arrays!OnRight(rows)
         IN  /\ DOMAIN col = 1..Len(r)
             /\ \A j \in 1..Len(r) : /\ col[j].rightKey = j
                                     /\ \E p \in DOMAIN rows : col[j] = rows[p]
             /\ \A p \in DOMAIN rows : rows[p].rightKey # None => \E j \in 1..Len(r) : col[j] = rows[p]
<1> DEFINE col == Arrays!OnRight(rows)
           S == 1..Len(r)
<1>1. rows \in Seq(ArrayRow) /\ Len(r) \in Nat /\ S \in SUBSET Nat
  BY ScriptSets DEF Aligned
<1>2. PICK n, at : Leads(rows, "rightKey", n, at)
  BY <1>1, SideLeads
<1>3. /\ n \in Nat /\ at \in [1..n -> DOMAIN rows]
      /\ \A k \in 1..n : rows[at[k]].rightKey # None
      /\ \A j, k \in 1..n : j < k => at[j] < at[k]
      /\ \A p \in DOMAIN rows : rows[p].rightKey # None => \E k \in 1..n : at[k] = p
      /\ col = [k \in 1..n |-> rows[at[k]]]
  BY <1>2 DEF Leads, Arrays!OnRight
<1> DEFINE g == [k \in 1..n |-> rows[at[k]].rightKey]
           id == [k \in S |-> k]
<1> HIDE DEF col, S
<1>4. /\ \A k \in 1..n : g[k] \in S
      /\ \A j, k \in 1..n : j < k => g[j] < g[k]
      /\ \A i \in S : \E k \in 1..n : g[k] = i
  <2>1. \A k \in 1..n : at[k] \in DOMAIN rows /\ rows[at[k]].rightKey \in S
    BY <1>3 DEF Aligned, S
  <2>2. ASSUME NEW j \in 1..n, NEW k \in 1..n, j < k PROVE g[j] < g[k]
    <3>1. at[j] < at[k] /\ at[j] \in DOMAIN rows /\ at[k] \in DOMAIN rows
      BY <1>3, <2>2
    <3> QED
      BY <1>3, <3>1 DEF Aligned
  <2>3. ASSUME NEW i \in S PROVE \E k \in 1..n : g[k] = i
    <3>1. PICK p \in DOMAIN rows : rows[p].rightKey = i
      BY DEF Aligned, S
    <3>2. i # None
      BY <1>1, ContainerAssumption
    <3> QED
      BY <1>3, <3>1, <3>2
  <2> QED
    BY <2>1, <2>2, <2>3
<1>5. g \in [1..n -> S]
  BY <1>4
<1>6. Cardinality(S) = n /\ g = Arrays!InOrder(S)
  <2> HIDE DEF g
  <2> QED
    BY <1>1, <1>3, <1>4, <1>5, OneEnumeration
<1>7. n = Len(r)
  BY <1>1, <1>6, UpToCounts DEF S
<1>8. id = Arrays!InOrder(S)
  <2>1. id \in [1..n -> S] /\ (\A j, k \in 1..n : j < k => id[j] < id[k])
        /\ \A i \in S : \E k \in 1..n : id[k] = i
    BY <1>7 DEF S
  <2> HIDE DEF id
  <2> QED
    BY <1>1, <1>3, <2>1, OneEnumeration
<1>9. \A k \in 1..n : g[k] = k
  <2>1. g = id
    BY <1>6, <1>8
  <2>2. \A k \in 1..n : id[k] = k
    BY <1>7 DEF S
  <2> HIDE DEF g, id
  <2> QED
    BY <2>1, <2>2
<1>10. ASSUME NEW j \in 1..n PROVE col[j].rightKey = j /\ \E p \in DOMAIN rows : col[j] = rows[p]
  <2>1. col[j] = rows[at[j]] /\ at[j] \in DOMAIN rows
    BY <1>3
  <2>2. rows[at[j]].rightKey = j
    BY <1>9
  <2> QED
    BY <2>1, <2>2
<1>11. ASSUME NEW p \in DOMAIN rows, rows[p].rightKey # None PROVE \E j \in 1..n : col[j] = rows[p]
  BY <1>3, <1>11
<1> QED
  BY <1>3, <1>7, <1>10, <1>11 DEF col

(* The left column is the left array as it stands.                         *)
Straight(l, col) == \A k \in 1..Len(l) : col[k].leftKey = k

LEMMA LeftColumn ==
  ASSUME NEW l, NEW r, NEW s, IsScript(l, r, s), NEW rows, Aligned(l, r, s, rows)
  PROVE  LET col == Arrays!OnLeft(rows)
         IN  /\ DOMAIN col = 1..Len(l)
             /\ \A k \in 1..Len(l) : /\ col[k].leftKey \in 1..Len(l)
                                     /\ \E p \in DOMAIN rows : col[k] = rows[p]
             /\ \A i \in 1..Len(l) : \E k \in 1..Len(l) : col[k].leftKey = i
             /\ \A p \in DOMAIN rows : rows[p].leftKey # None => \E k \in 1..Len(l) : col[k] = rows[p]
             /\ DOMAIN s.from = {} => Straight(l, col)
<1> DEFINE col == Arrays!OnLeft(rows)
           S == 1..Len(l)
<1>1. rows \in Seq(ArrayRow) /\ Len(l) \in Nat /\ S \in SUBSET Nat /\ DOMAIN rows \subseteq Nat
  BY ScriptSets DEF Aligned
<1>2. PICK n, at : Leads(rows, "leftKey", n, at)
  BY <1>1, SideLeads
<1>3. /\ n \in Nat /\ at \in [1..n -> DOMAIN rows]
      /\ \A k \in 1..n : rows[at[k]].leftKey # None
      /\ \A j, k \in 1..n : j < k => at[j] < at[k]
      /\ \A p \in DOMAIN rows : rows[p].leftKey # None => \E k \in 1..n : at[k] = p
      /\ col = [k \in 1..n |-> rows[at[k]]]
  BY <1>2 DEF Leads, Arrays!OnLeft
<1> DEFINE g == [k \in 1..n |-> rows[at[k]].leftKey]
           id == [k \in S |-> k]
<1> HIDE DEF col, S
<1>4. /\ \A k \in 1..n : g[k] \in S
      /\ \A j, k \in 1..n : j < k => g[j] # g[k]
      /\ \A i \in S : \E k \in 1..n : g[k] = i
      /\ DOMAIN s.from = {} => \A j, k \in 1..n : j < k => g[j] < g[k]
  <2>1. \A k \in 1..n : at[k] \in DOMAIN rows /\ rows[at[k]].leftKey \in S
    BY <1>3 DEF Aligned, S
  <2>2. ASSUME NEW j \in 1..n, NEW k \in 1..n, j < k
        PROVE  g[j] # g[k] /\ (DOMAIN s.from = {} => g[j] < g[k])
    <3>1. at[j] < at[k] /\ at[j] \in DOMAIN rows /\ at[k] \in DOMAIN rows
      BY <1>3, <2>2
    <3> QED
      BY <1>3, <3>1 DEF Aligned
  <2>3. ASSUME NEW i \in S PROVE \E k \in 1..n : g[k] = i
    <3>1. PICK p \in DOMAIN rows : rows[p].leftKey = i
      BY DEF Aligned, S
    <3>2. i # None
      BY <1>1, ContainerAssumption
    <3> QED
      BY <1>3, <3>1, <3>2
  <2> QED
    BY <2>1, <2>2, <2>3
<1>5. g \in [1..n -> S]
  BY <1>4
<1>6. Cardinality(S) = n
  <2> HIDE DEF g
  <2>1. \A j, k \in 1..n : g[j] = g[k] => j = k
    <3>1. \A j, k \in 1..n : j < k \/ k < j \/ j = k
      BY <1>3
    <3> QED
      BY <1>4, <3>1
  <2>2. IsFiniteSet(1..n) /\ Cardinality(1..n) = n
    BY <1>3, UpToCounts
  <2>3. g \in Surjection(1..n, S) /\ g \in Injection(1..n, S)
    BY <1>4, <1>5, <2>1 DEF Surjection, Injection, IsInjective
  <2> QED
    BY <2>2, <2>3, FS_Surjection
<1>7. n = Len(l)
  BY <1>1, <1>6, UpToCounts DEF S
<1>8. ASSUME DOMAIN s.from = {} PROVE \A k \in 1..n : g[k] = k
  <2>1. id \in [1..n -> S] /\ (\A j, k \in 1..n : j < k => id[j] < id[k])
        /\ \A i \in S : \E k \in 1..n : id[k] = i
    BY <1>7 DEF S
  <2>2. \A k \in 1..n : id[k] = k
    BY <1>7 DEF S
  <2> HIDE DEF id, g
  <2>3. id = Arrays!InOrder(S)
    BY <1>1, <1>3, <2>1, OneEnumeration
  <2>4. g = Arrays!InOrder(S)
    <3>1. (\A j, k \in 1..n : j < k => g[j] < g[k]) /\ \A i \in S : \E k \in 1..n : g[k] = i
      BY <1>4, <1>8
    <3> QED
      BY <1>1, <1>3, <1>5, <3>1, OneEnumeration
  <2> QED
    BY <2>2, <2>3, <2>4
<1>9. ASSUME NEW k \in 1..n
      PROVE  col[k].leftKey = g[k] /\ \E p \in DOMAIN rows : col[k] = rows[p]
  <2>1. col[k] = rows[at[k]] /\ at[k] \in DOMAIN rows
    BY <1>3
  <2> QED
    BY <2>1
<1>10. ASSUME NEW p \in DOMAIN rows, rows[p].leftKey # None PROVE \E k \in 1..n : col[k] = rows[p]
  BY <1>3, <1>10
<1>11. DOMAIN col = 1..n
  BY <1>3
<1> HIDE DEF g
<1>12. ASSUME NEW i \in S PROVE \E k \in 1..n : col[k].leftKey = i
  <2>1. PICK k \in 1..n : g[k] = i
    BY <1>4
  <2> QED
    BY <1>9, <2>1
<1>13. DOMAIN s.from = {} => Straight(l, col)
  BY <1>7, <1>8, <1>9 DEF Straight
<1> QED
  BY <1>4, <1>7, <1>9, <1>10, <1>11, <1>12, <1>13 DEF col, S

(* What the two columns say, and what buildRows prints from them.          *)
LEMMA ColumnsSay ==
  ASSUME NEW l, NEW r, NEW s, IsScript(l, r, s)
  PROVE  LET rows == Arrays!Rows(l, s)
             colL == Arrays!OnLeft(rows)
             colR == Arrays!OnRight(rows)
         IN  /\ [k \in DOMAIN colR |-> colR[k].rightKey] = [j \in DOMAIN r |-> j]
             /\ Len(colL) = Len(l)
             /\ {w.leftKey : w \in Arrays!ToSet(colL)} = DOMAIN l
             /\ {<<w.leftKey, w.rightKey>> : w \in Arrays!ToSet(colL) \cap Arrays!ToSet(colR)}
                  = PairsOf(l, r, s)
<1> DEFINE rows == Arrays!Rows(l, s)
           colL == Arrays!OnLeft(rows)
           colR == Arrays!OnRight(rows)
           n == Len(l)
           m == Len(r)
<1>1. /\ n \in Nat /\ m \in Nat /\ DOMAIN l = 1..n /\ DOMAIN r = 1..m
      /\ \A i \in Nat : i # None
  BY ScriptSets, ContainerAssumption
<1>2. Aligned(l, r, s, rows)
  BY ScriptAligned
<1> HIDE DEF rows
<1>3. /\ DOMAIN colL = 1..n
      /\ \A k \in 1..n : colL[k].leftKey \in 1..n /\ \E p \in DOMAIN rows : colL[k] = rows[p]
      /\ \A i \in 1..n : \E k \in 1..n : colL[k].leftKey = i
      /\ \A p \in DOMAIN rows : rows[p].leftKey # None => \E k \in 1..n : colL[k] = rows[p]
      /\ DOMAIN s.from = {} => Straight(l, colL)
  BY <1>2, LeftColumn
<1>4. /\ DOMAIN colR = 1..m
      /\ \A j \in 1..m : colR[j].rightKey = j /\ \E p \in DOMAIN rows : colR[j] = rows[p]
      /\ \A p \in DOMAIN rows : rows[p].rightKey # None => \E j \in 1..m : colR[j] = rows[p]
  BY <1>2, RightColumn
<1>5. /\ \A p \in DOMAIN rows : rows[p].leftKey # None /\ rows[p].rightKey # None
           => <<rows[p].leftKey, rows[p].rightKey>> \in PairsOf(l, r, s)
      /\ \A x \in PairsOf(l, r, s) :
           \E p \in DOMAIN rows : /\ x = <<rows[p].leftKey, rows[p].rightKey>>
                                 /\ rows[p].leftKey # None /\ rows[p].rightKey # None
  BY <1>2 DEF Aligned
<1>6. colL = [k \in 1..n |-> colL[k]]
  BY <1>3 DEF Arrays!OnLeft, Arrays!OnSide
<1>7. Arrays!ToSet(colL) = {colL[k] : k \in 1..n} /\ Arrays!ToSet(colR) = {colR[k] : k \in 1..m}
  BY <1>3, <1>4, LibraryOfArrays DEF ToSet
<1> HIDE DEF colL, colR, n, m
<1>8. [k \in DOMAIN colR |-> colR[k].rightKey] = [j \in DOMAIN r |-> j]
  BY <1>1, <1>4
<1>9. Len(colL) = n
  BY <1>1, <1>6
<1>10. {w.leftKey : w \in Arrays!ToSet(colL)} = DOMAIN l
  <2>1. \A w \in Arrays!ToSet(colL) : w.leftKey \in 1..n
    BY <1>3, <1>7
  <2>2. \A i \in 1..n : \E w \in Arrays!ToSet(colL) : w.leftKey = i
    BY <1>3, <1>7
  <2> QED
    BY <1>1, <2>1, <2>2
<1> DEFINE T == {<<w.leftKey, w.rightKey>> : w \in Arrays!ToSet(colL) \cap Arrays!ToSet(colR)}
<1>11. ASSUME NEW x \in T PROVE x \in PairsOf(l, r, s)
  <2>1. PICK w \in Arrays!ToSet(colL) \cap Arrays!ToSet(colR) : x = <<w.leftKey, w.rightKey>>
    OBVIOUS
  <2>2. PICK k \in 1..n : w = colL[k]
    BY <1>7
  <2>3. PICK j \in 1..m : w = colR[j]
    BY <1>7
  <2>4. PICK p \in DOMAIN rows : w = rows[p]
    BY <1>3, <2>2
  <2>5. w.leftKey \in 1..n /\ w.rightKey = j
    BY <1>3, <1>4, <2>2, <2>3
  <2>6. w.leftKey # None /\ w.rightKey # None
    BY <1>1, <2>5
  <2> QED
    BY <1>5, <2>1, <2>4, <2>6
<1>12. ASSUME NEW x \in PairsOf(l, r, s) PROVE x \in T
  <2>1. PICK p \in DOMAIN rows : /\ x = <<rows[p].leftKey, rows[p].rightKey>>
                                /\ rows[p].leftKey # None /\ rows[p].rightKey # None
    BY <1>5
  <2>2. rows[p] \in Arrays!ToSet(colL) /\ rows[p] \in Arrays!ToSet(colR)
    <3>1. PICK k \in 1..n : colL[k] = rows[p]
      BY <1>3, <2>1
    <3>2. PICK j \in 1..m : colR[j] = rows[p]
      BY <1>4, <2>1
    <3> QED
      BY <1>7, <3>1, <3>2
  <2> QED
    BY <2>1, <2>2
<1>13. T = PairsOf(l, r, s)
  <2> HIDE DEF T
  <2> QED
    BY <1>11, <1>12
<1> QED
  BY <1>8, <1>9, <1>10, <1>13 DEF n, colL, colR, rows

LEMMA PrintedArrays ==
  ASSUME NEW l, NEW r, NEW s, IsScript(l, r, s)
  PROVE  /\ Arrays!PrintedRight(r, Arrays!Rows(l, s)) = r
         /\ Arrays!PrintedLeft(l, s) \in Seq(Element) /\ Len(Arrays!PrintedLeft(l, s)) = Len(l)
         /\ DOMAIN s.from = {} => Arrays!PrintedLeft(l, s) = l
<1> DEFINE rows == Arrays!Rows(l, s)
           colL == Arrays!OnLeft(rows)
           colR == Arrays!OnRight(rows)
           n == Len(l)
           m == Len(r)
           pl == Arrays!PrintedLeft(l, s)
           pr == Arrays!PrintedRight(r, rows)
<1>1. /\ n \in Nat /\ m \in Nat /\ l \in Seq(Element) /\ r \in Seq(Element)
      /\ \A i \in 1..n : l[i] \in Element
      /\ l = [k \in 1..n |-> l[k]] /\ r = [k \in 1..m |-> r[k]]
  <2>1. l \in Seq(Element) /\ r \in Seq(Element)
    BY DEF IsScript
  <2> QED
    BY <2>1
<1>2. Aligned(l, r, s, rows)
  BY ScriptAligned
<1>3. pl = [k \in DOMAIN colL |-> l[colL[k].leftKey]] /\ pr = [k \in DOMAIN colR |-> r[colR[k].rightKey]]
  BY DEF Arrays!PrintedLeft, Arrays!PrintedRight
<1> HIDE DEF rows, pl, pr
<1>4. DOMAIN colL = 1..n /\ (\A k \in 1..n : colL[k].leftKey \in 1..n)
      /\ (DOMAIN s.from = {} => \A k \in 1..n : colL[k].leftKey = k)
  <2>1. /\ DOMAIN colL = 1..n
        /\ \A k \in 1..n : colL[k].leftKey \in 1..n /\ \E p \in DOMAIN rows : colL[k] = rows[p]
        /\ \A i \in 1..n : \E k \in 1..n : colL[k].leftKey = i
        /\ \A p \in DOMAIN rows : rows[p].leftKey # None => \E k \in 1..n : colL[k] = rows[p]
        /\ DOMAIN s.from = {} => Straight(l, colL)
    BY <1>2, LeftColumn
  <2> HIDE DEF colL
  <2> QED
    BY <2>1 DEF Straight
<1>5. DOMAIN colR = 1..m /\ \A j \in 1..m : colR[j].rightKey = j
  BY <1>2, RightColumn
<1> HIDE DEF colL, colR, n, m
<1>6. pr = r
  BY <1>1, <1>3, <1>5
<1>7. pl \in [1..n -> Element]
  BY <1>1, <1>3, <1>4
<1>8. pl \in Seq(Element) /\ Len(pl) = n
  BY <1>1, <1>7
<1>9. DOMAIN s.from = {} => pl = l
  BY <1>1, <1>3, <1>4
<1> QED
  BY <1>6, <1>8, <1>9 DEF pl, pr, rows, n

-----------------------------------------------------------------------------
(* buildRows: the changes of an array.                                     *)

Change3(kind, i, j) == [kind |-> kind, leftKey |-> i, rightKey |-> j]

(* What a script lists: everything it adds, removes or moves, and the      *)
(* elements it keeps in different values.                                  *)
ListsChanges(l, r, s, w, cs) ==
  /\ \A i \in s.removed : Change3("removed", i, None) \in cs
  /\ \A j \in s.added : Change3("added", None, j) \in cs
  /\ \A j \in DOMAIN s.from : Change3("moved", s.from[j], j) \in cs
  /\ \A j \in 1..Len(r) : j \notin Placed(s) => l[w[j]] = r[j] \/ Change3("modified", w[j], j) \in cs
  /\ \A c \in cs :
       \/ \E i \in s.removed : c = Change3("removed", i, None)
       \/ \E j \in s.added : c = Change3("added", None, j)
       \/ \E j \in DOMAIN s.from : c = Change3("moved", s.from[j], j)
       \/ \E j \in 1..Len(r) : j \notin Placed(s) /\ c = Change3("modified", w[j], j)

LEMMA ChangesListed ==
  ASSUME NEW l, NEW r, NEW s, IsScript(l, r, s)
  PROVE  ListsChanges(l, r, s, Arrays!Working(l, s), Arrays!ChangesOf(l, r, s))
<1> DEFINE w == Arrays!Working(l, s)
           rows == Arrays!Rows(l, s)
           cs == Arrays!ChangesOf(l, r, s)
           change(x) == Change3(Arrays!ChangeKind(x, s), x.leftKey, x.rightKey)
           n == Len(r)
           D == DOMAIN s.from
<1>1. /\ n \in Nat /\ s.added \subseteq 1..n /\ D \subseteq 1..n /\ s.added \cap D = {}
      /\ Placed(s) = s.added \cup D
      /\ s.removed \subseteq 1..Len(l)
      /\ \A i \in Nat : i # None
  <2>1. n \in Nat /\ Placed(s) \subseteq 1..n /\ s.removed \subseteq 1..Len(l)
    BY ScriptSets
  <2> QED
    BY <2>1, ContainerAssumption DEF Placed, IsScript
<1>2. Aligned(l, r, s, rows)
  BY ScriptAligned
<1>3. /\ \A j \in 1..n : w[j] # None => <<w[j], j>> \in PairsOf(l, r, s)
      /\ \A x \in PairsOf(l, r, s) : \E j \in 1..n : w[j] # None /\ x = <<w[j], j>>
      /\ \A j \in 1..n : w[j] # None => w[j] \in (1..Len(l)) \ s.removed
      /\ \A j \in 1..n : w[j] = None <=> j \in s.added
  BY SlotsPair
<1>4. \A j \in D : w[j] = s.from[j]
  <2>1. \A j \in 1..n : w[j] = Target(l, r, s, j)
    BY WorkingIs
  <2> HIDE DEF w
  <2> QED
    BY <1>1, <2>1 DEF Target, Arrays!Slot
<1>5. rows \in Seq(ArrayRow) /\ Arrays!ToSet(rows) = {rows[p] : p \in DOMAIN rows}
  <2>1. rows \in Seq(ArrayRow)
    BY <1>2 DEF Aligned
  <2> QED
    BY <2>1, LibraryOfArrays DEF ToSet
<1> HIDE DEF rows
<1>6. cs = {change(x) : x \in {x \in Arrays!ToSet(rows) : Arrays!Listed(l, r, s, x)}}
  BY DEF Arrays!ChangesOf, Change3, rows
<1> HIDE DEF w, cs, n, change
<1>7. ASSUME NEW p \in DOMAIN rows, Arrays!Listed(l, r, s, rows[p]) PROVE change(rows[p]) \in cs
  BY <1>5, <1>6, <1>7
<1>8. ASSUME NEW c \in cs PROVE \E p \in DOMAIN rows : Arrays!Listed(l, r, s, rows[p]) /\ c = change(rows[p])
  BY <1>5, <1>6
<1>9. /\ \A p \in DOMAIN rows :
           /\ rows[p].leftKey # None => rows[p].leftKey \in 1..Len(l)
           /\ rows[p].rightKey # None => rows[p].rightKey \in 1..n
           /\ rows[p].leftKey = None => rows[p].rightKey \in s.added
           /\ rows[p].rightKey = None => rows[p].leftKey \in s.removed
           /\ rows[p].leftKey # None /\ rows[p].rightKey # None
                => <<rows[p].leftKey, rows[p].rightKey>> \in PairsOf(l, r, s)
      /\ \A i \in 1..Len(l) : \E p \in DOMAIN rows : rows[p].leftKey = i
      /\ \A j \in 1..n : \E p \in DOMAIN rows : rows[p].rightKey = j
  BY <1>2 DEF Aligned, n
<1>10. ASSUME NEW p \in DOMAIN rows, rows[p].leftKey # None, rows[p].rightKey # None
       PROVE  /\ rows[p].rightKey \in 1..n /\ rows[p].rightKey \notin s.added
              /\ w[rows[p].rightKey] = rows[p].leftKey /\ rows[p].leftKey \notin s.removed
  <2>1. PICK j \in 1..n : w[j] # None /\ <<rows[p].leftKey, rows[p].rightKey>> = <<w[j], j>>
    BY <1>3, <1>9, <1>10
  <2>2. rows[p].leftKey = w[j] /\ rows[p].rightKey = j
    BY <2>1
  <2> QED
    BY <1>3, <2>1, <2>2
<1>11. ASSUME NEW i \in s.removed PROVE Change3("removed", i, None) \in cs
  <2>1. PICK p \in DOMAIN rows : rows[p].leftKey = i
    BY <1>1, <1>9
  <2>2. i # None
    BY <1>1
  <2>3. rows[p].rightKey = None
    BY <1>10, <2>1, <2>2
  <2>4. Arrays!Listed(l, r, s, rows[p]) /\ change(rows[p]) = Change3("removed", i, None)
    BY <2>1, <2>3 DEF Arrays!Listed, Arrays!ChangeKind, change
  <2> QED
    BY <1>7, <2>4
<1>12. ASSUME NEW j \in s.added PROVE Change3("added", None, j) \in cs
  <2>1. PICK p \in DOMAIN rows : rows[p].rightKey = j
    BY <1>1, <1>9
  <2>2. j # None
    BY <1>1
  <2>3. rows[p].leftKey = None
    BY <1>10, <2>1, <2>2
  <2>4. Arrays!Listed(l, r, s, rows[p]) /\ change(rows[p]) = Change3("added", None, j)
    BY <2>1, <2>2, <2>3 DEF Arrays!Listed, Arrays!ChangeKind, change
  <2> QED
    BY <1>7, <2>4
<1>13. ASSUME NEW j \in 1..n, j \notin s.added
       PROVE  \E p \in DOMAIN rows : rows[p].rightKey = j /\ rows[p].leftKey = w[j] /\ w[j] # None /\ j # None
  <2>1. PICK p \in DOMAIN rows : rows[p].rightKey = j
    BY <1>9
  <2>2. j # None /\ w[j] # None
    BY <1>1, <1>3, <1>13
  <2>3. rows[p].leftKey # None
    BY <1>9, <1>13, <2>1
  <2> QED
    BY <1>10, <2>1, <2>2, <2>3
<1>14. ASSUME NEW j \in D PROVE Change3("moved", s.from[j], j) \in cs
  <2>1. j \in 1..n /\ j \notin s.added
    BY <1>1
  <2>2. PICK p \in DOMAIN rows : rows[p].rightKey = j /\ rows[p].leftKey = w[j] /\ w[j] # None /\ j # None
    BY <1>13, <2>1
  <2>3. Arrays!Listed(l, r, s, rows[p]) /\ change(rows[p]) = Change3("moved", s.from[j], j)
    BY <1>4, <2>2 DEF Arrays!Listed, Arrays!ChangeKind, change
  <2> QED
    BY <1>7, <2>3
<1>15. ASSUME NEW j \in 1..n, j \notin Placed(s), l[w[j]] # r[j]
       PROVE  Change3("modified", w[j], j) \in cs
  <2>1. j \notin s.added /\ j \notin D
    BY <1>1, <1>15
  <2>2. PICK p \in DOMAIN rows : rows[p].rightKey = j /\ rows[p].leftKey = w[j] /\ w[j] # None /\ j # None
    BY <1>13, <2>1
  <2>3. Arrays!Listed(l, r, s, rows[p]) /\ change(rows[p]) = Change3("modified", w[j], j)
    BY <1>15, <2>1, <2>2 DEF Arrays!Listed, Arrays!ChangeKind, change
  <2> QED
    BY <1>7, <2>3
<1>16. ASSUME NEW c \in cs
       PROVE  \/ \E i \in s.removed : c = Change3("removed", i, None)
              \/ \E j \in s.added : c = Change3("added", None, j)
              \/ \E j \in DOMAIN s.from : c = Change3("moved", s.from[j], j)
              \/ \E j \in 1..n : j \notin Placed(s) /\ c = Change3("modified", w[j], j)
  <2>1. PICK p \in DOMAIN rows : c = change(rows[p])
    BY <1>8
  <2>2. CASE rows[p].rightKey = None
    BY <1>9, <2>1, <2>2 DEF Arrays!ChangeKind, change
  <2>3. CASE rows[p].rightKey # None /\ rows[p].leftKey = None
    BY <1>9, <2>1, <2>3 DEF Arrays!ChangeKind, change
  <2>4. CASE rows[p].rightKey # None /\ rows[p].leftKey # None
    <3> DEFINE j == rows[p].rightKey
    <3>1. j \in 1..n /\ j \notin s.added /\ w[j] = rows[p].leftKey
      BY <1>10, <2>4
    <3>2. CASE j \in D
      <4>1. c = Change3("moved", s.from[j], j)
        BY <1>4, <2>1, <2>4, <3>1, <3>2 DEF Arrays!ChangeKind, change
      <4> QED
        BY <3>2, <4>1
    <3>3. CASE j \notin D
      <4>1. c = Change3("modified", w[j], j)
        BY <2>1, <2>4, <3>1, <3>3 DEF Arrays!ChangeKind, change
      <4> QED
        BY <1>1, <3>1, <3>3, <4>1
    <3> QED
      BY <3>2, <3>3
  <2> QED
    BY <2>2, <2>3, <2>4
<1> HIDE DEF D
<1> QED
  BY <1>11, <1>12, <1>14, <1>15, <1>16 DEF ListsChanges, n, cs, w, D

-----------------------------------------------------------------------------
(* applyChange.ts on an array.                                             *)

(* b is a without its element x.                                           *)
Gap(a, b, x) ==
  /\ a \in Seq(Element) /\ b \in Seq(Element)
  /\ Len(a) = Len(b) + 1 /\ x \in 1..Len(a)
  /\ \A q \in 1..Len(b) : b[q] = IF q < x THEN a[q] ELSE a[q + 1]

LEMMA EqualArrays ==
  ASSUME NEW a \in Seq(Element), NEW b \in Seq(Element), Len(a) = Len(b),
         \A q \in 1..Len(a) : a[q] = b[q]
  PROVE  a = b
  OBVIOUS

LEMMA GapCopies ==
  ASSUME NEW a, NEW b, NEW x, Gap(a, b, x)
  PROVE  Arrays!Without(a, x) = b /\ Arrays!Splice(b, x, a[x]) = a
<1>1. /\ a \in Seq(Element) /\ b \in Seq(Element) /\ Len(a) \in Nat /\ Len(b) \in Nat
      /\ Len(a) = Len(b) + 1 /\ x \in 1..Len(a) /\ x \in DOMAIN a /\ a[x] \in Element
      /\ x \in 1..(Len(b) + 1)
  <2>1. a \in Seq(Element) /\ b \in Seq(Element) /\ Len(a) = Len(b) + 1 /\ x \in 1..Len(a)
    BY DEF Gap
  <2> QED
    BY <2>1
<1>2. Arrays!Without(a, x) = RemoveAt(a, x)
  BY <1>1, LibraryOfArrays DEF Arrays!Without, Arrays!Holds
<1> DEFINE y == RemoveAt(a, x)
           z == Arrays!Splice(b, x, a[x])
<1>3. /\ y \in Seq(Element) /\ Len(y) = Len(a) - 1
      /\ \A i \in 1..(Len(a) - 1) : y[i] = IF i < x THEN a[i] ELSE a[i + 1]
  BY <1>1, AfterRemoveAt
<1>4. /\ z \in Seq(Element) /\ Len(z) = Len(b) + 1
      /\ \A i \in 1..(Len(b) + 1) : z[i] = IF i < x THEN b[i] ELSE IF i = x THEN a[x] ELSE b[i - 1]
  <2> DEFINE v == a[x]
  <2>1. v \in Element
    BY <1>1
  <2> HIDE DEF v
  <2>0. b \in Seq(Element) /\ x \in 1..(Len(b) + 1)
    BY <1>1
  <2>2. /\ Arrays!Splice(b, x, v) \in Seq(Element) /\ Len(Arrays!Splice(b, x, v)) = Len(b) + 1
        /\ \A i \in 1..(Len(b) + 1) :
             Arrays!Splice(b, x, v)[i] = IF i < x THEN b[i] ELSE IF i = x THEN v ELSE b[i - 1]
    BY <2>0, <2>1, SpliceIs
  <2> QED
    BY <2>2 DEF v
<1> HIDE DEF y, z
<1>5. y = b
  <2>1. Len(y) = Len(b)
    BY <1>1, <1>3
  <2>2. \A i \in 1..Len(y) : i \in 1..Len(b) /\ i \in 1..(Len(a) - 1)
    BY <1>1, <1>3
  <2>3. \A i \in 1..Len(y) : y[i] = b[i]
    BY <1>3, <2>2 DEF Gap
  <2> QED
    BY <1>1, <1>3, <2>1, <2>3, EqualArrays
<1>6. z = a
  <2>1. Len(z) = Len(a)
    BY <1>1, <1>4
  <2>2. ASSUME NEW i \in 1..Len(z) PROVE z[i] = a[i]
    <3>1. i \in 1..(Len(b) + 1) /\ i \in Nat
      BY <1>1, <1>4
    <3>2. CASE i < x
      <4>1. i \in 1..Len(b)
        BY <1>1, <3>1, <3>2
      <4> QED
        BY <1>4, <3>1, <3>2, <4>1 DEF Gap
    <3>3. CASE i = x
      BY <1>4, <3>1, <3>3
    <3>4. CASE i > x
      <4>1. i - 1 \in 1..Len(b) /\ ~(i - 1 < x) /\ (i - 1) + 1 = i /\ ~(i < x) /\ i # x
        BY <1>1, <3>1, <3>4
      <4>2. b[i - 1] = a[i]
        BY <4>1 DEF Gap
      <4> QED
        BY <1>4, <3>1, <4>1, <4>2
    <3> QED
      BY <1>1, <3>1, <3>2, <3>3, <3>4
  <2> QED
    BY <1>1, <1>4, <2>1, <2>2, EqualArrays
<1> QED
  BY <1>2, <1>5, <1>6 DEF y, z

(* Two arrays that differ in one element at most.                          *)
LEMMA ElementCopied ==
  ASSUME NEW a \in Seq(Element), NEW b \in Seq(Element), Len(a) = Len(b), NEW x \in 1..Len(a),
         \A q \in 1..Len(a) : q # x => a[q] = b[q]
  PROVE  [a EXCEPT ![x] = b[x]] = b /\ [b EXCEPT ![x] = a[x]] = a
<1>1. a = [q \in 1..Len(a) |-> a[q]] /\ b = [q \in 1..Len(a) |-> b[q]]
  OBVIOUS
<1>2. DOMAIN a = 1..Len(a) /\ DOMAIN b = 1..Len(a)
  OBVIOUS
<1>3. [a EXCEPT ![x] = b[x]] = [q \in 1..Len(a) |-> IF q = x THEN b[x] ELSE a[q]]
  BY <1>2
<1>4. [b EXCEPT ![x] = a[x]] = [q \in 1..Len(a) |-> IF q = x THEN a[x] ELSE b[q]]
  BY <1>2
<1>5. \A q \in 1..Len(a) : (IF q = x THEN b[x] ELSE a[q]) = b[q] /\ (IF q = x THEN a[x] ELSE b[q]) = a[q]
  OBVIOUS
<1> QED
  BY <1>1, <1>3, <1>4, <1>5

Skip(x, k) == IF k < x THEN k ELSE k + 1

LEMMA SkipsOne ==
  ASSUME NEW N \in Nat, NEW x \in 1..N
  PROVE  /\ \A k \in 1..(N - 1) : Skip(x, k) \in (1..N) \ {x}
         /\ \A j, k \in 1..(N - 1) : j < k => Skip(x, j) < Skip(x, k)
         /\ \A i \in (1..N) \ {x} : \E k \in 1..(N - 1) : Skip(x, k) = i
<1>1. ASSUME NEW i \in (1..N) \ {x} PROVE \E k \in 1..(N - 1) : Skip(x, k) = i
  <2>1. CASE i < x
    <3>1. i \in 1..(N - 1)
      BY <2>1
    <3> QED
      BY <2>1, <3>1 DEF Skip
  <2>2. CASE ~(i < x)
    <3>1. i - 1 \in 1..(N - 1) /\ ~(i - 1 < x) /\ (i - 1) + 1 = i
      BY <2>2
    <3> QED
      BY <3>1 DEF Skip
  <2> QED
    BY <2>1, <2>2
<1>2. \A k \in 1..(N - 1) : Skip(x, k) \in (1..N) \ {x}
  BY DEF Skip
<1>3. \A j, k \in 1..(N - 1) : j < k => Skip(x, j) < Skip(x, k)
  BY DEF Skip
<1> QED
  BY <1>1, <1>2, <1>3

(* f rises through all of S in n steps.                                    *)
Ascends(f, n, S) ==
  /\ f \in [1..n -> S]
  /\ \A j, k \in 1..n : j < k => f[j] < f[k]
  /\ \A i \in S : \E k \in 1..n : f[k] = i

LEMMA SameEnumeration ==
  ASSUME NEW S \in SUBSET Nat, NEW n \in Nat, NEW m \in Nat, NEW f, NEW g,
         Ascends(f, n, S), Ascends(g, m, S)
  PROVE  n = m /\ f = g
<1>1. Cardinality(S) = n /\ f = Arrays!InOrder(S)
  BY OneEnumeration DEF Ascends
<1>2. Cardinality(S) = m /\ g = Arrays!InOrder(S)
  BY OneEnumeration DEF Ascends
<1> QED
  BY <1>1, <1>2

(* The only change of an array whose script moves nothing.                 *)
OnlyDifference(l, r, c) ==
  \/ \E i \in 1..Len(l) : c = Change3("removed", i, None) /\ Gap(l, r, i)
  \/ \E j \in 1..Len(r) : c = Change3("added", None, j) /\ Gap(r, l, j)
  \/ \E x \in 1..Len(l) : /\ c = Change3("modified", x, x) /\ Len(l) = Len(r)
                          /\ \A q \in 1..Len(l) : q # x => l[q] = r[q]

LEMMA OneChange ==
  ASSUME NEW l, NEW r, NEW s, IsScript(l, r, s), NEW c, Arrays!ChangesOf(l, r, s) = {c}, c.kind # "moved"
  PROVE  DOMAIN s.from = {} /\ OnlyDifference(l, r, c)
<1> DEFINE w == Arrays!Working(l, s)
           n == Len(r)
           N == Len(l)
<1>1. /\ n \in Nat /\ N \in Nat /\ s.added \subseteq 1..n /\ s.removed \subseteq 1..N
      /\ l \in Seq(Element) /\ r \in Seq(Element)
  <2>1. n \in Nat /\ N \in Nat /\ Placed(s) \subseteq 1..n /\ s.removed \subseteq 1..N
    BY ScriptSets
  <2> QED
    BY <2>1 DEF Placed, IsScript
<1>2. ListsChanges(l, r, s, w, {c})
  BY ChangesListed
<1>3. /\ \A j \in 1..n : w[j] # None => w[j] \in (1..N) \ s.removed
      /\ \A i \in (1..N) \ s.removed : \E j \in 1..n : w[j] = i
      /\ \A j \in 1..n : w[j] = None <=> j \in s.added
      /\ DOMAIN s.from = {} => \A i, j \in 1..n : i < j /\ w[i] # None /\ w[j] # None => w[i] < w[j]
  BY SlotsPair
<1>4. w \in Seq(Nat \cup {None}) /\ Len(w) = n
  BY WorkingIs
<1> HIDE DEF w, n, N
<1>5. DOMAIN s.from = {}
  <2> SUFFICES ASSUME NEW j \in DOMAIN s.from PROVE FALSE
    OBVIOUS
  <2>1. c = Change3("moved", s.from[j], j)
    BY <1>2 DEF ListsChanges
  <2> QED
    BY <2>1 DEF Change3
<1>6. /\ \A i \in s.removed : c = Change3("removed", i, None)
      /\ \A j \in s.added : c = Change3("added", None, j)
      /\ \A j \in 1..n : j \notin s.added => l[w[j]] = r[j] \/ c = Change3("modified", w[j], j)
      /\ \/ \E i \in s.removed : c = Change3("removed", i, None)
         \/ \E j \in s.added : c = Change3("added", None, j)
         \/ \E j \in 1..n : j \notin s.added /\ c = Change3("modified", w[j], j)
  BY <1>2, <1>5 DEF ListsChanges, Placed, n
<1>7. DOMAIN w = 1..n /\ w = [k \in 1..n |-> w[k]]
  BY <1>1, <1>4
<1>8. CASE \E i \in s.removed : c = Change3("removed", i, None)
  <2>1. PICK x \in s.removed : c = Change3("removed", x, None)
    BY <1>8
  <2>2. c.kind = "removed" /\ c.leftKey = x
    BY <2>1 DEF Change3
  <2>3. s.removed = {x} /\ s.added = {} /\ \A j \in 1..n : l[w[j]] = r[j]
    <3>1. \A i \in s.removed : i = x
      BY <1>6, <2>2 DEF Change3
    <3>2. s.added = {}
      BY <1>6, <2>2 DEF Change3
    <3>3. \A j \in 1..n : c # Change3("modified", w[j], j)
      BY <2>2 DEF Change3
    <3> QED
      BY <1>6, <3>1, <3>2, <3>3
  <2> DEFINE S == (1..N) \ {x}
             g == [k \in 1..(N - 1) |-> Skip(x, k)]
  <2>4. x \in 1..N /\ N - 1 \in Nat /\ S \in SUBSET Nat
    BY <1>1
  <2>5. Ascends(g, N - 1, S)
    <3>1. /\ \A k \in 1..(N - 1) : Skip(x, k) \in S
          /\ \A j, k \in 1..(N - 1) : j < k => Skip(x, j) < Skip(x, k)
          /\ \A i \in S : \E k \in 1..(N - 1) : Skip(x, k) = i
      BY <1>1, <2>4, SkipsOne
    <3> HIDE DEF S
    <3> QED
      BY <3>1 DEF Ascends
  <2>6. Ascends(w, n, S)
    BY <1>3, <1>5, <1>7, <2>3 DEF Ascends
  <2> HIDE DEF S, g
  <2>7. n = N - 1 /\ w = g
    BY <1>1, <2>4, <2>5, <2>6, SameEnumeration
  <2>8. \A q \in 1..n : w[q] = Skip(x, q)
    BY <2>7 DEF g
  <2>9. \A q \in 1..n : r[q] = IF q < x THEN l[q] ELSE l[q + 1]
    BY <2>3, <2>8 DEF Skip
  <2>10. N = n + 1
    BY <1>1, <2>7
  <2>11. Gap(l, r, x)
    BY <1>1, <2>4, <2>9, <2>10 DEF Gap, n, N
  <2> QED
    BY <1>5, <2>1, <2>4, <2>11 DEF OnlyDifference, N
<1>9. CASE \E j \in s.added : c = Change3("added", None, j)
  <2>1. PICK x \in s.added : c = Change3("added", None, x)
    BY <1>9
  <2>2. c.kind = "added" /\ c.rightKey = x
    BY <2>1 DEF Change3
  <2>3. s.added = {x} /\ s.removed = {} /\ \A j \in 1..n : j # x => l[w[j]] = r[j]
    <3>1. \A j \in s.added : j = x
      BY <1>6, <2>2 DEF Change3
    <3>2. s.removed = {}
      BY <1>6, <2>2 DEF Change3
    <3>3. \A j \in 1..n : c # Change3("modified", w[j], j)
      BY <2>2 DEF Change3
    <3> QED
      BY <1>6, <3>1, <3>2, <3>3
  <2> DEFINE S == 1..N
             h == [k \in 1..(n - 1) |-> w[Skip(x, k)]]
             id == [k \in S |-> k]
  <2>4. x \in 1..n /\ n - 1 \in Nat /\ S \in SUBSET Nat
    BY <1>1
  <2>5. /\ \A k \in 1..(n - 1) : Skip(x, k) \in (1..n) \ {x}
        /\ \A j, k \in 1..(n - 1) : j < k => Skip(x, j) < Skip(x, k)
        /\ \A i \in (1..n) \ {x} : \E k \in 1..(n - 1) : Skip(x, k) = i
    BY <1>1, <2>4, SkipsOne
  <2>6. \A j \in (1..n) \ {x} : w[j] # None /\ w[j] \in S
    BY <1>3, <2>3
  <2>7. \A i \in S : \E j \in (1..n) \ {x} : w[j] = i
    <3>1. \A i \in S : i # None
      BY <1>1, ContainerAssumption
    <3>2. w[x] = None
      BY <1>3, <2>3, <2>4
    <3> QED
      BY <1>3, <2>3, <3>1, <3>2
  <2> HIDE DEF S
  <2>8. Ascends(h, n - 1, S)
    <3>1. h \in [1..(n - 1) -> S]
      BY <2>5, <2>6
    <3>2. ASSUME NEW j \in 1..(n - 1), NEW k \in 1..(n - 1), j < k PROVE h[j] < h[k]
      <4>1. Skip(x, j) < Skip(x, k) /\ Skip(x, j) \in (1..n) \ {x} /\ Skip(x, k) \in (1..n) \ {x}
        BY <2>5, <3>2
      <4> QED
        BY <1>3, <1>5, <2>6, <4>1
    <3>3. ASSUME NEW i \in S PROVE \E k \in 1..(n - 1) : h[k] = i
      <4>1. PICK j \in (1..n) \ {x} : w[j] = i
        BY <2>7
      <4>2. PICK k \in 1..(n - 1) : Skip(x, k) = j
        BY <2>5
      <4> QED
        BY <4>1, <4>2
    <3> QED
      BY <3>1, <3>2, <3>3 DEF Ascends
  <2>9. Ascends(id, N, S)
    BY DEF S, Ascends
  <2> HIDE DEF h, id
  <2>10. n - 1 = N /\ h = id
    BY <1>1, <2>4, <2>8, <2>9, SameEnumeration
  <2>11. \A q \in 1..N : w[Skip(x, q)] = q /\ Skip(x, q) \in (1..n) \ {x}
    <3>1. \A q \in 1..N : h[q] = w[Skip(x, q)]
      BY <2>10 DEF h
    <3>2. \A q \in 1..N : id[q] = q
      BY DEF id, S
    <3> QED
      BY <2>5, <2>10, <3>1, <3>2
  <2>12. \A q \in 1..N : l[q] = IF q < x THEN r[q] ELSE r[q + 1]
    <3>1. \A q \in 1..N : l[q] = r[Skip(x, q)]
      BY <2>3, <2>11
    <3> QED
      BY <3>1 DEF Skip
  <2>13. n = N + 1
    BY <1>1, <2>10
  <2>14. Gap(r, l, x)
    BY <1>1, <2>4, <2>12, <2>13 DEF Gap, n, N
  <2> QED
    BY <1>5, <2>1, <2>4, <2>14 DEF OnlyDifference, n
<1>10. CASE \E j \in 1..n : j \notin s.added /\ c = Change3("modified", w[j], j)
  <2>1. PICK x \in 1..n : c = Change3("modified", w[x], x)
    BY <1>10
  <2>2. c.kind = "modified" /\ c.rightKey = x
    BY <2>1 DEF Change3
  <2>3. s.added = {} /\ s.removed = {} /\ \A j \in 1..n : j # x => l[w[j]] = r[j]
    <3>1. s.removed = {} /\ s.added = {}
      BY <1>6, <2>2 DEF Change3
    <3>2. \A j \in 1..n : j # x => c # Change3("modified", w[j], j)
      BY <2>2 DEF Change3
    <3> QED
      BY <1>6, <3>1, <3>2
  <2> DEFINE S == 1..N
             id == [k \in S |-> k]
  <2>4. S \in SUBSET Nat
    BY <1>1
  <2>5. Ascends(w, n, S)
    BY <1>3, <1>5, <1>7, <2>3 DEF Ascends
  <2> HIDE DEF S
  <2>6. Ascends(id, N, S)
    BY DEF S, Ascends
  <2> HIDE DEF id
  <2>7. n = N /\ w = id
    BY <1>1, <2>4, <2>5, <2>6, SameEnumeration
  <2>8. \A q \in 1..N : w[q] = q
    BY <2>7 DEF id, S
  <2>9. /\ x \in 1..N /\ c = Change3("modified", x, x)
        /\ \A q \in 1..N : q # x => l[q] = r[q]
    BY <2>1, <2>3, <2>7, <2>8
  <2> QED
    BY <1>5, <2>7, <2>9 DEF OnlyDifference, n, N
<1> QED
  BY <1>6, <1>8, <1>9, <1>10

LEMMA OnlyArrow ==
  ASSUME NEW l \in Seq(Element), NEW r \in Seq(Element), NEW c, OnlyDifference(l, r, c),
         NEW dir \in {"to-left", "to-right"}
  PROVE  Arrays!CopiedLeft(l, r, c, dir) = Arrays!CopiedRight(l, r, c, dir)
<1>1. \A i \in Nat : i # None
  BY ContainerAssumption
<1>2. ASSUME NEW i \in 1..Len(l), c = Change3("removed", i, None), Gap(l, r, i)
      PROVE  Arrays!CopiedLeft(l, r, c, dir) = Arrays!CopiedRight(l, r, c, dir)
  <2>1. c.kind = "removed" /\ c.leftKey = i /\ c.rightKey = None /\ i # None
    BY <1>1, <1>2 DEF Change3
  <2>2. Arrays!Without(l, i) = r /\ Arrays!Splice(r, i, l[i]) = l
    BY <1>2, GapCopies
  <2>3. Arrays!WriteSide(l, r, c.kind, c.leftKey, c.rightKey) = r
    BY <2>1, <2>2 DEF Arrays!WriteSide
  <2>4. Arrays!WriteSide(r, l, c.kind, c.rightKey, c.leftKey) = l
    BY <2>1, <2>2 DEF Arrays!WriteSide
  <2> QED
    BY <2>3, <2>4 DEF Arrays!CopiedLeft, Arrays!CopiedRight
<1>3. ASSUME NEW j \in 1..Len(r), c = Change3("added", None, j), Gap(r, l, j)
      PROVE  Arrays!CopiedLeft(l, r, c, dir) = Arrays!CopiedRight(l, r, c, dir)
  <2>1. c.kind = "added" /\ c.leftKey = None /\ c.rightKey = j /\ j # None
    BY <1>1, <1>3 DEF Change3
  <2>2. Arrays!Without(r, j) = l /\ Arrays!Splice(l, j, r[j]) = r
    BY <1>3, GapCopies
  <2>3. Arrays!WriteSide(l, r, c.kind, c.leftKey, c.rightKey) = r
    BY <2>1, <2>2 DEF Arrays!WriteSide
  <2>4. Arrays!WriteSide(r, l, c.kind, c.rightKey, c.leftKey) = l
    BY <2>1, <2>2 DEF Arrays!WriteSide
  <2> QED
    BY <2>3, <2>4 DEF Arrays!CopiedLeft, Arrays!CopiedRight
<1>4. ASSUME NEW x \in 1..Len(l), c = Change3("modified", x, x), Len(l) = Len(r),
             \A q \in 1..Len(l) : q # x => l[q] = r[q]
      PROVE  Arrays!CopiedLeft(l, r, c, dir) = Arrays!CopiedRight(l, r, c, dir)
  <2>1. c.kind = "modified" /\ c.leftKey = x /\ c.rightKey = x /\ x # None
    BY <1>1, <1>4 DEF Change3
  <2>2. [l EXCEPT ![x] = r[x]] = r /\ [r EXCEPT ![x] = l[x]] = l
    BY <1>4, ElementCopied
  <2>3. Arrays!WriteSide(l, r, c.kind, c.leftKey, c.rightKey) = r
    BY <2>1, <2>2 DEF Arrays!WriteSide
  <2>4. Arrays!WriteSide(r, l, c.kind, c.rightKey, c.leftKey) = l
    BY <2>1, <2>2 DEF Arrays!WriteSide
  <2> QED
    BY <2>3, <2>4 DEF Arrays!CopiedLeft, Arrays!CopiedRight
<1> QED
  BY <1>2, <1>3, <1>4 DEF OnlyDifference

(* A listed change points into both arrays, and a move at both ends.       *)
PointsInto(n, m, c) ==
  /\ c \in [kind : Arrays!Kind, leftKey : (1..n) \cup {None}, rightKey : (1..m) \cup {None}]
  /\ c.kind = "moved" => c.leftKey # None /\ c.rightKey # None

LEMMA ChangesPoint ==
  ASSUME NEW l, NEW r, NEW s, IsScript(l, r, s), NEW c \in Arrays!ChangesOf(l, r, s)
  PROVE  PointsInto(Len(l), Len(r), c)
<1> DEFINE w == Arrays!Working(l, s)
           cs == Arrays!ChangesOf(l, r, s)
           N == Len(l)
           n == Len(r)
<1>1. /\ s.removed \subseteq 1..N /\ s.added \subseteq 1..n /\ DOMAIN s.from \subseteq 1..n
      /\ \A j \in DOMAIN s.from : s.from[j] \in 1..N
      /\ \A j \in 1..n : j \notin Placed(s) => j \notin s.added
      /\ \A i \in Nat : i # None
      /\ 1..N \subseteq Nat /\ 1..n \subseteq Nat
  <2>1. s.removed \subseteq 1..N /\ Placed(s) \subseteq 1..n /\ DOMAIN l = 1..N /\ N \in Nat /\ n \in Nat
    BY ScriptSets
  <2>2. \A j \in DOMAIN s.from : s.from[j] \in 1..N
    BY <2>1 DEF IsScript
  <2> QED
    BY <2>1, <2>2, ContainerAssumption DEF Placed
<1>2. \A j \in 1..n : j \notin s.added => w[j] \in 1..N
  <2>1. /\ \A j \in 1..n : w[j] # None => w[j] \in (1..N) \ s.removed
        /\ \A j \in 1..n : w[j] = None <=> j \in s.added
    BY SlotsPair
  <2> HIDE DEF w
  <2> QED
    BY <2>1
<1>3. ListsChanges(l, r, s, w, cs)
  BY ChangesListed
<1> HIDE DEF w, N, n
<1>4. \/ \E i \in s.removed : c = Change3("removed", i, None)
      \/ \E j \in s.added : c = Change3("added", None, j)
      \/ \E j \in DOMAIN s.from : c = Change3("moved", s.from[j], j)
      \/ \E j \in 1..n : j \notin Placed(s) /\ c = Change3("modified", w[j], j)
  BY <1>3 DEF ListsChanges, n
<1>5. \E kind \in {"removed", "added", "modified", "moved"}, i \in (1..N) \cup {None}, j \in (1..n) \cup {None} :
         c = Change3(kind, i, j) /\ (kind = "moved" => i # None /\ j # None)
  <2>1. CASE \E i \in s.removed : c = Change3("removed", i, None)
    BY <1>1, <2>1
  <2>2. CASE \E j \in s.added : c = Change3("added", None, j)
    BY <1>1, <2>2
  <2>3. CASE \E j \in DOMAIN s.from : c = Change3("moved", s.from[j], j)
    <3>1. PICK j \in DOMAIN s.from : c = Change3("moved", s.from[j], j)
      BY <2>3
    <3>2. j \in 1..n /\ s.from[j] \in 1..N /\ j # None /\ s.from[j] # None
      BY <1>1
    <3> QED
      BY <3>1, <3>2
  <2>4. CASE \E j \in 1..n : j \notin Placed(s) /\ c = Change3("modified", w[j], j)
    BY <1>1, <1>2, <2>4
  <2> QED
    BY <1>4, <2>1, <2>2, <2>3, <2>4
<1> QED
  BY <1>5 DEF PointsInto, Change3, Arrays!Kind, N, n

LEMMA SplicedArray ==
  ASSUME NEW d \in Seq(Element), NEW j \in Nat \ {0}, NEW v \in Element
  PROVE  Arrays!Splice(d, j, v) \in Seq(Element)
<1> DEFINE p == IF j <= Len(d) THEN j ELSE Len(d) + 1
<1>1. p \in 1..(Len(d) + 1)
  OBVIOUS
<1>2. Arrays!Splice(d, j, v) = InsertAt(d, p, v)
  BY LibraryOfArrays DEF Arrays!Splice
<1> HIDE DEF p
<1> QED
  BY <1>1, <1>2, AfterInsertAt

LEMMA WrittenArray ==
  ASSUME NEW target \in Seq(Element), NEW source \in Seq(Element), NEW kind,
         NEW i \in (1..Len(target)) \cup {None}, NEW j \in (1..Len(source)) \cup {None},
         kind = "moved" => j # None
  PROVE  Arrays!WriteSide(target, source, kind, i, j) \in Seq(Element)
<1>1. j # None => j \in Nat \ {0} /\ source[j] \in Element
  OBVIOUS
<1>2. Arrays!Without(target, i) \in Seq(Element)
  <2>1. CASE i \in 1..Len(target)
    <3>1. Arrays!Without(target, i) = RemoveAt(target, i)
      BY <2>1, LibraryOfArrays DEF Arrays!Without, Arrays!Holds
    <3> QED
      BY <2>1, <3>1, AfterRemoveAt
  <2>2. CASE i = None
    <3>1. i \notin DOMAIN target
      BY <2>2, ContainerAssumption
    <3> QED
      BY <3>1 DEF Arrays!Without, Arrays!Holds
  <2> QED
    BY <2>1, <2>2
<1>3. CASE kind = "moved"
  BY <1>1, <1>2, <1>3, SplicedArray DEF Arrays!WriteSide
<1>4. CASE kind # "moved" /\ j = None
  BY <1>2, <1>4 DEF Arrays!WriteSide
<1>5. CASE kind # "moved" /\ j # None /\ i = None
  BY <1>1, <1>5, SplicedArray DEF Arrays!WriteSide
<1>6. CASE kind # "moved" /\ j # None /\ i # None
  <2>1. [target EXCEPT ![i] = source[j]] \in Seq(Element)
    BY <1>1, <1>6
  <2> QED
    BY <1>6, <2>1 DEF Arrays!WriteSide
<1> QED
  BY <1>3, <1>4, <1>5, <1>6

LEMMA CopiedArrays ==
  ASSUME NEW l \in Seq(Element), NEW r \in Seq(Element), NEW c, PointsInto(Len(l), Len(r), c), NEW dir
  PROVE  Arrays!CopiedLeft(l, r, c, dir) \in Seq(Element) /\ Arrays!CopiedRight(l, r, c, dir) \in Seq(Element)
<1>1. c.leftKey \in (1..Len(l)) \cup {None} /\ c.rightKey \in (1..Len(r)) \cup {None}
      /\ (c.kind = "moved" => c.leftKey # None /\ c.rightKey # None)
  BY DEF PointsInto
<1>2. Arrays!WriteSide(l, r, c.kind, c.leftKey, c.rightKey) \in Seq(Element)
  BY <1>1, WrittenArray
<1>3. Arrays!WriteSide(r, l, c.kind, c.rightKey, c.leftKey) \in Seq(Element)
  BY <1>1, WrittenArray
<1> QED
  BY <1>2, <1>3 DEF Arrays!CopiedLeft, Arrays!CopiedRight

-----------------------------------------------------------------------------
(* The theorems about arrays.                                              *)

(* What is listed comes from a script from some array l, of which the left *)
(* editor holds the print, to the array in the right editor.               *)
ListedFrom(l, s) ==
  /\ IsScript(l, rightArray, s)
  /\ leftArray = Arrays!PrintedLeft(l, s)
  /\ arrayChanges = Arrays!ChangesOf(l, rightArray, s)

ArraysInv ==
  /\ container \in Containers
  /\ leftArray \in Seq(Element) /\ rightArray \in Seq(Element)
  /\ Len(leftArray) <= MaxLen /\ Len(rightArray) <= MaxLen
  /\ arrayChanges = None \/ \E l, s : ListedFrom(l, s)

LEMMA ShowArrays ==
  ASSUME NEW l, NEW r, l \in Seq(Element), r \in Seq(Element), Len(l) <= MaxLen, Len(r) <= MaxLen,
         container' \in Containers, Arrays!Show(l, r)
  PROVE  ArraysInv'
<1>1. PICK s \in Arrays!Scripts(l, r) :
        /\ leftArray' = Arrays!PrintedLeft(l, s)
        /\ rightArray' = Arrays!PrintedRight(r, Arrays!Rows(l, s))
        /\ arrayChanges' = Arrays!ChangesOf(l, r, s)
  BY DEF Arrays!Show
<1>2. IsScript(l, r, s)
  <2>1. s \in Arrays!Candidates(l, r)
    BY DEF Arrays!Scripts
  <2> QED
    BY <2>1, CandidateIsScript
<1>3. /\ Arrays!PrintedRight(r, Arrays!Rows(l, s)) = r
      /\ Arrays!PrintedLeft(l, s) \in Seq(Element) /\ Len(Arrays!PrintedLeft(l, s)) = Len(l)
  BY <1>2, PrintedArrays
<1>4. rightArray' = r
  BY <1>1, <1>3
<1>5. ListedFrom(l, s)'
  BY <1>1, <1>2, <1>4 DEF ListedFrom
<1> QED
  BY <1>1, <1>3, <1>4, <1>5 DEF ArraysInv

LEMMA ArraysInit == InitContainer => ArraysInv
<1> SUFFICES ASSUME InitContainer PROVE ArraysInv
  OBVIOUS
<1>1. arrayChanges = None /\ container \in Containers
      /\ leftArray \in BoundedSeq(Element, MaxLen) \cup {<<>>}
      /\ rightArray \in BoundedSeq(Element, MaxLen) \cup {<<>>}
  BY LibraryOfArrays DEF InitContainer, Arrays!Init
<1>2. ASSUME NEW d \in BoundedSeq(Element, MaxLen) \cup {<<>>} PROVE d \in Seq(Element) /\ Len(d) <= MaxLen
  <2>1. CASE d = <<>>
    BY <2>1, ContainerAssumption
  <2>2. CASE d \in BoundedSeq(Element, MaxLen)
    <3>1. PICK n \in 0..MaxLen : d \in [1..n -> Element]
      BY <2>2 DEF BoundedSeq, SeqOf
    <3> QED
      BY <3>1, ContainerAssumption
  <2> QED
    BY <2>1, <2>2
<1> QED
  BY <1>1, <1>2 DEF ArraysInv

LEMMA ArraysPoint ==
  ASSUME ArraysInv, arrayChanges # None, NEW c \in arrayChanges
  PROVE  PointsInto(Len(leftArray), Len(rightArray), c)
<1>1. PICK l, s : ListedFrom(l, s)
  BY DEF ArraysInv
<1>2. PointsInto(Len(l), Len(rightArray), c)
  BY <1>1, ChangesPoint DEF ListedFrom
<1>3. Len(leftArray) = Len(l)
  BY <1>1, PrintedArrays DEF ListedFrom
<1> QED
  BY <1>2, <1>3

LEMMA ArraysStep == ArraysInv /\ [NextContainer]_allVars => ArraysInv'
<1> SUFFICES ASSUME ArraysInv, [NextContainer]_allVars PROVE ArraysInv'
  OBVIOUS
<1>0. ASSUME UNCHANGED <<container, arrayVars>> PROVE ArraysInv'
  BY <1>0 DEF ArraysInv, arrayVars, ListedFrom
<1>1. CASE CompareObjects
  BY <1>0, <1>1 DEF CompareObjects
<1>2. CASE CompareArrays
  <2>1. Arrays!Show(leftArray, rightArray) /\ container' = container
    BY <1>2 DEF CompareArrays, Arrays!Compare
  <2> QED
    BY <2>1, ShowArrays DEF ArraysInv
<1>3. ASSUME NEW c \in Change, NEW dir \in Direction, CopyInObject(c, dir) PROVE ArraysInv'
  BY <1>0, <1>3 DEF CopyInObject
<1>4. ASSUME NEW c \in Arrays!Change, NEW dir \in Direction, CopyInArray(c, dir) PROVE ArraysInv'
  <2> DEFINE l == Arrays!CopiedLeft(leftArray, rightArray, c, dir)
             r == Arrays!CopiedRight(leftArray, rightArray, c, dir)
  <2>1. /\ arrayChanges # None /\ c \in arrayChanges /\ container' = container
        /\ Len(l) <= MaxLen /\ Len(r) <= MaxLen /\ Arrays!Show(l, r)
    BY <1>4 DEF CopyInArray, Arrays!Copy, Arrays!Fits
  <2>2. PointsInto(Len(leftArray), Len(rightArray), c)
    BY <2>1, ArraysPoint
  <2>3. l \in Seq(Element) /\ r \in Seq(Element)
    BY <2>2, CopiedArrays DEF ArraysInv
  <2>4. container' \in Containers
    BY <2>1 DEF ArraysInv
  <2> HIDE DEF l, r
  <2> QED
    BY <2>1, <2>3, <2>4, ShowArrays
<1>5. CASE UNCHANGED allVars
  BY <1>0, <1>5 DEF allVars
<1> QED
  BY <1>1, <1>2, <1>3, <1>4, <1>5 DEF NextContainer

(* Typing, comparing and the arrows keep the inductive invariant of arrays:*)
(* what is listed comes from a script that leads from an array the left    *)
(* side held to the one on the right.                                      *)
THEOREM ArraysInvAlways == SpecContainer => []ArraysInv
  BY ArraysInit, ArraysStep, PTL DEF SpecContainer

(* Whatever was compared and copied, no object holds a key twice and every *)
(* listed change points at elements the two sides hold (lineDiff.ts        *)
(* buildRows, applyChange.ts).                                             *)
THEOREM WellTypedAlways == SpecContainer => []WellTyped
<1>1. ObjectsInv => TypeOK
  <2> SUFFICES ASSUME ObjectsInv PROVE TypeOK
    OBVIOUS
  <2>1. changes # None => changes \subseteq Change
    BY ChangesAre DEF ObjectsInv
  <2> QED
    BY <2>1 DEF ObjectsInv, TypeOK, IsDoc
<1>2. ArraysInv => Arrays!TypeOK
  <2> SUFFICES ASSUME ArraysInv PROVE Arrays!TypeOK
    OBVIOUS
  <2>1. /\ leftArray \in Seq(Element) /\ rightArray \in Seq(Element)
        /\ Len(leftArray) <= MaxLen /\ Len(rightArray) <= MaxLen
    BY DEF ArraysInv
  <2>2. /\ 1..Len(leftArray) \subseteq Arrays!Index /\ DOMAIN leftArray = 1..Len(leftArray)
        /\ 1..Len(rightArray) \subseteq Arrays!Index /\ DOMAIN rightArray = 1..Len(rightArray)
    BY <2>1, ContainerAssumption DEF Arrays!Index
  <2>3. ASSUME arrayChanges # None, NEW c \in arrayChanges
        PROVE  /\ c \in Arrays!Change
               /\ c.leftKey # None => c.leftKey \in DOMAIN leftArray
               /\ c.rightKey # None => c.rightKey \in DOMAIN rightArray
    <3>1. PointsInto(Len(leftArray), Len(rightArray), c)
      BY <2>3, ArraysPoint
    <3>2. c \in [kind : Arrays!Kind, leftKey : (1..Len(leftArray)) \cup {None},
                 rightKey : (1..Len(rightArray)) \cup {None}]
      BY <3>1 DEF PointsInto
    <3> QED
      BY <2>2, <3>2 DEF Arrays!Change
  <2> QED
    BY <2>1, <2>3 DEF Arrays!TypeOK, Arrays!Holds
<1>3. ObjectsInv /\ ArraysInv => WellTyped
  BY <1>1, <1>2 DEF WellTyped, ArraysInv
<1> QED
  BY <1>3, ObjectsInvAlways, ArraysInvAlways, PTL

(* The rows of two arrays list every element of both sides once, the right *)
(* side in its order, and pair what the edit script keeps or moves         *)
(* (lineDiff.ts alignArrayIndices).                                        *)
THEOREM AlignmentIsTrueAlways == SpecContainer => []AlignmentIsTrue
<1>1. ArraysInv => AlignmentIsTrue
  <2> SUFFICES ASSUME ArraysInv, NEW s \in Arrays!Scripts(leftArray, rightArray)
               PROVE  LET rows == Arrays!Rows(leftArray, s)
                          colL == Arrays!OnLeft(rows)
                          colR == Arrays!OnRight(rows)
                      IN  /\ [k \in DOMAIN colR |-> colR[k].rightKey] = [j \in DOMAIN rightArray |-> j]
                          /\ Len(colL) = Len(leftArray)
                          /\ {w.leftKey : w \in Arrays!ToSet(colL)} = DOMAIN leftArray
                          /\ {<<w.leftKey, w.rightKey>> : w \in Arrays!ToSet(colL) \cap Arrays!ToSet(colR)}
                               = PairsOf(leftArray, rightArray, s)
    BY DEF AlignmentIsTrue, Arrays!AlignmentIsTrue, PairsOf
  <2>1. s \in Arrays!Candidates(leftArray, rightArray)
    BY DEF Arrays!Scripts
  <2>2. IsScript(leftArray, rightArray, s)
    BY <2>1, CandidateIsScript DEF ArraysInv
  <2> QED
    BY <2>2, ColumnsSay
<1> QED
  BY <1>1, ArraysInvAlways, PTL

(* A comparison leaves the right array as it is, and the left one as long  *)
(* as nothing moves (ComparePage.tsx runCompare, lineDiff.ts buildRows).   *)
THEOREM CompareLeavesArraysAlways == SpecContainer => []CompareLeavesArrays
<1>1. ArraysInv => CompareLeavesArrays
  <2> SUFFICES ASSUME ArraysInv, NEW s \in Arrays!Scripts(leftArray, rightArray)
               PROVE  /\ Arrays!PrintedRight(rightArray, Arrays!Rows(leftArray, s)) = rightArray
                      /\ DOMAIN s.from = {} => Arrays!PrintedLeft(leftArray, s) = leftArray
    BY DEF CompareLeavesArrays, Arrays!CompareLeavesArrays
  <2>1. s \in Arrays!Candidates(leftArray, rightArray)
    BY DEF Arrays!Scripts
  <2>2. IsScript(leftArray, rightArray, s)
    BY <2>1, CandidateIsScript DEF ArraysInv
  <2> QED
    BY <2>2, PrintedArrays
<1> QED
  BY <1>1, ArraysInvAlways, PTL

(* The arrow of the only listed change, in either direction, makes the two *)
(* arrays equal, unless the change is a move (applyChange.ts copyChange).  *)
THEOREM LastArrowSettlesAlways == SpecContainer => []LastArrowSettles
<1>1. ArraysInv => LastArrowSettles
  <2> SUFFICES ASSUME ArraysInv, arrayChanges # None, NEW c \in arrayChanges, NEW dir \in Arrays!Direction,
                      arrayChanges = {c}, c.kind # "moved"
               PROVE  Arrays!CopiedLeft(leftArray, rightArray, c, dir)
                        = Arrays!CopiedRight(leftArray, rightArray, c, dir)
    BY DEF LastArrowSettles, Arrays!LastArrowSettles
  <2>1. PICK l, s : ListedFrom(l, s)
    BY DEF ArraysInv
  <2>2. IsScript(l, rightArray, s) /\ Arrays!ChangesOf(l, rightArray, s) = {c}
        /\ leftArray = Arrays!PrintedLeft(l, s)
    BY <2>1 DEF ListedFrom
  <2>3. DOMAIN s.from = {} /\ OnlyDifference(l, rightArray, c)
    BY <2>2, OneChange
  <2>4. leftArray = l
    BY <2>2, <2>3, PrintedArrays
  <2>5. OnlyDifference(leftArray, rightArray, c)
    BY <2>3, <2>4
  <2>6. dir \in {"to-left", "to-right"}
    BY DEF Arrays!Direction
  <2> QED
    BY <2>5, <2>6, OnlyArrow DEF ArraysInv
<1> QED
  BY <1>1, ArraysInvAlways, PTL
=============================================================================
