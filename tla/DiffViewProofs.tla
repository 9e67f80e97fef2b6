--------------------------- MODULE DiffViewProofs ---------------------------
(***************************************************************************)
(* What DiffView and EditorView promise for every context, every length of *)
(* document and every set of diffs that buildRows, as DiffRows models it,  *)
(* may build: of any number of rows, nested to any depth.                  *)
(***************************************************************************)
EXTENDS EditorView, DiffRows, FiniteSetTheorems, WellFoundedInduction, TLAPS

(* The rows of a container: values that print at least one line, and the   *)
(* diffs in S of the containers nested in it.                              *)
ValueRow == {v \in [kind : Kind \cup {"unchanged"}, left : Nat, right : Nat] : v.left + v.right > 0}
NestedRow(S) == [kind : {"nested"}, diff : S]
ClosedUnderBuild(S) == \A rows \in Seq(ValueRow \cup NestedRow(S)) : Build(rows) \in S

(* The diffs built of values and of diffs that are themselves built.       *)
BuiltByRows(d) == \A S : ClosedUnderBuild(S) => d \in S
FromBuildRows == \A d \in Diff : BuiltByRows(d)

(* What is built of such diffs is one of them: those of the instance are.  *)
LEMMA BuiltOfBuilt ==
  ASSUME NEW S, \A d \in S : BuiltByRows(d), NEW rows \in Seq(ValueRow \cup NestedRow(S))
  PROVE  BuiltByRows(Build(rows))
<1> SUFFICES ASSUME NEW U, ClosedUnderBuild(U) PROVE Build(rows) \in U
  BY DEF BuiltByRows
<1>1. S \subseteq U
  BY DEF BuiltByRows
<1>2. ValueRow \cup NestedRow(S) \subseteq ValueRow \cup NestedRow(U)
  BY <1>1 DEF NestedRow
<1>3. rows \in Seq(ValueRow \cup NestedRow(U))
  BY <1>2
<1> QED
  BY <1>3 DEF ClosedUnderBuild

-----------------------------------------------------------------------------
(* Induction.                                                              *)

LEMMA LeastNumber ==
  ASSUME NEW T, T \subseteq Nat, T # {}
  PROVE  \E x \in T : \A y \in T : x <= y
<1> DEFINE F == {0..x : x \in T}
<1>1. F \subseteq FiniteSubsetsOf(Nat)
  <2> SUFFICES ASSUME NEW x \in T PROVE 0..x \in FiniteSubsetsOf(Nat)
    BY DEF F
  <2>1. IsFiniteSet(0..x)
    BY FS_Interval
  <2>2. 0..x \in SUBSET Nat
    OBVIOUS
  <2> QED
    BY <2>1, <2>2 DEF FiniteSubsetsOf
<1>2. F # {}
  OBVIOUS
<1> HIDE DEF F
<1>3. PICK X \in F : \A Y \in F : ~(<<Y, X>> \in StrictSubsetOrdering(Nat))
  BY <1>1, <1>2, FS_StrictSubsetOrderingWellFounded, WFMin
<1>4. PICK x \in T : X = 0..x
  BY DEF F
<1>5. ASSUME NEW y \in T, ~(x <= y) PROVE FALSE
  <2>1. 0..y \in F
    BY DEF F
  <2>2. 0..y \subseteq 0..x /\ x \in 0..x /\ x \notin 0..y
    BY <1>5
  <2>3. 0..y \in SUBSET Nat /\ 0..x \in SUBSET Nat
    OBVIOUS
  <2> QED
    BY <1>3, <1>4, <2>1, <2>2, <2>3 DEF StrictSubsetOrdering
<1> QED
  BY <1>5

(* A set of numbers that has 0 and the successor of each of its members    *)
(* below N has all numbers up to N.                                        *)
LEMMA UpTo ==
  ASSUME NEW N \in Nat, NEW T, 0 \in T, \A k \in 0..(N - 1) : k \in T => k + 1 \in T
  PROVE  0..N \subseteq T
<1> DEFINE U == {k \in 0..N : k \notin T}
<1>1. CASE U = {}
  BY <1>1
<1>2. CASE U # {}
  <2>1. U \subseteq Nat
    OBVIOUS
  <2>2. PICK k \in U : \A y \in U : k <= y
    BY <1>2, <2>1, LeastNumber
  <2>3. k # 0 /\ k \in 1..N /\ k \notin T
    BY <2>2
  <2>4. k - 1 \in 0..N /\ k - 1 \notin U
    BY <2>2, <2>3
  <2>5. k - 1 \in T /\ k - 1 \in 0..(N - 1)
    BY <2>3, <2>4
  <2>6. (k - 1) + 1 \in T
    BY <2>5
  <2> QED
    BY <2>3, <2>6
<1> QED
  BY <1>1, <1>2

(* What is built step by step from a start within S, by steps that stay    *)
(* within S, exists and lies within S.                                     *)
Steps(f, k, S, start, H) ==
  f \in [0..k -> S] /\ f[0] = start /\ \A j \in 1..k : f[j] = H[<<f[j - 1], j>>]

LEMMA StepByStep ==
  ASSUME NEW S, NEW N \in Nat, NEW start \in S, NEW H \in [S \X (1..N) -> S]
  PROVE  \E f : Steps(f, N, S, start, H)
<1> DEFINE T == {k \in 0..N : \E f : Steps(f, k, S, start, H)}
<1>1. 0 \in T
  <2>1. Steps([j \in 0..0 |-> start], 0, S, start, H)
    BY DEF Steps
  <2> QED
    BY <2>1
<1>2. ASSUME NEW k \in 0..(N - 1), k \in T PROVE k + 1 \in T
  <2>1. PICK f : Steps(f, k, S, start, H)
    BY <1>2
  <2>2. k \in Nat /\ k + 1 \in 1..N /\ k + 1 \in 0..N /\ k \in 0..k
    OBVIOUS
  <2> DEFINE next == H[<<f[k], k + 1>>]
             g == [j \in 0..(k + 1) |-> IF j = k + 1 THEN next ELSE f[j]]
  <2>3. f[k] \in S
    BY <2>1, <2>2 DEF Steps
  <2>4. next \in S
    BY <2>2, <2>3
  <2> HIDE DEF next
  <2>5. \A j \in 0..k : f[j] \in S
    BY <2>1 DEF Steps
  <2>6. \A j \in 0..(k + 1) : j = k + 1 \/ j \in 0..k
    BY <2>2
  <2>7. g \in [0..(k + 1) -> S]
    BY <2>4, <2>5, <2>6
  <2>8. \A j \in 0..k : g[j] = f[j]
    BY <2>2
  <2>9. g[k + 1] = next
    BY <2>2
  <2> HIDE DEF g
  <2>10. g[0] = start
    BY <2>1, <2>2, <2>8 DEF Steps
  <2>11. ASSUME NEW j \in 1..(k + 1) PROVE g[j] = H[<<g[j - 1], j>>]
    <3>1. CASE j = k + 1
      <4>1. g[j - 1] = f[k]
        BY <2>2, <2>8, <3>1
      <4> QED
        BY <2>9, <3>1, <4>1 DEF next
    <3>2. CASE j # k + 1
      <4>1. j \in 1..k /\ j \in 0..k /\ j - 1 \in 0..k
        BY <2>2, <3>2
      <4>2. g[j] = f[j] /\ g[j - 1] = f[j - 1]
        BY <2>8, <4>1
      <4> QED
        BY <2>1, <4>1, <4>2 DEF Steps
    <3> QED
      BY <3>1, <3>2
  <2>12. Steps(g, k + 1, S, start, H)
    BY <2>7, <2>10, <2>11 DEF Steps
  <2> QED
    BY <2>2, <2>12
<1> HIDE DEF T
<1>3. 0..N \subseteq T
  BY <1>1, <1>2, UpTo
<1>4. N \in T
  BY <1>3
<1> QED
  BY <1>4 DEF T

-----------------------------------------------------------------------------
(* Diffs well formed: both sides have as many lines, of which no two       *)
(* placeholders face each other, and the changes are ranges of highlighted *)
(* lines, one after the other, and leave none out.                         *)
HasContent(s, i) == i \in DOMAIN s /\ s[i] \notin {"unchanged", "placeholder"}
Facing(l, r) == \A i \in DOMAIN l : ~(l[i] = "placeholder" /\ r[i] = "placeholder")
InOrder(cs) == \A j, k \in DOMAIN cs : j < k => cs[j].end < cs[k].start
Ranges(l, r, cs) ==
  \A k \in DOMAIN cs :
    /\ 1 <= cs[k].start /\ cs[k].start <= cs[k].end /\ cs[k].end <= Len(l)
    /\ \A i \in LinesOf(cs[k]) : HasContent(l, i) \/ HasContent(r, i)
Covers(l, r, cs) ==
  \A i \in DOMAIN l : HasContent(l, i) \/ HasContent(r, i) => \E k \in DOMAIN cs : i \in LinesOf(cs[k])

WellFormed(l, r, cs) ==
  Len(l) = Len(r) /\ Facing(l, r) /\ InOrder(cs) /\ Ranges(l, r, cs) /\ Covers(l, r, cs)

(* Diffs, and what is above their closing bracket.                         *)
Shape == [left : Seq(Status), right : Seq(Status), changes : Seq(Change)]
Sound(d) == d \in Shape /\ WellFormed(d.left, d.right, d.changes)
Below(a, b) ==
  [left |-> a.left \o b.left, right |-> a.right \o b.right,
   changes |-> a.changes \o Shifted(b.changes, Len(a.left))]

LEMMA LinesAre ==
  ASSUME NEW status \in Status, NEW n \in Nat
  PROVE  /\ Lines(status, n) \in Seq(Status) /\ Len(Lines(status, n)) = n
         /\ \A i \in 1..n : Lines(status, n)[i] = status
BY DEF Lines

Joins(S, w, u, v) ==
  /\ w \in Seq(S) /\ Len(w) = Len(u) + Len(v)
  /\ \A i \in 1..Len(u) : w[i] = u[i]
  /\ \A i \in 1..Len(v) : w[Len(u) + i] = v[i]

LEMMA ConcatenationJoins ==
  ASSUME NEW S, NEW u \in Seq(S), NEW v \in Seq(S)
  PROVE  Joins(S, u \o v, u, v)
BY DEF Joins

LEMMA ShiftedAre ==
  ASSUME NEW cs \in Seq(Change), NEW n \in Nat
  PROVE  /\ Shifted(cs, n) \in Seq(Change) /\ Len(Shifted(cs, n)) = Len(cs)
         /\ \A k \in DOMAIN cs : /\ Shifted(cs, n)[k].start = cs[k].start + n
                                 /\ Shifted(cs, n)[k].end = cs[k].end + n
<1>1. ASSUME NEW k \in DOMAIN cs
      PROVE  /\ Shifted(cs, n)[k] \in Change
             /\ Shifted(cs, n)[k].start = cs[k].start + n
             /\ Shifted(cs, n)[k].end = cs[k].end + n
  <2>1. cs[k] \in Change
    OBVIOUS
  <2>2. Shifted(cs, n)[k] = [cs[k] EXCEPT !.start = @ + n, !.end = @ + n]
    BY DEF Shifted
  <2>3. cs[k] = [kind |-> cs[k].kind, start |-> cs[k].start, end |-> cs[k].end]
    BY <2>1 DEF Change
  <2>4. Shifted(cs, n)[k] = [kind |-> cs[k].kind, start |-> cs[k].start + n, end |-> cs[k].end + n]
    BY <2>2, <2>3
  <2> QED
    BY <2>1, <2>4 DEF Change
<1>2. DOMAIN cs = 1..Len(cs) /\ Len(cs) \in Nat
  OBVIOUS
<1>3. Shifted(cs, n) = [k \in 1..Len(cs) |-> Shifted(cs, n)[k]]
  BY <1>2 DEF Shifted
<1> DEFINE s == Shifted(cs, n)
<1>4. s = [k \in 1..Len(cs) |-> s[k]] /\ \A k \in 1..Len(cs) : s[k] \in Change
  BY <1>1, <1>2, <1>3
<1> HIDE DEF s
<1>5. s \in [1..Len(cs) -> Change]
  BY <1>4
<1>6. s \in Seq(Change) /\ Len(s) = Len(cs)
  BY <1>2, <1>5
<1> QED
  BY <1>1, <1>6 DEF s

LEMMA BracketIsSound == Sound(Bracket)
<1>1. Bracket \in Shape
  BY DEF Bracket, Shape, Status
<1>2. Facing(Bracket.left, Bracket.right)
  BY DEF Facing, Bracket
<1>3. InOrder(Bracket.changes) /\ Ranges(Bracket.left, Bracket.right, Bracket.changes)
  BY DEF InOrder, Ranges, Bracket
<1>4. Covers(Bracket.left, Bracket.right, Bracket.changes)
  BY DEF Covers, HasContent, Bracket
<1> QED
  BY <1>1, <1>2, <1>3, <1>4 DEF Sound, WellFormed, Bracket

LEMMA ShiftedSpan ==
  ASSUME NEW u \in Nat, NEW v \in Nat, NEW n \in Nat, NEW i \in Int
  PROVE  n + i \in (u + n)..(v + n) <=> i \in u..v
OBVIOUS

LEMMA BelowIsSound ==
  ASSUME NEW a, Sound(a), NEW b, Sound(b)
  PROVE  Sound(Below(a, b))
<1> DEFINE l == a.left \o b.left
           r == a.right \o b.right
           n == Len(a.left)
           m == Len(b.left)
           p == Len(a.changes)
           q == Len(b.changes)
           s == Shifted(b.changes, n)
           cs == a.changes \o s
<1>1. /\ a.left \in Seq(Status) /\ a.right \in Seq(Status) /\ a.changes \in Seq(Change)
      /\ b.left \in Seq(Status) /\ b.right \in Seq(Status) /\ b.changes \in Seq(Change)
  BY DEF Sound, Shape
<1>2. n \in Nat /\ m \in Nat /\ p \in Nat /\ q \in Nat /\ Len(a.right) = n /\ Len(b.right) = m
  BY <1>1 DEF Sound, WellFormed
<1>3. /\ s \in Seq(Change) /\ Len(s) = q
      /\ \A k \in 1..q : s[k].start = b.changes[k].start + n /\ s[k].end = b.changes[k].end + n
  BY <1>1, <1>2, ShiftedAre
<1>4. /\ l \in Seq(Status) /\ Len(l) = n + m
      /\ \A i \in 1..n : l[i] = a.left[i]
      /\ \A i \in 1..m : l[n + i] = b.left[i]
  <2>1. Joins(Status, l, a.left, b.left)
    BY <1>1, ConcatenationJoins
  <2> HIDE DEF l
  <2> QED
    BY <2>1 DEF Joins
<1>5. /\ r \in Seq(Status) /\ Len(r) = n + m
      /\ \A i \in 1..n : r[i] = a.right[i]
      /\ \A i \in 1..m : r[n + i] = b.right[i]
  <2>1. /\ r \in Seq(Status) /\ Len(r) = Len(a.right) + Len(b.right)
        /\ \A i \in 1..Len(a.right) : r[i] = a.right[i]
        /\ \A i \in 1..Len(b.right) : r[Len(a.right) + i] = b.right[i]
    <3>1. Joins(Status, r, a.right, b.right)
      BY <1>1, ConcatenationJoins
    <3> HIDE DEF r
    <3> QED
      BY <3>1 DEF Joins
  <2> HIDE DEF r, n, m
  <2> QED
    BY <1>2, <2>1
<1>6. /\ cs \in Seq(Change) /\ Len(cs) = p + q
      /\ \A k \in 1..p : cs[k] = a.changes[k]
      /\ \A k \in 1..q : cs[p + k] = s[k]
  <2>1. /\ cs \in Seq(Change) /\ Len(cs) = p + Len(s)
        /\ \A k \in 1..p : cs[k] = a.changes[k]
        /\ \A k \in 1..Len(s) : cs[p + k] = s[k]
    <3>1. Joins(Change, cs, a.changes, s)
      <4> HIDE DEF s
      <4> QED
        BY <1>1, <1>3, ConcatenationJoins
    <3> HIDE DEF s, cs
    <3> QED
      BY <3>1 DEF Joins
  <2> HIDE DEF s, p, q, cs
  <2> QED
    BY <1>3, <2>1
<1>7. Below(a, b) = [left |-> l, right |-> r, changes |-> cs]
  BY DEF Below
<1>8. /\ \A k \in 1..p : a.changes[k].start \in Nat /\ a.changes[k].end \in Nat
      /\ \A k \in 1..q : b.changes[k].start \in Nat /\ b.changes[k].end \in Nat
  <2>1. ASSUME NEW k \in 1..p PROVE a.changes[k] \in Change
    BY <1>1
  <2>2. ASSUME NEW k \in 1..q PROVE b.changes[k] \in Change
    BY <1>1
  <2> QED
    BY <2>1, <2>2 DEF Change
<1>9. /\ DOMAIN a.left = 1..n /\ DOMAIN a.right = 1..n /\ DOMAIN b.left = 1..m /\ DOMAIN b.right = 1..m
      /\ DOMAIN a.changes = 1..p /\ DOMAIN b.changes = 1..q
  BY <1>1, <1>2
<1>10. DOMAIN l = 1..(n + m) /\ DOMAIN r = 1..(n + m) /\ DOMAIN cs = 1..(p + q)
  <2> HIDE DEF l, r, cs, n, m, p, q
  <2> QED
    BY <1>4, <1>5, <1>6
<1>11. /\ Facing(a.left, a.right) /\ Facing(b.left, b.right)
       /\ InOrder(a.changes) /\ InOrder(b.changes)
       /\ Ranges(a.left, a.right, a.changes) /\ Ranges(b.left, b.right, b.changes)
       /\ Covers(a.left, a.right, a.changes) /\ Covers(b.left, b.right, b.changes)
  BY DEF Sound, WellFormed
<1>12. /\ \A i \in 1..n : (HasContent(l, i) <=> HasContent(a.left, i))
                            /\ (HasContent(r, i) <=> HasContent(a.right, i))
       /\ \A i \in 1..m : (HasContent(l, n + i) <=> HasContent(b.left, i))
                            /\ (HasContent(r, n + i) <=> HasContent(b.right, i))
  <2> HIDE DEF l, r, n, m
  <2>1. ASSUME NEW i \in 1..n PROVE i \in 1..(n + m)
    BY <1>2
  <2>2. ASSUME NEW i \in 1..m PROVE n + i \in 1..(n + m)
    BY <1>2
  <2> QED
    BY <1>4, <1>5, <1>9, <1>10, <2>1, <2>2 DEF HasContent
<1>13. \A i \in 1..(n + m) : i \in 1..n \/ \E j \in 1..m : i = n + j
  <2> SUFFICES ASSUME NEW i \in 1..(n + m), i \notin 1..n PROVE \E j \in 1..m : i = n + j
    OBVIOUS
  <2> HIDE DEF n, m
  <2>1. i - n \in 1..m /\ i = n + (i - n)
    BY <1>2
  <2> QED
    BY <2>1
<1>14. \A i \in 1..(p + q) : i \in 1..p \/ \E j \in 1..q : i = p + j
  <2> SUFFICES ASSUME NEW i \in 1..(p + q), i \notin 1..p PROVE \E j \in 1..q : i = p + j
    OBVIOUS
  <2> HIDE DEF p, q
  <2>1. i - p \in 1..q /\ i = p + (i - p)
    BY <1>2
  <2> QED
    BY <2>1
<1>15. /\ \A k \in 1..p : /\ 1 <= a.changes[k].start /\ a.changes[k].start <= a.changes[k].end
                          /\ a.changes[k].end <= n
       /\ \A k \in 1..q : /\ 1 <= b.changes[k].start /\ b.changes[k].start <= b.changes[k].end
                          /\ b.changes[k].end <= m
  BY <1>9, <1>11 DEF Ranges
<1> HIDE DEF l, r, n, m, p, q, s, cs
<1>16. Facing(l, r)
  BY <1>4, <1>5, <1>9, <1>10, <1>11, <1>13 DEF Facing
<1>17. InOrder(cs)
  <2> SUFFICES ASSUME NEW j \in 1..(p + q), NEW k \in 1..(p + q), j < k
               PROVE  cs[j].end < cs[k].start
    BY <1>10 DEF InOrder
  <2>1. CASE k \in 1..p
    <3>1. j \in 1..p
      BY <1>2, <2>1
    <3> QED
      BY <1>6, <1>9, <1>11, <2>1, <3>1 DEF InOrder
  <2>2. ASSUME NEW f \in 1..q, k = p + f PROVE cs[j].end < cs[k].start
    <3>1. cs[k].start = b.changes[f].start + n
      BY <1>3, <1>6, <2>2
    <3>2. CASE j \in 1..p
      <4>1. cs[j].end <= n /\ cs[j].end \in Nat
        BY <1>6, <1>8, <1>15, <3>2
      <4> QED
        BY <1>2, <1>8, <1>15, <3>1, <4>1
    <3>3. ASSUME NEW e \in 1..q, j = p + e PROVE cs[j].end < cs[k].start
      <4>1. e < f
        BY <1>2, <2>2, <3>3
      <4>2. b.changes[e].end < b.changes[f].start
        BY <1>9, <1>11, <4>1 DEF InOrder
      <4>3. cs[j].end = b.changes[e].end + n
        BY <1>3, <1>6, <3>3
      <4> QED
        BY <1>2, <1>8, <3>1, <4>2, <4>3
    <3> QED
      BY <1>14, <3>2, <3>3
  <2> QED
    BY <1>14, <2>1, <2>2
<1>18. ASSUME NEW k \in 1..q, NEW i \in Int
       PROVE  n + i \in LinesOf(cs[p + k]) <=> i \in LinesOf(b.changes[k])
  <2>1. cs[p + k].start = b.changes[k].start + n /\ cs[p + k].end = b.changes[k].end + n
    BY <1>3, <1>6
  <2>2. b.changes[k].start \in Nat /\ b.changes[k].end \in Nat
    BY <1>8
  <2>3. /\ LinesOf(cs[p + k]) = (b.changes[k].start + n)..(b.changes[k].end + n)
        /\ LinesOf(b.changes[k]) = b.changes[k].start..b.changes[k].end
    BY <2>1 DEF LinesOf
  <2> QED
    BY <1>2, <2>2, <2>3, ShiftedSpan
<1>19. Ranges(l, r, cs)
  <2> SUFFICES ASSUME NEW k \in 1..(p + q)
               PROVE  /\ 1 <= cs[k].start /\ cs[k].start <= cs[k].end /\ cs[k].end <= n + m
                      /\ \A i \in LinesOf(cs[k]) : HasContent(l, i) \/ HasContent(r, i)
    BY <1>4, <1>10 DEF Ranges
  <2>1. CASE k \in 1..p
    <3>1. cs[k] = a.changes[k]
      BY <1>6, <2>1
    <3>2. LinesOf(cs[k]) \subseteq 1..n
      BY <1>2, <1>8, <1>15, <2>1, <3>1 DEF LinesOf
    <3>3. \A i \in LinesOf(cs[k]) : HasContent(a.left, i) \/ HasContent(a.right, i)
      BY <1>9, <1>11, <2>1, <3>1 DEF Ranges
    <3>4. \A i \in LinesOf(cs[k]) : HasContent(l, i) \/ HasContent(r, i)
      BY <1>12, <3>2, <3>3
    <3> QED
      BY <1>2, <1>8, <1>15, <2>1, <3>1, <3>4
  <2>2. ASSUME NEW j \in 1..q, k = p + j
        PROVE  /\ 1 <= cs[k].start /\ cs[k].start <= cs[k].end /\ cs[k].end <= n + m
               /\ \A i \in LinesOf(cs[k]) : HasContent(l, i) \/ HasContent(r, i)
    <3>1. cs[k].start = b.changes[j].start + n /\ cs[k].end = b.changes[j].end + n
      BY <1>3, <1>6, <2>2
    <3>2. \A i \in LinesOf(b.changes[j]) : HasContent(b.left, i) \/ HasContent(b.right, i)
      BY <1>9, <1>11 DEF Ranges
    <3>3. LinesOf(b.changes[j]) \subseteq 1..m
      BY <1>2, <1>8, <1>15 DEF LinesOf
    <3>4. ASSUME NEW i \in LinesOf(cs[k]) PROVE HasContent(l, i) \/ HasContent(r, i)
      <4>1. i \in Int
        BY <3>4 DEF LinesOf
      <4>2. i - n \in Int /\ n + (i - n) = i
        BY <1>2, <4>1
      <4>3. i - n \in LinesOf(b.changes[j])
        BY <1>18, <2>2, <3>4, <4>2
      <4>4. i - n \in 1..m
        BY <3>3, <4>3
      <4> QED
        BY <1>12, <3>2, <4>2, <4>3, <4>4
    <3>5. 1 <= cs[k].start /\ cs[k].start <= cs[k].end /\ cs[k].end <= n + m
      BY <1>2, <1>8, <1>15, <3>1
    <3> QED
      BY <3>4, <3>5
  <2> QED
    BY <1>14, <2>1, <2>2
<1>20. Covers(l, r, cs)
  <2> SUFFICES ASSUME NEW i \in 1..(n + m), HasContent(l, i) \/ HasContent(r, i)
               PROVE  \E k \in DOMAIN cs : i \in LinesOf(cs[k])
    BY <1>10 DEF Covers
  <2>1. CASE i \in 1..n
    <3>1. PICK k \in 1..p : i \in LinesOf(a.changes[k])
      BY <1>9, <1>11, <1>12, <2>1 DEF Covers
    <3>2. k \in DOMAIN cs /\ cs[k] = a.changes[k]
      BY <1>2, <1>6, <1>10
    <3> QED
      BY <3>1, <3>2
  <2>2. ASSUME NEW j \in 1..m, i = n + j PROVE \E k \in DOMAIN cs : i \in LinesOf(cs[k])
    <3>1. PICK k \in 1..q : j \in LinesOf(b.changes[k])
      BY <1>9, <1>11, <1>12, <2>2 DEF Covers
    <3>2. p + k \in DOMAIN cs
      BY <1>2, <1>10
    <3>3. n + j \in LinesOf(cs[p + k])
      BY <1>18, <3>1
    <3> QED
      BY <2>2, <3>2, <3>3
  <2> QED
    BY <1>13, <2>1, <2>2
<1> QED
  BY <1>4, <1>5, <1>6, <1>7, <1>16, <1>17, <1>19, <1>20 DEF Sound, Shape, WellFormed

(* A row with its shorter side padded.                                     *)
Levelled(b) ==
  LET n == Most(Len(b.left), Len(b.right))
  IN  [left |-> Padded(b.left, n), right |-> Padded(b.right, n), changes |-> b.changes]

LEMMA PaddedAre ==
  ASSUME NEW s \in Seq(Status), NEW n \in Nat, Len(s) <= n
  PROVE  /\ Padded(s, n) \in Seq(Status) /\ Len(Padded(s, n)) = n
         /\ \A i \in 1..n : Padded(s, n)[i] = IF i <= Len(s) THEN s[i] ELSE "placeholder"
<1> DEFINE m == Len(s)
           v == Lines("placeholder", n - m)
           w == s \o v
<1>1. m \in Nat /\ n - m \in Nat
  OBVIOUS
<1>2. v \in Seq(Status) /\ Len(v) = n - m /\ \A i \in 1..(n - m) : v[i] = "placeholder"
  <2>1. "placeholder" \in Status
    BY DEF Status
  <2> QED
    BY <1>1, <2>1, LinesAre
<1>3. Joins(Status, w, s, v)
  <2> HIDE DEF v
  <2> QED
    BY <1>2, ConcatenationJoins
<1> HIDE DEF v, w
<1>4. w \in Seq(Status) /\ Len(w) = n
  BY <1>1, <1>2, <1>3 DEF Joins
<1>5. ASSUME NEW i \in 1..n PROVE w[i] = IF i <= m THEN s[i] ELSE "placeholder"
  <2>1. CASE i <= m
    BY <1>1, <1>3, <2>1 DEF Joins
  <2>2. CASE m < i
    <3>1. i - m \in 1..(n - m) /\ m + (i - m) = i
      BY <1>1, <2>2
    <3>2. w[m + (i - m)] = v[i - m]
      BY <1>2, <1>3, <3>1 DEF Joins
    <3> QED
      BY <1>1, <1>2, <2>2, <3>1, <3>2
  <2> QED
    BY <1>1, <2>1, <2>2
<1> QED
  BY <1>4, <1>5 DEF Padded, w, v

LEMMA BuiltIsLevel ==
  ASSUME NEW b, Sound(b)
  PROVE  Levelled(b) = b
<1>1. b.left \in Seq(Status) /\ b.right \in Seq(Status) /\ Len(b.left) = Len(b.right)
  BY DEF Sound, Shape, WellFormed
<1>2. ASSUME NEW s \in Seq(Status) PROVE Padded(s, Len(s)) = s
  <2> DEFINE w == Padded(s, Len(s))
  <2>1. w \in Seq(Status) /\ Len(w) = Len(s) /\ \A i \in 1..Len(s) : w[i] = s[i]
    BY PaddedAre
  <2> HIDE DEF w
  <2>2. w = s
    BY <2>1
  <2> QED
    BY <2>2 DEF w
<1>3. Most(Len(b.left), Len(b.right)) = Len(b.left)
  BY <1>1 DEF Most
<1>4. b = [left |-> b.left, right |-> b.right, changes |-> b.changes]
  BY DEF Sound, Shape
<1> QED
  BY <1>1, <1>2, <1>3, <1>4 DEF Levelled

LEMMA ValueIsSound ==
  ASSUME NEW row \in ValueRow
  PROVE  Sound(Levelled(Leaf(row)))
<1> DEFINE k == row.kind
           rk == IF k = "type" THEN "added" ELSE k
           n == Most(row.left, row.right)
           x == Lines(k, row.left)
           y == Lines(rk, row.right)
           l == Padded(x, n)
           r == Padded(y, n)
           c == [kind |-> k, start |-> 1, end |-> n]
           cs == IF k = "unchanged" THEN <<>> ELSE <<c>>
<1>1. /\ k \in Kind \cup {"unchanged"} /\ row.left \in Nat /\ row.right \in Nat
      /\ row.left + row.right > 0
  BY DEF ValueRow
<1>2. rk \in Kind \cup {"unchanged"} /\ (k = "unchanged" <=> rk = "unchanged")
  BY <1>1 DEF Kind
<1>3. /\ k \in Status /\ rk \in Status /\ k # "placeholder" /\ rk # "placeholder"
      /\ k # "unchanged" => k \in Kind
  BY <1>1, <1>2 DEF Kind, Status
<1>4. /\ n \in Nat /\ n > 0 /\ row.left <= n /\ row.right <= n
      /\ n = row.left \/ n = row.right
  BY <1>1 DEF Most
<1>5. /\ x \in Seq(Status) /\ Len(x) = row.left /\ \A i \in 1..row.left : x[i] = k
      /\ y \in Seq(Status) /\ Len(y) = row.right /\ \A i \in 1..row.right : y[i] = rk
  <2> HIDE DEF rk
  <2> QED
    BY <1>1, <1>3, LinesAre
<1>6. /\ l \in Seq(Status) /\ Len(l) = n
      /\ \A i \in 1..n : l[i] = IF i <= row.left THEN x[i] ELSE "placeholder"
  <2> HIDE DEF x, n
  <2> QED
    BY <1>4, <1>5, PaddedAre
<1>7. /\ r \in Seq(Status) /\ Len(r) = n
      /\ \A i \in 1..n : r[i] = IF i <= row.right THEN y[i] ELSE "placeholder"
  <2> HIDE DEF y, n
  <2> QED
    BY <1>4, <1>5, PaddedAre
<1>8. Levelled(Leaf(row)) = [left |-> l, right |-> r, changes |-> cs]
  <2>1. Leaf(row) = [left |-> x, right |-> y, changes |-> cs]
    BY DEF Leaf
  <2> HIDE DEF x, y, cs
  <2> QED
    BY <1>5, <2>1 DEF Levelled
<1>9. cs \in Seq(Change)
  <2> HIDE DEF n
  <2>1. k # "unchanged" => c \in Change
    BY <1>3, <1>4 DEF Change
  <2> QED
    BY <2>1
<1> HIDE DEF l, r, x, y, n, rk
<1>10. \A i \in 1..n : /\ l[i] = IF i <= row.left THEN k ELSE "placeholder"
                       /\ r[i] = IF i <= row.right THEN rk ELSE "placeholder"
  BY <1>1, <1>4, <1>5, <1>6, <1>7
<1>11. DOMAIN l = 1..n /\ DOMAIN r = 1..n
  BY <1>6, <1>7
<1>12. Facing(l, r)
  BY <1>1, <1>3, <1>4, <1>10, <1>11 DEF Facing
<1>13. ASSUME NEW i \in 1..n PROVE HasContent(l, i) \/ HasContent(r, i) <=> k # "unchanged"
  BY <1>1, <1>2, <1>3, <1>4, <1>10, <1>11 DEF HasContent
<1>14. InOrder(cs) /\ Ranges(l, r, cs) /\ Covers(l, r, cs)
  <2>1. CASE k = "unchanged"
    BY <1>11, <1>13, <2>1 DEF InOrder, Ranges, Covers
  <2>2. CASE k # "unchanged"
    <3>1. cs = <<c>> /\ DOMAIN cs = {1} /\ cs[1].start = 1 /\ cs[1].end = n
      BY <2>2
    <3> HIDE DEF cs
    <3>2. LinesOf(cs[1]) = 1..n
      BY <3>1 DEF LinesOf
    <3>3. InOrder(cs)
      BY <3>1 DEF InOrder
    <3>4. Ranges(l, r, cs)
      BY <1>4, <1>6, <1>13, <2>2, <3>1, <3>2 DEF Ranges
    <3>5. Covers(l, r, cs)
      BY <1>11, <3>1, <3>2 DEF Covers
    <3> QED
      BY <3>3, <3>4, <3>5
  <2> QED
    BY <2>1, <2>2
<1> HIDE DEF cs
<1> QED
  BY <1>6, <1>7, <1>8, <1>9, <1>12, <1>14 DEF Sound, Shape, WellFormed

LEMMA EmittedIsSound ==
  ASSUME NEW acc, Sound(acc), NEW row \in ValueRow \cup NestedRow({d \in Shape : Sound(d)})
  PROVE  Sound(Emit(acc, Body(row)))
<1>1. Emit(acc, Body(row)) = Below(acc, Levelled(Body(row)))
  BY DEF Emit, Below, Levelled
<1>2. Sound(Levelled(Body(row)))
  <2>1. CASE row \in ValueRow
    <3>1. Body(row) = Leaf(row)
      BY <2>1 DEF Body, ValueRow, Kind
    <3> QED
      BY <2>1, <3>1, ValueIsSound
  <2>2. CASE row \in NestedRow({d \in Shape : Sound(d)})
    <3>1. Body(row) = row.diff /\ Sound(row.diff)
      BY <2>2 DEF Body, NestedRow
    <3> QED
      BY <3>1, BuiltIsLevel
  <2> QED
    BY <2>1, <2>2
<1> QED
  BY <1>1, <1>2, BelowIsSound

(* Nested containers, however deep, are built of sound diffs; so is what   *)
(* is built of them.                                                       *)
LEMMA BuildIsSound == ClosedUnderBuild({d \in Shape : Sound(d)})
<1> DEFINE S == {d \in Shape : Sound(d)}
<1> SUFFICES ASSUME NEW rows \in Seq(ValueRow \cup NestedRow(S)) PROVE Build(rows) \in S
  BY DEF ClosedUnderBuild
<1> DEFINE N == Len(rows)
           built == CHOOSE f : f = [k \in 0..N |->
                      IF k = 0 THEN Bracket ELSE Emit(f[k - 1], Body(rows[k]))]
           H == [q \in S \X (1..N) |-> Emit(q[1], Body(rows[q[2]]))]
<1>1. N \in Nat
  OBVIOUS
<1>2. \A d : d \in S <=> Sound(d)
  BY DEF Sound
<1>3. Bracket \in S
  BY <1>2, BracketIsSound
<1>4. ASSUME NEW acc \in S, NEW k \in 1..N PROVE Emit(acc, Body(rows[k])) \in S
  <2>1. rows[k] \in ValueRow \cup NestedRow(S)
    OBVIOUS
  <2>2. Sound(acc)
    BY <1>2
  <2> QED
    BY <1>2, <2>1, <2>2, EmittedIsSound
<1>5. H \in [S \X (1..N) -> S]
  <2> HIDE DEF S, N
  <2> QED
    BY <1>4
<1>6. PICK f : Steps(f, N, S, Bracket, H)
  <2> HIDE DEF S, N, H
  <2> QED
    BY <1>1, <1>3, <1>5, StepByStep
<1>7. f \in [0..N -> S] /\ f[0] = Bracket /\ \A k \in 1..N : f[k] = Emit(f[k - 1], Body(rows[k]))
  <2>1. f \in [0..N -> S] /\ f[0] = Bracket /\ \A k \in 1..N : f[k] = H[<<f[k - 1], k>>]
    BY <1>6 DEF Steps
  <2>2. ASSUME NEW k \in 1..N PROVE H[<<f[k - 1], k>>] = Emit(f[k - 1], Body(rows[k]))
    <3>1. k - 1 \in 0..N
      OBVIOUS
    <3>2. <<f[k - 1], k>> \in S \X (1..N)
      <4> HIDE DEF S, N, H
      <4> QED
        BY <2>1, <3>1
    <3> HIDE DEF S, N
    <3> QED
      BY <3>2
  <2> HIDE DEF S, N, H
  <2> QED
    BY <2>1, <2>2
<1>8. f = [k \in 0..N |-> IF k = 0 THEN Bracket ELSE Emit(f[k - 1], Body(rows[k]))]
  <2>1. ASSUME NEW k \in 0..N PROVE f[k] = IF k = 0 THEN Bracket ELSE Emit(f[k - 1], Body(rows[k]))
    <3> HIDE DEF S
    <3> QED
      BY <1>7
  <2>2. f = [k \in 0..N |-> f[k]]
    <3> HIDE DEF S
    <3> QED
      BY <1>7
  <2> HIDE DEF S, N
  <2> QED
    BY <2>1, <2>2
<1>9. built = [k \in 0..N |-> IF k = 0 THEN Bracket ELSE Emit(built[k - 1], Body(rows[k]))]
  <2> HIDE DEF N
  <2> QED
    BY <1>8
<1> HIDE DEF built, H
<1>10. 0..N \subseteq {k \in 0..N : built[k] \in S}
  <2> DEFINE T == {k \in 0..N : built[k] \in S}
  <2>1. 0 \in T
    <3>1. 0 \in 0..N
      BY <1>1
    <3>2. built[0] = Bracket
      <4> HIDE DEF N
      <4> QED
        BY <1>9, <3>1
    <3> QED
      BY <1>3, <3>1, <3>2
  <2>2. ASSUME NEW k \in 0..(N - 1), k \in T PROVE k + 1 \in T
    <3>1. k + 1 \in 1..N /\ k + 1 \in 0..N /\ (k + 1) - 1 = k /\ k + 1 # 0
      BY <1>1
    <3>2. built[k + 1] = Emit(built[k], Body(rows[k + 1]))
      <4> HIDE DEF N
      <4> QED
        BY <1>9, <3>1
    <3>3. built[k] \in S
      BY <2>2
    <3>4. built[k + 1] \in S
      <4> HIDE DEF S, N
      <4> QED
        BY <1>4, <3>1, <3>2, <3>3
    <3> QED
      BY <3>1, <3>4
  <2> HIDE DEF T
  <2> QED
    BY <1>1, <2>1, <2>2, UpTo DEF T
<1> DEFINE all == built[N]
<1>11. Sound(all)
  <2>1. N \in 0..N
    BY <1>1
  <2>2. all \in S
    BY <1>10, <2>1
  <2> QED
    BY <1>2, <2>2
<1>12. Build(rows) = Below(all, Bracket)
  <2>1. Build(rows) = [left |-> Append(all.left, "unchanged"), right |-> Append(all.right, "unchanged"),
                       changes |-> all.changes]
    BY DEF Build, built
  <2> HIDE DEF all
  <2>2. all.left \in Seq(Status) /\ all.right \in Seq(Status) /\ all.changes \in Seq(Change)
    BY <1>11 DEF Sound, Shape
  <2>3. /\ all.left \o <<"unchanged">> = Append(all.left, "unchanged")
        /\ all.right \o <<"unchanged">> = Append(all.right, "unchanged")
    BY <2>2
  <2>4. Shifted(<<>>, Len(all.left)) = <<>>
    BY DEF Shifted
  <2>5. all.changes \o <<>> = all.changes
    BY <2>2
  <2> QED
    BY <2>1, <2>3, <2>4, <2>5 DEF Below, Bracket
<1>13. Sound(Build(rows))
  <2> HIDE DEF all
  <2> QED
    BY <1>11, <1>12, BelowIsSound, BracketIsSound
<1> QED
  BY <1>2, <1>13

LEMMA BuiltIsWellFormed ==
  ASSUME FromBuildRows, NEW d \in Diff
  PROVE  WellFormed(d.left, d.right, d.changes)
BY BuildIsSound DEF FromBuildRows, BuiltByRows, Sound
-----------------------------------------------------------------------------
(* The selection and the folds.                                            *)

LEMMA NearestInList ==
  ASSUME NEW cs \in Seq(Change), NEW anchor \in Nat
  PROVE  IF cs = <<>> THEN Nearest(cs, anchor) = None ELSE Nearest(cs, anchor) \in 1..Len(cs)
<1>1. CASE cs = <<>>
  BY <1>1 DEF Nearest
<1>2. CASE cs # <<>>
  <2> DEFINE dist(i) == Distance(cs[i], anchor)
  <2> DEFINE D == {dist(i) : i \in DOMAIN cs}
  <2>1. \A i \in DOMAIN cs : dist(i) \in Nat
    <3> SUFFICES ASSUME NEW i \in DOMAIN cs PROVE dist(i) \in Nat
      OBVIOUS
    <3>1. cs[i] \in Change
      OBVIOUS
    <3> QED
      BY <3>1 DEF Distance, Change
  <2>2. D \subseteq Nat /\ D # {}
    BY <1>2, <2>1
  <2> HIDE DEF D
  <2>3. PICK d \in D : \A e \in D : d <= e
    BY <2>2, LeastNumber
  <2> DEFINE T == {i \in DOMAIN cs : dist(i) = d}
  <2>4. T \subseteq Nat /\ T # {}
    BY <2>3 DEF D
  <2>5. PICK i \in T : \A j \in T : i <= j
    <3> HIDE DEF T
    <3> QED BY <2>4, LeastNumber
  <2>6. \A j \in DOMAIN cs : dist(i) <= dist(j)
    BY <2>3, <2>5 DEF D
  <2>7. \A j \in 1..(i - 1) : dist(j) # dist(i)
    BY <2>5
  <2>8. \E k \in DOMAIN cs :
          /\ \A j \in DOMAIN cs : Distance(cs[k], anchor) <= Distance(cs[j], anchor)
          /\ \A j \in 1..(k - 1) : Distance(cs[j], anchor) # Distance(cs[k], anchor)
    BY <2>5, <2>6, <2>7
  <2>9. Nearest(cs, anchor) \in DOMAIN cs
    BY <1>2, <2>8 DEF Nearest
  <2> QED
    BY <1>2, <2>9
<1> QED
  BY <1>1, <1>2

LEMMA SelectInList ==
  ASSUME TypeOK, NEW k \in Int, Select(k)
  PROVE  selected' \in 1..Len(changes)
<1>1. Len(changes) \in Nat \ {0}
  BY DEF TypeOK, Select
<1>2. (k - 1) % Len(changes) \in 0..(Len(changes) - 1)
  BY <1>1
<1> QED
  BY <1>1, <1>2 DEF Select

LEMMA FoldsAreSpans ==
  ASSUME NEW f \in AllFolds
  PROVE  f \in Span /\ f.start >= 1 /\ f.start <= f.end
<1>1. PICK r \in Runs : f = Fold(r)
  BY DEF AllFolds
<1>2. LineCount \in Nat
  BY DEF LineCount
<1>3. r \in [start : 1..LineCount, end : 1..LineCount]
  BY DEF Runs
<1>4. f.end - f.start + 1 >= MinLines
  BY DEF AllFolds
<1>5. f.start \in Int /\ f.end \in Int /\ f.start >= 1
  BY <1>1, <1>2, <1>3, ViewAssumption DEF Fold
<1>6. f = [start |-> f.start, end |-> f.end]
  BY <1>1 DEF Fold
<1> QED
  BY <1>4, <1>5, <1>6, ViewAssumption DEF Span

-----------------------------------------------------------------------------
(* Types.                                                                  *)

LEMMA ShowTypes ==
  ASSUME TypeOK, NEW built \in Diff, NEW anchor \in Nat, Show(built, anchor)
  PROVE  TypeOK'
<1>1. built \in [left : Seq(Status), right : Seq(Status), changes : Seq(Change)]
  BY ViewAssumption
<1>2. selected' \in 1..Len(built.changes) \cup {None}
  BY <1>1, NearestInList DEF Show
<1>3. opened' \subseteq Span /\ fresh' \in BOOLEAN
  BY DEF Show, LinesChange
<1> QED
  BY <1>1, <1>2, <1>3 DEF TypeOK, Show

LEMMA NextTypes == TypeOK /\ [Next]_vars => TypeOK'
<1> SUFFICES ASSUME TypeOK, [Next]_vars PROVE TypeOK'
  OBVIOUS
<1>1. ASSUME NEW built \in Diff, Compare(built) PROVE TypeOK'
  BY <1>1, ShowTypes DEF Compare
<1>2. ASSUME NEW built \in Diff, Copy(built) PROVE TypeOK'
  <2>1. PICK k \in DOMAIN changes : Show(built, changes[k].start)
    BY <1>2 DEF Copy
  <2>2. changes[k].start \in Nat
    <3>1. changes[k] \in Change
      BY DEF TypeOK
    <3> QED
      BY <3>1 DEF Change
  <2> QED
    BY <2>1, <2>2, ShowTypes
<1>3. ASSUME NEW k \in Int, Select(k) PROVE TypeOK'
  BY <1>3, SelectInList DEF TypeOK, Select
<1>4. CASE Clear
  <2>1. opened' \subseteq Span /\ fresh' \in BOOLEAN
    BY <1>4 DEF Clear, LinesChange
  <2> QED
    BY <1>4, <2>1 DEF TypeOK, Clear
<1>5. CASE GoNext
  BY <1>3, <1>5 DEF TypeOK, GoNext
<1>6. CASE GoPrev
  BY <1>3, <1>6 DEF TypeOK, GoPrev
<1>7. ASSUME NEW i \in DOMAIN changes, Pick(i) PROVE TypeOK'
  BY <1>3, <1>7 DEF TypeOK, Pick
<1>8. ASSUME NEW f \in markers, ExpandFold(f) PROVE TypeOK'
  BY <1>8 DEF TypeOK, ExpandFold
<1>9. CASE SetEnabled
  BY <1>9 DEF TypeOK, SetEnabled
<1>10. CASE RenderLines
  BY <1>10, FoldsAreSpans DEF TypeOK, RenderLines
<1>11. CASE Forget
  BY <1>11 DEF TypeOK, Forget
<1>12. CASE UNCHANGED vars
  BY <1>12 DEF TypeOK, vars
<1> QED
  BY <1>1, <1>2, <1>4, <1>5, <1>6, <1>7, <1>8, <1>9, <1>10, <1>11, <1>12 DEF Next

LEMMA InitTypes == Init => TypeOK
<1> SUFFICES ASSUME Init PROVE TypeOK
  OBVIOUS
<1>1. left \in Seq(Status) /\ right \in Seq(Status) /\ changes \in Seq(Change)
  BY DEF Init
<1>2. expanded \subseteq Span /\ coming \subseteq Span /\ markers \subseteq Span /\ opened \subseteq Span
  BY DEF Init
<1>3. enabled \in BOOLEAN /\ fresh \in BOOLEAN /\ due \in BOOLEAN
  BY DEF Init
<1> QED
  BY <1>1, <1>2, <1>3 DEF Init, TypeOK

(* Whatever is shown, the selection is one of the listed changes or none,  *)
(* however it wraps around (selectChange, nearestChangeIndex).             *)
THEOREM TypeCorrect == Spec => []TypeOK
BY InitTypes, NextTypes, PTL DEF Spec
-----------------------------------------------------------------------------
(* Folds.                                                                  *)

(* The markers that are there once the effects have run are those of the   *)
(* lines rendered last, and of no earlier diff.                            *)
Latest == IF due THEN coming ELSE markers
LatestRendered == ~fresh => Latest = AllFolds
ExpandedInv ==
  /\ LatestRendered
  /\ ~fresh /\ ~due => expanded \subseteq AllFolds \cap opened

LEMMA FoldsKept == UNCHANGED <<left, right>> => AllFolds' = AllFolds
BY DEF AllFolds, Runs, Fold, IsChangeRow, LineCount, Content

LEMMA NextExpanded == ExpandedInv /\ [Next]_vars => ExpandedInv'
<1> USE DEF ExpandedInv, LatestRendered, Latest
<1> SUFFICES ASSUME ExpandedInv, [Next]_vars PROVE ExpandedInv'
  OBVIOUS
<1>1. ASSUME NEW built, NEW anchor, Show(built, anchor) PROVE ExpandedInv'
  BY <1>1 DEF Show, LinesChange
<1>2. CASE Clear
  BY <1>2 DEF Clear, LinesChange
<1>3. ASSUME UNCHANGED <<left, right, expanded, fresh, due, coming, markers, opened>> PROVE ExpandedInv'
  BY <1>3, FoldsKept
<1>4. CASE \E f \in markers : ExpandFold(f)
  BY <1>4, FoldsKept DEF ExpandFold
<1>5. CASE RenderLines
  BY <1>5, FoldsKept DEF RenderLines
<1>6. CASE Forget
  BY <1>6, FoldsKept DEF Forget
<1>7. CASE \E built \in Diff : Compare(built) \/ Copy(built)
  BY <1>1, <1>7 DEF Compare, Copy
<1>8. CASE GoNext \/ GoPrev \/ SetEnabled \/ (\E i \in DOMAIN changes : Pick(i)) \/ UNCHANGED vars
  BY <1>3, <1>8 DEF GoNext, GoPrev, Pick, Select, SetEnabled, vars
<1> QED
  BY <1>2, <1>4, <1>5, <1>6, <1>7, <1>8 DEF Next

(* Nothing is folded before the first comparison.                          *)
LEMMA NothingFolded ==
  ASSUME Init
  PROVE  AllFolds = {} /\ VisibleFolds = {} /\ ExpandedInv
<1>1. 1..LineCount = {}
  BY DEF Init, LineCount
<1>2. AllFolds = {}
  BY <1>1 DEF AllFolds
<1> QED
  BY <1>2 DEF Init, VisibleFolds, ExpandedInv, LatestRendered, Latest

(* However comparisons, renders and clicks on markers follow each other,   *)
(* nothing that was expanded in one diff is open in another once the       *)
(* effect of useUnchangedCollapse.ts 9-11 has run.                         *)
THEOREM ExpandedBelong == Spec => []ExpandedAreShown
<1>1. Init => ExpandedInv
  BY NothingFolded
<1>2. ExpandedInv => ExpandedAreShown
  BY DEF ExpandedInv, ExpandedAreShown
<1> QED
  BY <1>1, <1>2, NextExpanded, PTL DEF Spec

(* The diff shown is one that buildRows returned, or none.                 *)
ShownIsWellFormed == WellFormed(left, right, changes)

LEMMA NextWellFormed ==
  ASSUME FromBuildRows, ShownIsWellFormed, [Next]_vars
  PROVE  ShownIsWellFormed'
<1>1. ASSUME UNCHANGED <<left, right, changes>> PROVE ShownIsWellFormed'
  BY <1>1 DEF ShownIsWellFormed
<1>2. ASSUME NEW built \in Diff, Compare(built) \/ Copy(built) PROVE ShownIsWellFormed'
  <2>1. left' = built.left /\ right' = built.right /\ changes' = built.changes
    BY <1>2 DEF Compare, Copy, Show
  <2> QED
    BY <2>1, BuiltIsWellFormed DEF ShownIsWellFormed
<1>3. CASE Clear
  BY <1>3 DEF Clear, ShownIsWellFormed, WellFormed, Facing, InOrder, Ranges, Covers
<1> QED
  BY <1>1, <1>2, <1>3 DEF Next, GoNext, GoPrev, Pick, Select, ExpandFold, SetEnabled,
     RenderLines, Forget, vars

(* Between a fold and a change lie at least Context lines: a change is a   *)
(* range of highlighted lines, so it ends before the run of the fold       *)
(* begins, or begins after its end.                                        *)
LEMMA FoldsKeepApart ==
  ASSUME TypeOK, ShownIsWellFormed, NEW f \in AllFolds, NEW k \in DOMAIN changes
  PROVE  LinesOf(f) \cap ((changes[k].start - Context)..(changes[k].end + Context)) = {}
<1> DEFINE c == changes[k]
<1>1. PICK r \in Runs : f = Fold(r)
  BY DEF AllFolds
<1>2. LineCount = Len(left) /\ Len(left) \in Nat
  BY DEF ShownIsWellFormed, WellFormed, LineCount, TypeOK
<1>3. r.start \in 1..LineCount /\ r.end \in 1..LineCount /\ r.start <= r.end
  BY DEF Runs
<1>4. c.start \in Nat /\ c.end \in Nat
  <2>1. c \in Change
    BY DEF TypeOK
  <2> QED
    BY <2>1 DEF Change
<1>5. 1 <= c.start /\ c.start <= c.end /\ c.end <= LineCount
  BY <1>2 DEF ShownIsWellFormed, WellFormed, Ranges
<1>6. \A i \in c.start..c.end : IsChangeRow(i)
  BY DEF ShownIsWellFormed, WellFormed, Ranges, HasContent, IsChangeRow, Content, LinesOf
<1>7. \A i \in r.start..r.end : ~IsChangeRow(i)
  BY DEF Runs
<1> HIDE DEF c
<1>8. c.end < r.start \/ r.end < c.start
  <2> SUFFICES ASSUME r.start <= c.end, c.start <= r.end PROVE FALSE
    BY <1>2, <1>3, <1>4
  <2>1. CASE r.start <= c.start
    BY <1>2, <1>3, <1>4, <1>5, <1>6, <1>7, <2>1
  <2>2. CASE c.start <= r.start
    BY <1>2, <1>3, <1>4, <1>5, <1>6, <1>7, <2>2
  <2> QED
    BY <1>2, <1>3, <1>4, <2>1, <2>2
<1>9. CASE c.end < r.start
  <2>1. f.start = r.start + Context
    BY <1>1, <1>2, <1>3, <1>4, <1>5, <1>9 DEF Fold
  <2> QED
    BY <1>2, <1>3, <1>4, <1>9, <2>1, FoldsAreSpans, ViewAssumption DEF LinesOf, Span, c
<1>10. CASE r.end < c.start
  <2>1. f.end = r.end - Context
    BY <1>1, <1>2, <1>3, <1>4, <1>5, <1>10 DEF Fold
  <2> QED
    BY <1>2, <1>3, <1>4, <1>10, <2>1, FoldsAreSpans, ViewAssumption DEF LinesOf, Span, c
<1> QED
  BY <1>8, <1>9, <1>10

LEMMA StaysVisible == TypeOK /\ ShownIsWellFormed => ChangesStayVisible
BY FoldsKeepApart DEF ChangesStayVisible, VisibleFolds

(* No fold hides a change or its context, whatever buildRows returned, the *)
(* context and the least length of a fold.                                 *)
THEOREM FoldsSpareChanges ==
  ASSUME FromBuildRows
  PROVE  Spec => []ChangesStayVisible
<1>1. Init => ShownIsWellFormed
  BY DEF Init, ShownIsWellFormed, WellFormed, Facing, InOrder, Ranges, Covers
<1>2. ShownIsWellFormed /\ [Next]_vars => ShownIsWellFormed'
  BY NextWellFormed
<1> QED
  BY <1>1, <1>2, StaysVisible, TypeCorrect, PTL DEF Spec
LEMMA LinedUp == ShownIsWellFormed => SidesLineUp
BY DEF ShownIsWellFormed, WellFormed, Facing, SidesLineUp

(* Both sides of the diff shown have as many lines, and no two missing     *)
(* lines face each other: the promise of the comment on buildRows.         *)
THEOREM SidesAreLinedUp ==
  ASSUME FromBuildRows
  PROVE  Spec => []SidesLineUp
<1>1. Init => ShownIsWellFormed
  BY DEF Init, ShownIsWellFormed, WellFormed, Facing, InOrder, Ranges, Covers
<1>2. ShownIsWellFormed /\ [Next]_vars => ShownIsWellFormed'
  BY NextWellFormed
<1> QED
  BY <1>1, <1>2, LinedUp, PTL DEF Spec

LEMMA RowsCovered == TypeOK /\ ShownIsWellFormed => ChangesCoverRows
<1> SUFFICES ASSUME TypeOK, ShownIsWellFormed PROVE ChangesCoverRows
  OBVIOUS
<1> DEFINE ranges == UNION {LinesOf(changes[k]) : k \in DOMAIN changes}
           rows == {i \in 1..LineCount : IsChangeRow(i)}
<1>1. /\ LineCount = Len(left) /\ DOMAIN left = 1..Len(left) /\ DOMAIN changes = 1..Len(changes)
      /\ Len(left) \in Nat /\ Len(changes) \in Nat
  BY DEF ShownIsWellFormed, WellFormed, LineCount, TypeOK
<1>2. InOrder(changes) /\ Ranges(left, right, changes) /\ Covers(left, right, changes)
  BY DEF ShownIsWellFormed, WellFormed
<1>3. \A i : IsChangeRow(i) <=> HasContent(left, i) \/ HasContent(right, i)
  BY DEF IsChangeRow, Content, HasContent
<1>4. ASSUME NEW k \in DOMAIN changes
      PROVE  /\ changes[k].start <= changes[k].end
             /\ k > 1 => changes[k - 1].end < changes[k].start
  <2>1. changes[k].start <= changes[k].end
    BY <1>2 DEF Ranges
  <2>2. ASSUME k > 1 PROVE changes[k - 1].end < changes[k].start
    <3>1. k - 1 \in DOMAIN changes /\ k - 1 < k
      BY <1>1, <2>2
    <3> QED
      BY <1>2, <3>1 DEF InOrder
  <2> QED
    BY <2>1, <2>2
<1>5. ASSUME NEW k \in DOMAIN changes PROVE LinesOf(changes[k]) \subseteq rows
  <2>1. changes[k].start \in Nat /\ changes[k].end \in Nat
    <3>1. changes[k] \in Change
      BY DEF TypeOK
    <3> QED
      BY <3>1 DEF Change
  <2>2. /\ 1 <= changes[k].start /\ changes[k].end <= Len(left)
        /\ \A i \in LinesOf(changes[k]) : HasContent(left, i) \/ HasContent(right, i)
    BY <1>2 DEF Ranges
  <2>3. LinesOf(changes[k]) \subseteq 1..Len(left)
    BY <1>1, <2>1, <2>2 DEF LinesOf
  <2> QED
    BY <1>1, <1>3, <2>2, <2>3
<1>6. rows \subseteq ranges
  BY <1>1, <1>2, <1>3 DEF Covers
<1>7. ranges = rows
  BY <1>5, <1>6
<1> QED
  BY <1>4, <1>7 DEF ChangesCoverRows

(* The ranges of the changes are those of the highlighted lines, in order  *)
(* and without overlap, at any depth of nesting.                           *)
THEOREM ChangesAreCovered ==
  ASSUME FromBuildRows
  PROVE  Spec => []ChangesCoverRows
<1>1. Init => ShownIsWellFormed
  BY DEF Init, ShownIsWellFormed, WellFormed, Facing, InOrder, Ranges, Covers
<1>2. ShownIsWellFormed /\ [Next]_vars => ShownIsWellFormed'
  BY NextWellFormed
<1> QED
  BY <1>1, <1>2, RowsCovered, TypeCorrect, PTL DEF Spec
-----------------------------------------------------------------------------
(* The editors.  An editor keeps the decorations its extensions ask for in *)
(* its document.                                                           *)

Folds == {f \in Span : f.start >= 1}
Editor ==
  [doc : Nat, lines : Seq(Status), hunk : SUBSET Nat, folds : SUBSET Folds, arrows : Seq(Change),
   marked : SUBSET Nat, current : SUBSET Nat, drawn : SUBSET Folds, clears : BOOLEAN]
UpToDate(e) ==
  /\ e.marked = Marked(e.lines, e.doc)
  /\ e.current = Current(e.lines, e.hunk, e.doc)
  /\ e.drawn = Drawn(e.folds, e.doc)

PropsTyped(p) ==
  p \in [texts : [Side -> Nat], lines : [Side -> Seq(Status)], hunk : SUBSET Nat,
         folds : SUBSET Folds, arrows : Seq(Change)]

EditorsTyped ==
  /\ texts \in [Side -> Nat]
  /\ PropsTyped(rendered)
  /\ effect \in 0..5 /\ retext \subseteq Side
  /\ DOMAIN editors = Side
  /\ \A side \in Side : editors[side] \in Editor /\ UpToDate(editors[side])

LEMMA PropsAreTyped ==
  ASSUME TypeOK, texts \in [Side -> Nat]
  PROVE  PropsTyped(Props)
<1>1. VisibleFolds \subseteq Folds
  BY FoldsAreSpans DEF VisibleFolds, Folds
<1>2. CurrentHunk \subseteq Nat
  <2>1. CASE selected = None
    BY <2>1 DEF CurrentHunk
  <2>2. CASE selected # None
    <3>1. changes[selected] \in Change
      BY <2>2 DEF TypeOK
    <3> QED
      BY <2>2, <3>1 DEF CurrentHunk, LinesOf, Change
  <2> QED
    BY <2>1, <2>2
<1>3. [side \in Side |-> IF side = "left" THEN left ELSE right] \in [Side -> Seq(Status)]
  BY DEF TypeOK
<1>4. changes \in Seq(Change)
  BY DEF TypeOK
<1> QED
  BY <1>1, <1>2, <1>3, <1>4 DEF Props, PropsTyped

(* Decorating an editor anew touches nothing else.                         *)
Same(d, e) ==
  d.doc = e.doc /\ d.lines = e.lines /\ d.hunk = e.hunk /\ d.folds = e.folds /\ d.arrows = e.arrows

LEMMA DecoratedIsUpToDate ==
  ASSUME NEW e \in Editor
  PROVE  Decorated(e) \in Editor /\ UpToDate(Decorated(e)) /\ Same(Decorated(e), e)
<1> DEFINE d == Decorated(e)
           m == Marked(e.lines, e.doc)
           c == Current(e.lines, e.hunk, e.doc)
           w == Drawn(e.folds, e.doc)
<1>1. e.lines \in Seq(Status) /\ e.folds \subseteq Folds /\ e.hunk \subseteq Nat
  BY DEF Editor
<1>2. m \subseteq Nat /\ c \subseteq Nat /\ w \subseteq Folds
  BY <1>1 DEF Marked, Current, Drawn
<1>3. d = [e EXCEPT !.marked = m, !.current = c, !.drawn = w]
  BY DEF Decorated
<1> HIDE DEF d, m, c, w
<1>4. d \in Editor /\ Same(d, e) /\ d.marked = m /\ d.current = c /\ d.drawn = w
  BY <1>2, <1>3 DEF Editor, Same
<1> QED
  BY <1>4 DEF UpToDate, Same, d, m, c, w

LEMMA EditedIsUpToDate ==
  ASSUME NEW e \in Editor, NEW n \in Nat
  PROVE  LET d == Edited(e, n)
         IN  /\ d \in Editor /\ UpToDate(d) /\ d.doc = n
             /\ d.lines = e.lines /\ d.hunk = e.hunk /\ d.folds = e.folds /\ d.arrows = e.arrows
<1> DEFINE b == [e EXCEPT !.doc = n]
<1>1. /\ b \in Editor /\ b.doc = n
      /\ b.lines = e.lines /\ b.hunk = e.hunk /\ b.folds = e.folds /\ b.arrows = e.arrows
  BY DEF Editor
<1>2. Edited(e, n) = Decorated(b)
  BY DEF Edited
<1> HIDE DEF b
<1> QED
  BY <1>1, <1>2, DecoratedIsUpToDate DEF Same

LEMMA ReconfiguredIsUpToDate ==
  ASSUME NEW e \in Editor, NEW p, PropsTyped(p), NEW side \in Side
  PROVE  LET d == Reconfigured(e, p, side)
         IN  /\ d \in Editor /\ UpToDate(d) /\ d.doc = e.doc
             /\ d.lines = p.lines[side] /\ d.hunk = p.hunk /\ d.folds = p.folds /\ d.arrows = p.arrows
<1> DEFINE b == [e EXCEPT !.lines = p.lines[side], !.hunk = p.hunk, !.arrows = p.arrows,
                          !.folds = p.folds]
<1>1. p.lines[side] \in Seq(Status) /\ p.hunk \subseteq Nat /\ p.folds \subseteq Folds
      /\ p.arrows \in Seq(Change)
  BY DEF PropsTyped
<1>2. /\ b \in Editor /\ b.doc = e.doc
      /\ b.lines = p.lines[side] /\ b.hunk = p.hunk /\ b.folds = p.folds /\ b.arrows = p.arrows
  BY <1>1 DEF Editor
<1>3. Reconfigured(e, p, side) = Decorated(b)
  BY DEF Reconfigured
<1> HIDE DEF b
<1> QED
  BY <1>2, <1>3, DecoratedIsUpToDate DEF Same

(* What a step may do to an editor: nothing, replace its document, or have *)
(* it decorated with the props of the last render.                         *)
Redecorated(side) ==
  LET d == editors'[side]  e == editors[side]
  IN  /\ d \in Editor /\ UpToDate(d)
      /\ \/ d.lines = e.lines /\ d.hunk = e.hunk /\ d.folds = e.folds /\ d.arrows = e.arrows
         \/ /\ d.lines = rendered.lines[side] /\ d.hunk = rendered.hunk
            /\ d.folds = rendered.folds /\ d.arrows = rendered.arrows

LEMMA TypedDocument ==
  ASSUME EditorsTyped, NEW side \in Side, NEW n \in Nat,
         editors' = [editors EXCEPT ![side] = Edited(editors[side], n)]
  PROVE  /\ DOMAIN editors' = Side /\ editors'[side].doc = n
         /\ \A other \in Side : Redecorated(other) /\ (other # side => editors'[other] = editors[other])
<1>1. editors[side] \in Editor
  BY DEF EditorsTyped
<1>2. editors'[side] = Edited(editors[side], n) /\ DOMAIN editors' = Side
  BY DEF EditorsTyped
<1>3. editors'[side].doc = n /\ Redecorated(side)
  BY <1>1, <1>2, EditedIsUpToDate DEF Redecorated
<1>4. \A other \in Side : other # side => editors'[other] = editors[other]
  BY DEF EditorsTyped
<1> QED
  BY <1>2, <1>3, <1>4 DEF Redecorated, EditorsTyped

LEMMA RedrawnEditors ==
  ASSUME EditorsTyped, NEW side \in Side, Redraw(side)
  PROVE  /\ DOMAIN editors' = Side
         /\ \A other \in Side : Redecorated(other) /\ (other # side => editors'[other] = editors[other])
         /\ editors'[side].doc = IF side \in retext THEN rendered.texts[side] ELSE editors[side].doc
         /\ editors'[side].lines = editors[side].lines /\ editors'[side].hunk = editors[side].hunk
         /\ editors'[side].folds = editors[side].folds /\ editors'[side].arrows = editors[side].arrows
<1> DEFINE clears == rendered.lines["left"] # <<>>
           e == [editors[side] EXCEPT !.clears = clears]
           d == IF side \in retext THEN Edited(e, rendered.texts[side]) ELSE e
<1>1. editors[side] \in Editor /\ UpToDate(editors[side])
  BY DEF EditorsTyped
<1>2. clears \in BOOLEAN
  OBVIOUS
<1>3. e \in Editor
  <2> HIDE DEF clears
  <2> QED
    BY <1>1, <1>2 DEF Editor
<1>4. /\ Same(e, editors[side])
      /\ e.marked = editors[side].marked /\ e.current = editors[side].current
      /\ e.drawn = editors[side].drawn
  <2> HIDE DEF clears
  <2> QED
    BY <1>1 DEF Editor, Same
<1>5. UpToDate(e)
  <2> HIDE DEF e
  <2> QED
    BY <1>1, <1>4 DEF UpToDate, Same
<1>6. rendered.texts[side] \in Nat
  BY DEF EditorsTyped, PropsTyped
<1>7. editors' = [editors EXCEPT ![side] = d]
  BY DEF Redraw
<1> HIDE DEF e
<1>8. /\ d \in Editor /\ UpToDate(d)
      /\ d.lines = e.lines /\ d.hunk = e.hunk /\ d.folds = e.folds /\ d.arrows = e.arrows
      /\ d.doc = IF side \in retext THEN rendered.texts[side] ELSE e.doc
  <2>1. CASE side \in retext
    BY <1>3, <1>6, <2>1, EditedIsUpToDate
  <2>2. CASE side \notin retext
    BY <1>3, <1>5, <2>2
  <2> QED
    BY <2>1, <2>2
<1> HIDE DEF d
<1>9. DOMAIN editors' = Side /\ editors'[side] = d
  BY <1>7 DEF EditorsTyped
<1>10. \A other \in Side : other # side => editors'[other] = editors[other]
  BY <1>7 DEF EditorsTyped
<1>11. Redecorated(side)
  BY <1>4, <1>8, <1>9 DEF Redecorated, Same
<1>12. \A other \in Side : other # side => Redecorated(other)
  BY <1>10 DEF Redecorated, EditorsTyped
<1> QED
  BY <1>4, <1>8, <1>9, <1>10, <1>11, <1>12 DEF Same

HasProps(side) ==
  LET e == editors[side]
  IN  /\ e.lines = rendered.lines[side] /\ e.hunk = rendered.hunk
      /\ e.folds = rendered.folds /\ e.arrows = rendered.arrows

LEMMA ReconfiguredEditors ==
  ASSUME EditorsTyped, NEW side \in Side, Reconfigure(side)
  PROVE  /\ DOMAIN editors' = Side /\ HasProps(side)' /\ editors'[side].doc = editors[side].doc
         /\ \A other \in Side : Redecorated(other) /\ (other # side => editors'[other] = editors[other])
<1>1. editors[side] \in Editor /\ PropsTyped(rendered)
  BY DEF EditorsTyped
<1>2. /\ DOMAIN editors' = Side
      /\ editors'[side] = Reconfigured(editors[side], rendered, side) /\ rendered' = rendered
  BY DEF Reconfigure, EditorsTyped
<1>3. HasProps(side)' /\ Redecorated(side) /\ editors'[side].doc = editors[side].doc
  BY <1>1, <1>2, ReconfiguredIsUpToDate DEF HasProps, Redecorated
<1>4. \A other \in Side : other # side => editors'[other] = editors[other]
  BY DEF Reconfigure, EditorsTyped
<1>5. \A other \in Side : other # side => Redecorated(other)
  BY <1>4 DEF Redecorated, EditorsTyped
<1> QED
  BY <1>2, <1>3, <1>4, <1>5

(* The steps of the page and of a click leave the editors alone.           *)
PageStep ==
  \/ ShowDiff
  \/ ClearDiff
  \/ Move
  \/ \E docs \in [Side -> DocLines] : Load(docs)
  \/ \E side \in Side : \E f \in editors[side].drawn : ClickMarker(side, f)
  \/ UNCHANGED viewVars

LEMMA PageStepsAre ==
  ASSUME PageStep
  PROVE  UNCHANGED viewOnly
BY DEF PageStep, ShowDiff, ClearDiff, Move, Load, ClickMarker, viewVars, viewOnly

LEMMA EditorSteps ==
  ASSUME [EditorNext]_viewVars
  PROVE  \/ PageStep
         \/ \E side \in Side, n \in DocLines : Type(side, n)
         \/ Render
         \/ \E side \in Side : Redraw(side) \/ Reconfigure(side)
         \/ PageEffects
BY DEF EditorNext, PageStep

LEMMA EditorsRedecorated ==
  ASSUME EditorsTyped, [EditorNext]_viewVars
  PROVE  DOMAIN editors' = Side /\ \A side \in Side : Redecorated(side)
<1>1. ASSUME UNCHANGED editors PROVE DOMAIN editors' = Side /\ \A side \in Side : Redecorated(side)
  BY <1>1 DEF EditorsTyped, Redecorated
<1>2. CASE PageStep \/ Render \/ PageEffects
  BY <1>1, <1>2, PageStepsAre DEF viewOnly, Render, PageEffects
<1>3. CASE \E side \in Side, n \in DocLines : Type(side, n)
  <2>1. PICK side \in Side, n \in DocLines : Type(side, n)
    BY <1>3
  <2>2. n \in Nat
    BY DocAssumption
  <2> QED
    BY <2>1, <2>2, TypedDocument DEF Type
<1>4. CASE \E side \in Side : Redraw(side) \/ Reconfigure(side)
  BY <1>4, RedrawnEditors, ReconfiguredEditors
<1> QED
  BY <1>2, <1>3, <1>4, EditorSteps

LEMMA NextEditorsTyped ==
  ASSUME TypeOK, TypeOK', EditorsTyped, [EditorNext]_viewVars
  PROVE  EditorsTyped'
<1>1. DOMAIN editors' = Side /\ \A side \in Side : editors'[side] \in Editor /\ UpToDate(editors'[side])
  BY EditorsRedecorated DEF Redecorated
<1>2. texts' \in [Side -> Nat]
  <2>1. CASE ShowDiff
    <3>1. Len(left') \in Nat /\ Len(right') \in Nat
      BY DEF TypeOK
    <3> QED
      BY <2>1, <3>1 DEF ShowDiff, Side
  <2>2. CASE \E docs \in [Side -> DocLines] : Load(docs)
    BY <2>2, DocAssumption DEF Load
  <2>3. CASE \E side \in Side, n \in DocLines : Type(side, n)
    BY <2>3, DocAssumption DEF Type, EditorsTyped
  <2>4. ASSUME texts' = texts PROVE texts' \in [Side -> Nat]
    BY <2>4 DEF EditorsTyped
  <2> QED
    BY <2>1, <2>2, <2>3, <2>4 DEF EditorNext, ClearDiff, Move, ClickMarker, Render, Redraw,
       Reconfigure, PageEffects, viewVars
<1>3. PropsTyped(rendered')
  <2>1. CASE Render
    BY <2>1, PropsAreTyped DEF Render, EditorsTyped
  <2>2. ASSUME rendered' = rendered PROVE PropsTyped(rendered')
    BY <2>2 DEF EditorsTyped
  <2> QED
    BY <2>1, <2>2, EditorSteps, PageStepsAre DEF viewOnly, Type, Redraw, Reconfigure, PageEffects
<1>4. effect' \in 0..5 /\ retext' \subseteq Side
  <2>1. ASSUME UNCHANGED <<effect, retext>> PROVE effect' \in 0..5 /\ retext' \subseteq Side
    BY <2>1 DEF EditorsTyped
  <2>2. CASE Render \/ PageEffects
    BY <2>2 DEF Render, PageEffects, EditorsTyped
  <2>3. ASSUME NEW side \in Side, Redraw(side) \/ Reconfigure(side)
        PROVE  effect' \in 0..5 /\ retext' \subseteq Side
    BY <2>3 DEF Redraw, Reconfigure, EditorsTyped
  <2> QED
    BY <2>1, <2>2, <2>3, EditorSteps, PageStepsAre DEF viewOnly, Type
<1> QED
  BY <1>1, <1>2, <1>3, <1>4 DEF EditorsTyped

LEMMA BareIsUpToDate ==
  ASSUME NEW n \in Nat
  PROVE  Bare(n) \in Editor /\ UpToDate(Bare(n))
<1>1. Bare(n) \in Editor
  BY DEF Bare, Editor
<1>2. Marked(<<>>, n) = {} /\ Current(<<>>, {}, n) = {} /\ Drawn({}, n) = {}
  BY DEF Marked, Current, Drawn
<1> QED
  BY <1>1, <1>2 DEF Bare, UpToDate

LEMMA EditorInitTyped == EditorInit => TypeOK /\ EditorsTyped
<1> SUFFICES ASSUME EditorInit PROVE TypeOK /\ EditorsTyped
  OBVIOUS
<1>1. TypeOK
  BY InitTypes DEF EditorInit
<1>2. texts \in [Side -> Nat]
  BY DocAssumption DEF EditorInit
<1>3. PropsTyped(rendered)
  BY <1>1, <1>2, PropsAreTyped DEF EditorInit
<1>4. DOMAIN editors = Side /\ \A side \in Side : editors[side] \in Editor /\ UpToDate(editors[side])
  BY <1>2, BareIsUpToDate DEF EditorInit
<1>5. effect \in 0..5 /\ retext \subseteq Side
  BY DEF EditorInit
<1> QED
  BY <1>1, <1>2, <1>3, <1>4, <1>5 DEF EditorsTyped

-----------------------------------------------------------------------------
(* What the effects of the last render have reached: the extensions of an  *)
(* editor, and its document.                                               *)

DocumentDone(side) == effect = 0 \/ effect > IF side = "left" THEN 1 ELSE 3
ExtensionsDone(side) == effect = 0 \/ effect > IF side = "left" THEN 2 ELSE 4

PropsReach == \A side \in Side : ExtensionsDone(side) => HasProps(side)

LEMMA NextPropsReach ==
  ASSUME EditorsTyped, PropsReach, [EditorNext]_viewVars
  PROVE  PropsReach'
<1> SUFFICES ASSUME NEW other \in Side, ExtensionsDone(other)' PROVE HasProps(other)'
  BY DEF PropsReach
<1>1. ASSUME ExtensionsDone(other), UNCHANGED rendered,
             LET d == editors'[other]  e == editors[other]
             IN  d.lines = e.lines /\ d.hunk = e.hunk /\ d.folds = e.folds /\ d.arrows = e.arrows
      PROVE  HasProps(other)'
  BY <1>1 DEF PropsReach, HasProps
<1>2. CASE PageStep
  BY <1>1, <1>2, PageStepsAre DEF viewOnly, ExtensionsDone
<1>3. CASE \E side \in Side, n \in DocLines : Type(side, n)
  <2>1. PICK side \in Side, n \in DocLines : Type(side, n)
    BY <1>3
  <2>2. n \in Nat /\ editors[side] \in Editor
    BY DocAssumption DEF EditorsTyped
  <2>3. /\ editors'[side] = Edited(editors[side], n)
        /\ other # side => editors'[other] = editors[other]
    BY <2>1 DEF Type, EditorsTyped
  <2>4. LET d == editors'[other]  e == editors[other]
        IN  d.lines = e.lines /\ d.hunk = e.hunk /\ d.folds = e.folds /\ d.arrows = e.arrows
    BY <2>2, <2>3, EditedIsUpToDate
  <2>5. ExtensionsDone(other)
    BY <2>1 DEF Type, ExtensionsDone
  <2> QED
    BY <1>1, <2>1, <2>4, <2>5 DEF Type
<1>4. CASE Render
  BY <1>4 DEF Render, ExtensionsDone, Side
<1>5. ASSUME NEW side \in Side, Redraw(side) PROVE HasProps(other)'
  <2>1. ExtensionsDone(other)
    BY <1>5 DEF Redraw, ExtensionsDone, Side
  <2>2. LET d == editors'[other]  e == editors[other]
        IN  d.lines = e.lines /\ d.hunk = e.hunk /\ d.folds = e.folds /\ d.arrows = e.arrows
    BY <1>5, RedrawnEditors
  <2> QED
    BY <1>1, <1>5, <2>1, <2>2 DEF Redraw
<1>6. ASSUME NEW side \in Side, Reconfigure(side) PROVE HasProps(other)'
  <2>1. CASE other = side
    BY <1>6, <2>1, ReconfiguredEditors
  <2>2. CASE other # side
    <3>1. ExtensionsDone(other)
      BY <1>6, <2>2 DEF Reconfigure, ExtensionsDone, Side
    <3>2. editors'[other] = editors[other]
      BY <1>6, <2>2, ReconfiguredEditors
    <3> QED
      BY <1>1, <1>6, <3>1, <3>2 DEF Reconfigure
  <2> QED
    BY <2>1, <2>2
<1>7. CASE PageEffects
  <2>1. ExtensionsDone(other)
    BY <1>7 DEF PageEffects, ExtensionsDone, Side
  <2> QED
    BY <1>1, <1>7, <2>1 DEF PageEffects
<1> QED
  BY <1>2, <1>3, <1>4, <1>5, <1>6, <1>7, EditorSteps

(* A text that is new to an editor is one the last render has not seen, or *)
(* one its effects have yet to bring.                                      *)
TextReaches(side) ==
  \/ editors[side].doc = texts[side]
  \/ rendered.texts[side] # texts[side]
  \/ side \in retext
TextsReach ==
  \A side \in Side : TextReaches(side) /\ (DocumentDone(side) => side \notin retext)

LEMMA NextTextsReach ==
  ASSUME EditorsTyped, TextsReach, [EditorNext]_viewVars
  PROVE  TextsReach'
<1> SUFFICES ASSUME NEW other \in Side
             PROVE  TextReaches(other)' /\ (DocumentDone(other)' => other \notin retext')
  BY DEF TextsReach
<1>1. TextReaches(other) /\ (DocumentDone(other) => other \notin retext)
  BY DEF TextsReach
<1>2. CASE PageStep
  <2>1. UNCHANGED viewOnly
    BY <1>2, PageStepsAre
  <2>2. texts' = texts \/ rendered.texts = texts
    BY <1>2 DEF PageStep, ShowDiff, ClearDiff, Move, Load, ClickMarker, Settled, Committed, Props, viewVars
  <2> QED
    BY <1>1, <2>1, <2>2 DEF viewOnly, TextReaches, DocumentDone
<1>3. CASE \E side \in Side, n \in DocLines : Type(side, n)
  <2>1. PICK side \in Side, n \in DocLines : Type(side, n)
    BY <1>3
  <2>2. /\ editors' = [editors EXCEPT ![side] = Edited(editors[side], n)]
        /\ texts' = [texts EXCEPT ![side] = n]
        /\ UNCHANGED <<rendered, effect, retext>>
    BY <2>1 DEF Type
  <2>3. n \in Nat
    BY DocAssumption
  <2>4. editors'[side].doc = n /\ (other # side => editors'[other] = editors[other])
    BY <2>2, <2>3, TypedDocument
  <2>5. texts'[side] = n /\ (other # side => texts'[other] = texts[other])
    BY <2>2 DEF EditorsTyped
  <2> QED
    BY <1>1, <2>2, <2>4, <2>5 DEF TextReaches, DocumentDone
<1>4. CASE Render
  <2>1. other \notin retext
    BY <1>1, <1>4 DEF Render, DocumentDone
  <2>2. /\ rendered'.texts = texts /\ texts' = texts /\ editors' = editors
        /\ effect' = 1 /\ retext' = {side \in Side : texts[side] # rendered.texts[side]}
    BY <1>4 DEF Render, Props
  <2> QED
    BY <1>1, <2>1, <2>2 DEF TextReaches, DocumentDone, Side
<1>5. ASSUME NEW side \in Side, Redraw(side)
      PROVE  TextReaches(other)' /\ (DocumentDone(other)' => other \notin retext')
  <2>1. /\ editors'[side].doc = IF side \in retext THEN rendered.texts[side] ELSE editors[side].doc
        /\ other # side => editors'[other] = editors[other]
    BY <1>5, RedrawnEditors
  <2>2. retext' = retext \ {side} /\ UNCHANGED <<texts, rendered>> /\ effect' = effect + 1
        /\ effect = (IF side = "left" THEN 1 ELSE 3)
    BY <1>5 DEF Redraw
  <2>3. CASE other = side
    BY <1>1, <2>1, <2>2, <2>3 DEF TextReaches
  <2>4. CASE other # side
    <3>1. TextReaches(other)'
      BY <1>1, <2>1, <2>2, <2>4 DEF TextReaches
    <3>2. DocumentDone(other)' => DocumentDone(other)
      BY <2>2, <2>4 DEF DocumentDone, Side
    <3> QED
      BY <1>1, <2>2, <3>1, <3>2
  <2> QED
    BY <2>3, <2>4
<1>6. ASSUME NEW side \in Side, Reconfigure(side)
      PROVE  TextReaches(other)' /\ (DocumentDone(other)' => other \notin retext')
  <2>1. editors'[other].doc = editors[other].doc
    BY <1>6, ReconfiguredEditors
  <2>2. UNCHANGED <<texts, rendered, retext>>
    BY <1>6 DEF Reconfigure
  <2>3. DocumentDone(other)' => DocumentDone(other)
    BY <1>6 DEF Reconfigure, DocumentDone, Side
  <2> QED
    BY <1>1, <2>1, <2>2, <2>3 DEF TextReaches
<1>7. CASE PageEffects
  <2>1. DocumentDone(other)
    BY <1>7 DEF PageEffects, DocumentDone
  <2> QED
    BY <1>1, <1>7, <2>1 DEF PageEffects, TextReaches
<1> QED
  BY <1>2, <1>3, <1>4, <1>5, <1>6, <1>7, EditorSteps

-----------------------------------------------------------------------------
(* A marker that may be clicked is one of those the page knows of.         *)

MarkersKnown ==
  /\ LatestRendered
  /\ due => effect # 0
  /\ rendered.folds \subseteq Latest
  /\ Idle => \A side \in Side : editors[side].folds \subseteq markers

(* A step of the page that neither renders nor runs an effect keeps them.  *)
Keeps ==
  /\ UNCHANGED <<due, coming, markers>>
  /\ ~fresh' => ~fresh /\ AllFolds' = AllFolds

LEMMA ShowKeeps ==
  ASSUME NEW built, NEW anchor, Show(built, anchor)
  PROVE  Keeps
BY DEF Show, LinesChange, Keeps

LEMMA ClearKeeps == Clear => Keeps
BY DEF Clear, LinesChange, Keeps

LEMMA StillKeeps == UNCHANGED <<left, right, fresh, due, coming, markers>> => Keeps
BY FoldsKept DEF Keeps

LEMMA EditorStepsKeep ==
  ASSUME [EditorNext]_viewVars
  PROVE  Render \/ PageEffects \/ Keeps
<1>1. CASE ShowDiff
  BY <1>1, ShowKeeps DEF ShowDiff, Compare, Copy
<1>2. CASE ClearDiff
  BY <1>2, ClearKeeps DEF ClearDiff
<1>3. CASE Move
  BY <1>3, StillKeeps DEF Move, GoNext, GoPrev, Pick, Select, SetEnabled
<1>4. CASE \E docs \in [Side -> DocLines] : Load(docs)
  BY <1>4, ClearKeeps, StillKeeps DEF Load, vars
<1>5. CASE \E side \in Side, n \in DocLines : Type(side, n)
  BY <1>5, ClearKeeps, StillKeeps DEF Type, vars
<1>6. CASE \E side \in Side : \E f \in editors[side].drawn : ClickMarker(side, f)
  BY <1>6, StillKeeps DEF ClickMarker, ExpandFold
<1>7. CASE (\E side \in Side : Redraw(side) \/ Reconfigure(side)) \/ UNCHANGED viewVars
  BY <1>7, StillKeeps DEF Redraw, Reconfigure, viewVars, vars
<1> QED
  BY <1>1, <1>2, <1>3, <1>4, <1>5, <1>6, <1>7 DEF EditorNext

LEMMA NextMarkersKnown ==
  ASSUME EditorsTyped, PropsReach, MarkersKnown, [EditorNext]_viewVars
  PROVE  MarkersKnown'
<1> USE DEF MarkersKnown, LatestRendered, Latest
<1>1. CASE Render
  <2>1. effect = 0 /\ effect' = 1 /\ editors' = editors /\ rendered'.folds = VisibleFolds /\ ~due
    BY <1>1 DEF Render, Props
  <2>2. VisibleFolds \subseteq AllFolds
    BY DEF VisibleFolds
  <2>3. AllFolds' = AllFolds /\ markers' = markers
    BY <1>1, FoldsKept DEF Render, RenderLines, vars
  <2>4. ~fresh' /\ Latest' = AllFolds
    BY <1>1, <2>1 DEF Render, RenderLines, vars
  <2> QED
    BY <2>1, <2>2, <2>3, <2>4 DEF Idle
<1>2. CASE PageEffects
  <2>1. effect = 5 /\ effect' = 0 /\ UNCHANGED <<rendered, editors, fresh>> /\ AllFolds' = AllFolds
    BY <1>2, FoldsKept DEF PageEffects, Forget, vars
  <2>2. \A side \in Side : editors[side].folds = rendered.folds
    BY <2>1 DEF PropsReach, ExtensionsDone, HasProps
  <2>3. ~due' /\ Latest' = Latest
    BY <1>2 DEF PageEffects, Forget, vars
  <2> QED
    BY <2>1, <2>2, <2>3
<1>3. CASE Keeps /\ ~Render /\ ~PageEffects
  <2>1. rendered' = rendered
    BY <1>3, EditorSteps, PageStepsAre DEF viewOnly, Type, Redraw, Reconfigure
  <2>2. due' => effect' # 0
    <3>1. effect' = 0 => effect = 0
      BY <1>3, EditorSteps, PageStepsAre DEF viewOnly, Type, Redraw, Reconfigure, EditorsTyped, Side
    <3> QED
      BY <1>3, <3>1 DEF Keeps, MarkersKnown
  <2>3. ASSUME Idle', NEW side \in Side PROVE editors'[side].folds \subseteq markers'
    <3>1. Idle /\ editors'[side].folds = editors[side].folds
      <4>1. CASE PageStep
        BY <2>3, <4>1, PageStepsAre DEF viewOnly, Idle
      <4>2. CASE \E s \in Side, n \in DocLines : Type(s, n)
        <5>1. PICK s \in Side, n \in DocLines : Type(s, n)
          BY <4>2
        <5>2. n \in Nat /\ editors[s] \in Editor
          BY DocAssumption DEF EditorsTyped
        <5>3. editors'[s] = Edited(editors[s], n) /\ (side # s => editors'[side] = editors[side])
          BY <5>1 DEF Type, EditorsTyped
        <5>4. Edited(editors[s], n).folds = editors[s].folds
          BY <5>2, EditedIsUpToDate
        <5> QED
          BY <5>1, <5>3, <5>4 DEF Type, Idle
      <4>3. CASE \E s \in Side : Redraw(s) \/ Reconfigure(s)
        BY <2>3, <4>3 DEF Redraw, Reconfigure, Side, Idle
      <4> QED
        BY <1>3, <4>1, <4>2, <4>3, EditorSteps
    <3> QED
      BY <1>3, <3>1 DEF Keeps, MarkersKnown
  <2> QED
    BY <1>3, <2>1, <2>2, <2>3 DEF Keeps, MarkersKnown
<1> QED
  BY <1>1, <1>2, <1>3, EditorStepsKeep

LEMMA EditorStepsAreViewSteps ==
  ASSUME EditorsTyped, MarkersKnown, [EditorNext]_viewVars
  PROVE  [Next]_vars
<1>1. CASE ShowDiff
  BY <1>1 DEF ShowDiff, Next
<1>2. CASE ClearDiff
  BY <1>2 DEF ClearDiff, Next
<1>3. CASE Move
  BY <1>3 DEF Move, Next
<1>4. ASSUME NEW side \in Side, NEW n \in DocLines, Type(side, n) PROVE [Next]_vars
  BY <1>4 DEF Type, Next
<1>5. ASSUME NEW docs \in [Side -> DocLines], Load(docs) PROVE [Next]_vars
  BY <1>5 DEF Load, Next
<1>6. ASSUME NEW side \in Side, NEW f \in editors[side].drawn, ClickMarker(side, f) PROVE [Next]_vars
  <2>1. f \in editors[side].folds
    BY DEF EditorsTyped, UpToDate, Drawn
  <2>2. f \in markers
    BY <1>6, <2>1 DEF ClickMarker, MarkersKnown
  <2> QED
    BY <1>6, <2>2 DEF ClickMarker, Next
<1>7. CASE Render
  BY <1>7 DEF Render, Next
<1>8. ASSUME NEW side \in Side, Redraw(side) \/ Reconfigure(side) PROVE [Next]_vars
  BY <1>8 DEF Redraw, Reconfigure
<1>9. CASE PageEffects
  BY <1>9 DEF PageEffects, Next
<1>10. CASE UNCHANGED viewVars
  BY <1>10 DEF viewVars, vars
<1> QED
  BY <1>1, <1>2, <1>3, <1>4, <1>5, <1>6, <1>7, <1>8, <1>9, <1>10 DEF EditorNext

EditorInv == TypeOK /\ EditorsTyped /\ PropsReach /\ TextsReach /\ MarkersKnown

LEMMA EditorInitInv == EditorInit => EditorInv
<1> SUFFICES ASSUME EditorInit PROVE EditorInv
  OBVIOUS
<1>1. TypeOK /\ EditorsTyped
  BY EditorInitTyped
<1>2. /\ rendered = Props /\ editors = [side \in Side |-> Bare(texts[side])]
      /\ left = <<>> /\ right = <<>> /\ changes = <<>> /\ selected = None
      /\ ~due /\ retext = {}
  BY DEF EditorInit, Init
<1>3. VisibleFolds = {} /\ LatestRendered
  BY NothingFolded DEF EditorInit, ExpandedInv
<1>4. PropsReach
  BY <1>2, <1>3 DEF PropsReach, HasProps, Props, Bare, CurrentHunk
<1>5. TextsReach
  BY <1>2 DEF TextsReach, TextReaches, Bare
<1>6. MarkersKnown
  BY <1>2, <1>3 DEF MarkersKnown, Props, Bare
<1> QED
  BY <1>1, <1>4, <1>5, <1>6 DEF EditorInv

LEMMA NextEditorInv == EditorInv /\ [EditorNext]_viewVars => EditorInv'
<1> SUFFICES ASSUME EditorInv, [EditorNext]_viewVars PROVE EditorInv'
  OBVIOUS
<1>1. TypeOK /\ EditorsTyped /\ PropsReach /\ TextsReach /\ MarkersKnown
  BY DEF EditorInv
<1>2. TypeOK'
  BY <1>1, EditorStepsAreViewSteps, NextTypes
<1> QED
  BY <1>1, <1>2, NextEditorsTyped, NextPropsReach, NextTextsReach, NextMarkersKnown DEF EditorInv

LEMMA EditorInvariant == EditorSpec => []EditorInv
BY EditorInitInv, NextEditorInv, PTL DEF EditorSpec

(* The editors only follow the page, though a marker of a diff before may  *)
(* be clicked until the effects have run: what is proved of the diff on    *)
(* screen holds with them.                                                 *)
THEOREM EditorsFollowView == EditorSpec => Spec
<1>1. EditorInit => Init
  BY DEF EditorInit
<1>2. EditorInv /\ [EditorNext]_viewVars => [Next]_vars
  BY EditorStepsAreViewSteps DEF EditorInv
<1> QED
  BY <1>1, <1>2, EditorInvariant, PTL DEF EditorSpec, Spec

-----------------------------------------------------------------------------
(* No fold hides a highlighted line of the lines it comes with, nor one of *)
(* the current change.                                                     *)
Spares(lines, hunk, folds) ==
  \A f \in folds : LinesOf(f) \cap hunk = {} /\ \A i \in LinesOf(f) : ~HasContent(lines, i)

Coherent ==
  \A side \in Side :
    /\ Spares(rendered.lines[side], rendered.hunk, rendered.folds)
    /\ Spares(editors[side].lines, editors[side].hunk, editors[side].folds)

LEMMA PropsSpare ==
  ASSUME TypeOK, ShownIsWellFormed, NEW side \in Side
  PROVE  Spares(Props.lines[side], Props.hunk, Props.folds)
<1> SUFFICES ASSUME NEW f \in AllFolds
             PROVE  /\ LinesOf(f) \cap CurrentHunk = {}
                    /\ \A i \in LinesOf(f) : ~HasContent(left, i) /\ ~HasContent(right, i)
  <2>1. Props.lines[side] = left \/ Props.lines[side] = right
    BY DEF Props
  <2>2. Props.folds \subseteq AllFolds /\ Props.hunk = CurrentHunk
    BY DEF Props, VisibleFolds
  <2> QED
    BY <2>1, <2>2 DEF Spares
<1>1. LinesOf(f) \cap CurrentHunk = {}
  <2>1. CASE selected = None
    BY <2>1 DEF CurrentHunk
  <2>2. CASE selected # None
    <3> DEFINE c == changes[selected]
    <3>1. selected \in DOMAIN changes /\ c.start \in Nat /\ c.end \in Nat
      <4>1. selected \in DOMAIN changes
        BY <2>2 DEF TypeOK
      <4>2. c \in Change
        BY <4>1 DEF TypeOK
      <4> QED
        BY <4>1, <4>2 DEF Change
    <3>2. LinesOf(f) \cap ((c.start - Context)..(c.end + Context)) = {}
      BY <3>1, FoldsKeepApart
    <3>3. CurrentHunk = c.start..c.end
      BY <2>2 DEF CurrentHunk, LinesOf
    <3>4. c.start..c.end \subseteq (c.start - Context)..(c.end + Context)
      BY <3>1, ViewAssumption
    <3> QED
      BY <3>2, <3>3, <3>4
  <2> QED
    BY <2>1, <2>2
<1>2. ASSUME NEW i \in LinesOf(f) PROVE ~IsChangeRow(i)
  <2>1. PICK r \in Runs : f = Fold(r)
    BY DEF AllFolds
  <2>2. LineCount \in Nat
    BY DEF LineCount
  <2>3. r.start \in 1..LineCount /\ r.end \in 1..LineCount /\ \A j \in r.start..r.end : ~IsChangeRow(j)
    BY DEF Runs
  <2>4. r.start <= f.start /\ f.end <= r.end /\ f.start \in Int /\ f.end \in Int
    BY <2>1, <2>2, <2>3, ViewAssumption DEF Fold
  <2>5. i \in r.start..r.end
    BY <2>2, <2>3, <2>4 DEF LinesOf
  <2> QED
    BY <2>3, <2>5
<1> QED
  BY <1>1, <1>2 DEF IsChangeRow, Content, HasContent

LEMMA NextCoherent ==
  ASSUME EditorInv, ShownIsWellFormed, Coherent, [EditorNext]_viewVars
  PROVE  Coherent'
<1>1. TypeOK /\ EditorsTyped
  BY DEF EditorInv
<1>2. ASSUME NEW side \in Side
      PROVE  Spares(rendered'.lines[side], rendered'.hunk, rendered'.folds)
  <2>1. CASE Render
    BY <1>1, <2>1, PropsSpare DEF Render
  <2>2. ASSUME rendered' = rendered
        PROVE  Spares(rendered'.lines[side], rendered'.hunk, rendered'.folds)
    BY <2>2 DEF Coherent
  <2> QED
    BY <2>1, <2>2, EditorSteps, PageStepsAre DEF viewOnly, Type, Redraw, Reconfigure, PageEffects
<1>3. ASSUME NEW side \in Side
      PROVE  Spares(editors'[side].lines, editors'[side].hunk, editors'[side].folds)
  <2>1. Redecorated(side)
    BY <1>1, EditorsRedecorated
  <2> QED
    BY <2>1 DEF Redecorated, Coherent
<1> QED
  BY <1>2, <1>3 DEF Coherent

LEMMA CoherentDecorations == EditorInv /\ Coherent => DecorationsAgree
<1> SUFFICES ASSUME EditorInv, Coherent, NEW side \in Side
             PROVE  LET e == editors[side]
                    IN  /\ e.marked \cup e.current \cup Hidden(e) \subseteq 1..e.doc
                        /\ {i \in e.marked : e.lines[i] # "placeholder"} \cap Hidden(e) = {}
                        /\ e.current \cap Hidden(e) = {}
  BY DEF DecorationsAgree
<1> DEFINE e == editors[side]
<1>1. e \in Editor /\ UpToDate(e)
  BY DEF EditorInv, EditorsTyped
<1>2. e.doc \in Nat /\ DOMAIN e.lines = 1..Len(e.lines) /\ e.folds \subseteq Folds
  BY <1>1 DEF Editor
<1>3. Spares(e.lines, e.hunk, e.folds)
  BY DEF Coherent
<1> HIDE DEF e
<1>4. /\ e.marked = {i \in DOMAIN e.lines : i <= e.doc /\ e.lines[i] # "unchanged"}
      /\ e.current = {i \in DOMAIN e.lines : i <= e.doc} \cap e.hunk
      /\ e.drawn = {f \in e.folds : f.end <= e.doc}
  BY <1>1 DEF UpToDate, Marked, Current, Drawn
<1>5. e.marked \cup e.current \subseteq 1..e.doc
  BY <1>2, <1>4
<1>6. ASSUME NEW f \in e.drawn
      PROVE  /\ LinesOf(f) \subseteq 1..e.doc
             /\ LinesOf(f) \cap e.current = {}
             /\ \A i \in LinesOf(f) : i \in e.marked => e.lines[i] = "placeholder"
  <2>1. f \in e.folds /\ f.end <= e.doc /\ f \in Folds
    BY <1>2, <1>4
  <2>2. LinesOf(f) \subseteq 1..e.doc
    BY <1>2, <2>1 DEF Folds, Span, LinesOf
  <2>3. LinesOf(f) \cap e.hunk = {} /\ \A i \in LinesOf(f) : ~HasContent(e.lines, i)
    BY <1>3, <2>1 DEF Spares
  <2> QED
    BY <1>4, <2>2, <2>3 DEF HasContent
<1> QED
  BY <1>5, <1>6 DEF Hidden, e

(* While the documents and the extensions of the editors are replaced one  *)
(* by one, and whatever is typed, loaded or clicked in between, no         *)
(* decoration lies beyond its document and no fold hides a highlighted     *)
(* line of its editor: both come from the props of one render, whose folds *)
(* keep apart from the changes they were computed with.                    *)
THEOREM DecorationsAlwaysAgree ==
  ASSUME FromBuildRows
  PROVE  EditorSpec => []DecorationsAgree
<1>1. Init => ShownIsWellFormed
  BY DEF Init, ShownIsWellFormed, WellFormed, Facing, InOrder, Ranges, Covers
<1>2. ShownIsWellFormed /\ [Next]_vars => ShownIsWellFormed'
  BY NextWellFormed
<1>3. EditorInit => Coherent
  <2> SUFFICES ASSUME EditorInit, NEW side \in Side
               PROVE  /\ Spares(rendered.lines[side], rendered.hunk, rendered.folds)
                      /\ Spares(editors[side].lines, editors[side].hunk, editors[side].folds)
    BY DEF Coherent
  <2>1. TypeOK /\ ShownIsWellFormed
    BY <1>1, EditorInitTyped DEF EditorInit
  <2>2. Spares(rendered.lines[side], rendered.hunk, rendered.folds)
    BY <2>1, PropsSpare DEF EditorInit
  <2>3. editors[side].folds = {}
    BY DEF EditorInit, Bare
  <2> QED
    BY <2>2, <2>3 DEF Spares
<1>4. EditorInv /\ ShownIsWellFormed /\ Coherent /\ [EditorNext]_viewVars => Coherent'
  BY NextCoherent
<1>5. EditorSpec => []EditorInv /\ Spec
  BY EditorInvariant, EditorsFollowView
<1> QED
  BY <1>1, <1>2, <1>3, <1>4, <1>5, CoherentDecorations, PTL DEF EditorSpec, Spec
-----------------------------------------------------------------------------
(* Editors that have settled.                                              *)

LEMMA SettledEditor ==
  ASSUME EditorInv, ShownIsWellFormed, ShowsDiff, NEW side \in Side
  PROVE  LET e == editors[side]
         IN  /\ e.doc = Len(left) /\ UpToDate(e)
             /\ e.lines = (IF side = "left" THEN left ELSE right)
             /\ e.hunk = CurrentHunk /\ e.folds = VisibleFolds /\ e.arrows = changes
<1>1. effect = 0 /\ rendered = Props
  BY DEF ShowsDiff, Settled
<1>2. HasProps(side) /\ side \notin retext /\ TextReaches(side)
  BY <1>1 DEF EditorInv, PropsReach, TextsReach, ExtensionsDone, DocumentDone
<1>3. editors[side].doc = texts[side]
  BY <1>1, <1>2 DEF TextReaches, Props
<1>4. texts[side] = Len(left)
  BY DEF ShowsDiff, ShownIsWellFormed, WellFormed, Side
<1>5. UpToDate(editors[side])
  BY DEF EditorInv, EditorsTyped
<1> QED
  BY <1>1, <1>2, <1>3, <1>4, <1>5 DEF HasProps, Props

-----------------------------------------------------------------------------
(* The arrows.                                                             *)

(* Changes in order start on lines of their own, so the arrow on the first *)
(* line of a change is its own.                                            *)
LEMMA ArrowOfChange ==
  ASSUME NEW cs \in Seq(Change), InOrder(cs), \A k \in DOMAIN cs : cs[k].start <= cs[k].end,
         NEW k \in DOMAIN cs, NEW i
  PROVE  Arrow(cs, i) = k <=> cs[k].start = i
<1>1. \A j \in DOMAIN cs : cs[j].start \in Nat /\ cs[j].end \in Nat
  <2> SUFFICES ASSUME NEW j \in DOMAIN cs PROVE cs[j].start \in Nat /\ cs[j].end \in Nat
    OBVIOUS
  <2>1. cs[j] \in Change
    OBVIOUS
  <2> QED
    BY <2>1 DEF Change
<1>2. \A j, m \in DOMAIN cs : cs[j].start = cs[m].start => j = m
  <2> SUFFICES ASSUME NEW j \in DOMAIN cs, NEW m \in DOMAIN cs, j < m
               PROVE  cs[j].start # cs[m].start
    OBVIOUS
  <2>1. cs[j].end < cs[m].start /\ cs[j].start <= cs[j].end
    BY DEF InOrder
  <2> QED
    BY <1>1, <2>1
<1>3. k # None
  BY ViewAssumption
<1>4. ASSUME NEW j \in Starting(cs, i) PROVE Arrow(cs, i) = j
  <2>1. Starting(cs, i) = {j}
    BY <1>2 DEF Starting
  <2>2. Width(cs[j]) = Width(cs[j]) /\ j <= j
    BY DEF Starting
  <2> QED
    BY <2>1, <2>2 DEF Arrow
<1>5. CASE cs[k].start = i
  <2>1. k \in Starting(cs, i)
    BY <1>5 DEF Starting
  <2> QED
    BY <1>4, <1>5, <2>1
<1>6. CASE cs[k].start # i
  <2>1. k \notin Starting(cs, i)
    BY <1>6 DEF Starting
  <2>2. CASE Starting(cs, i) = {}
    BY <1>3, <1>6, <2>2 DEF Arrow
  <2>3. CASE Starting(cs, i) # {}
    BY <1>4, <1>6, <2>1, <2>3
  <2> QED
    BY <2>2, <2>3
<1> QED
  BY <1>5, <1>6

LEMMA ArrowIsThere ==
  ASSUME EditorInv, ShownIsWellFormed, ShowsDiff, NEW side \in Side, NEW k \in DOMAIN changes
  PROVE  ArrowLines(editors[side], k) = {changes[k].start}
<1> USE DEF EditorInv
<1> DEFINE e == editors[side]
<1> DEFINE c == changes[k]
<1>1. e.doc = Len(left) /\ e.arrows = changes /\ e.folds = VisibleFolds /\ UpToDate(e)
  BY SettledEditor
<1>2. \A i : Arrow(changes, i) = k <=> c.start = i
  <2>1. InOrder(changes) /\ \A j \in DOMAIN changes : changes[j].start <= changes[j].end
    BY DEF ShownIsWellFormed, WellFormed, Ranges
  <2> QED
    BY <2>1, ArrowOfChange DEF TypeOK
<1>3. c.start \in Nat /\ c.end \in Nat
  <2>1. c \in Change
    BY DEF TypeOK
  <2> QED
    BY <2>1 DEF Change
<1>4. 1 <= c.start /\ c.start <= c.end /\ c.end <= Len(left) /\ Len(left) \in Nat
  BY DEF ShownIsWellFormed, WellFormed, Ranges, TypeOK
<1>5. c.start \in 1..e.doc
  BY <1>1, <1>3, <1>4
<1>6. ASSUME NEW f \in e.drawn PROVE c.start \notin LinesOf(f)
  <2>1. f \in AllFolds
    BY <1>1 DEF UpToDate, Drawn, VisibleFolds
  <2>2. LinesOf(f) \cap ((c.start - Context)..(c.end + Context)) = {}
    BY <2>1, FoldsKeepApart
  <2>3. c.start \in (c.start - Context)..(c.end + Context)
    BY <1>3, <1>4, ViewAssumption
  <2> QED
    BY <2>2, <2>3
<1>7. c.start \notin Hidden(e)
  BY <1>6 DEF Hidden
<1> QED
  BY <1>1, <1>2, <1>5, <1>7 DEF ArrowLines

(* Once the editors have settled on a diff, every change has exactly one   *)
(* arrow in either of them, on its first line, and no fold hides it.       *)
THEOREM ArrowsAreShown ==
  ASSUME FromBuildRows
  PROVE  EditorSpec => []EveryChangeHasAnArrow
<1>1. Init => ShownIsWellFormed
  BY DEF Init, ShownIsWellFormed, WellFormed, Facing, InOrder, Ranges, Covers
<1>2. ShownIsWellFormed /\ [Next]_vars => ShownIsWellFormed'
  BY NextWellFormed
<1>3. EditorInv /\ ShownIsWellFormed => EveryChangeHasAnArrow
  BY ArrowIsThere DEF EveryChangeHasAnArrow
<1> QED
  BY <1>1, <1>2, <1>3, EditorsFollowView, EditorInvariant, PTL DEF Spec
-----------------------------------------------------------------------------
(* What the editors highlight.                                             *)

SomethingSelected == changes # <<>> => selected # None

LEMMA NextSelected ==
  ASSUME TypeOK, SomethingSelected, [Next]_vars
  PROVE  SomethingSelected'
<1>1. ASSUME NEW k \in Int, Select(k) PROVE SomethingSelected'
  <2>1. selected' \in 1..Len(changes)
    BY <1>1, SelectInList
  <2> QED
    BY <2>1, ViewAssumption DEF SomethingSelected, TypeOK
<1>2. ASSUME NEW built \in Diff, NEW anchor \in Nat, Show(built, anchor)
      PROVE  SomethingSelected'
  <2>1. built.changes \in Seq(Change)
    BY ViewAssumption
  <2>2. built.changes # <<>> => selected' \in 1..Len(built.changes)
    BY <1>2, <2>1, NearestInList DEF Show
  <2>3. Len(built.changes) \in Nat
    BY <2>1
  <2> QED
    BY <1>2, <2>2, <2>3, ViewAssumption DEF SomethingSelected, Show
<1>3. ASSUME NEW built \in Diff, Copy(built) PROVE SomethingSelected'
  <2>1. PICK k \in DOMAIN changes : Show(built, changes[k].start)
    BY <1>3 DEF Copy
  <2>2. changes[k] \in Change
    BY DEF TypeOK
  <2> QED
    BY <1>2, <2>1, <2>2 DEF Change
<1>4. ASSUME NEW built \in Diff, Compare(built) PROVE SomethingSelected'
  BY <1>2, <1>4 DEF Compare
<1>5. CASE Clear
  BY <1>5 DEF Clear, SomethingSelected
<1>6. CASE GoNext
  BY <1>1, <1>6 DEF GoNext, TypeOK
<1>7. CASE GoPrev
  BY <1>1, <1>7 DEF GoPrev, TypeOK
<1>8. ASSUME NEW i \in DOMAIN changes, Pick(i) PROVE SomethingSelected'
  BY <1>1, <1>8 DEF Pick, TypeOK
<1>9. ASSUME UNCHANGED <<changes, selected>> PROVE SomethingSelected'
  BY <1>9 DEF SomethingSelected
<1> QED
  BY <1>3, <1>4, <1>5, <1>6, <1>7, <1>8, <1>9 DEF Next, ExpandFold, SetEnabled,
     RenderLines, Forget, vars

LEMMA ShowsWhatIsThere ==
  ASSUME EditorInv, ShownIsWellFormed, SomethingSelected, ShowsDiff, NEW side \in Side
  PROVE  LET e == editors[side]
             lines == IF side = "left" THEN left ELSE right
         IN  /\ e.doc = LineCount
             /\ e.marked = {i \in 1..LineCount : lines[i] # "unchanged"}
             /\ Hidden(e) = UNION {LinesOf(f) : f \in VisibleFolds}
             /\ changes # <<>> =>
                  selected # None /\ e.current = LinesOf(changes[selected]) /\ e.current # {}
<1> DEFINE e == editors[side]
           lines == IF side = "left" THEN left ELSE right
<1> USE DEF EditorInv
<1>1. LineCount = Len(left) /\ Len(left) \in Nat /\ Len(right) = Len(left)
  BY DEF ShownIsWellFormed, WellFormed, LineCount, TypeOK
<1>2. /\ e.doc = Len(left) /\ UpToDate(e)
      /\ e.lines = lines /\ e.hunk = CurrentHunk /\ e.folds = VisibleFolds
  BY SettledEditor
<1>3. DOMAIN lines = 1..LineCount
  BY <1>1 DEF TypeOK
<1> HIDE DEF e, lines
<1>4. /\ e.marked = {i \in DOMAIN lines : i <= LineCount /\ lines[i] # "unchanged"}
      /\ e.current = {i \in DOMAIN lines : i <= LineCount} \cap CurrentHunk
      /\ e.drawn = {f \in VisibleFolds : f.end <= LineCount}
  BY <1>1, <1>2 DEF UpToDate, Marked, Current, Drawn
<1>5. e.marked = {i \in 1..LineCount : lines[i] # "unchanged"}
  BY <1>1, <1>3, <1>4
<1>6. e.drawn = VisibleFolds
  <2> SUFFICES ASSUME NEW f \in AllFolds PROVE f.end <= LineCount
    BY <1>4 DEF VisibleFolds
  <2>1. PICK r \in Runs : f = Fold(r)
    BY DEF AllFolds
  <2>2. r \in [start : 1..LineCount, end : 1..LineCount]
    BY DEF Runs
  <2> QED
    BY <1>1, <2>1, <2>2, ViewAssumption DEF Fold
<1>7. ASSUME changes # <<>>
      PROVE  selected # None /\ e.current = LinesOf(changes[selected]) /\ e.current # {}
  <2>1. selected # None /\ selected \in DOMAIN changes
    BY <1>7 DEF SomethingSelected, TypeOK
  <2> DEFINE c == changes[selected]
  <2>2. c.start \in Nat /\ c.end \in Nat
    <3>1. c \in Change
      BY <2>1 DEF TypeOK
    <3> QED
      BY <3>1 DEF Change
  <2>3. 1 <= c.start /\ c.start <= c.end /\ c.end <= LineCount
    BY <1>1, <2>1 DEF ShownIsWellFormed, WellFormed, Ranges
  <2>4. CurrentHunk = LinesOf(c)
    BY <2>1 DEF CurrentHunk
  <2> HIDE DEF c
  <2>5. LinesOf(c) \subseteq 1..LineCount /\ c.start \in LinesOf(c)
    BY <1>1, <2>2, <2>3 DEF LinesOf
  <2>6. e.current = LinesOf(c)
    BY <1>1, <1>3, <1>4, <2>4, <2>5
  <2> QED
    BY <2>1, <2>5, <2>6 DEF c
<1>8. Hidden(e) = UNION {LinesOf(f) : f \in VisibleFolds}
  BY <1>6 DEF Hidden
<1> QED
  BY <1>1, <1>2, <1>5, <1>7, <1>8 DEF e, lines

(* Once the effects have run, both editors show the diff and nothing else: *)
(* all its highlights, its visible folds and the selected change.          *)
THEOREM EditorsAreFaithful ==
  ASSUME FromBuildRows
  PROVE  EditorSpec => []EditorsShowTheDiff
<1>1. Init => ShownIsWellFormed /\ SomethingSelected
  BY DEF Init, ShownIsWellFormed, WellFormed, Facing, InOrder, Ranges, Covers,
     SomethingSelected
<1>2. TypeOK /\ ShownIsWellFormed /\ SomethingSelected /\ [Next]_vars
        => ShownIsWellFormed' /\ SomethingSelected'
  BY NextWellFormed, NextSelected
<1>3. EditorInv /\ ShownIsWellFormed /\ SomethingSelected => EditorsShowTheDiff
  BY ShowsWhatIsThere DEF EditorsShowTheDiff
<1> QED
  BY <1>1, <1>2, <1>3, EditorsFollowView, EditorInvariant, TypeCorrect, PTL DEF Spec

=============================================================================
