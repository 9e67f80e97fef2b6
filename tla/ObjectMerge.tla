---------------------------- MODULE ObjectMerge ----------------------------
(***************************************************************************)
(* Compare and copy on objects: alignObjectKeys and the object branches of *)
(* buildRows (frontend/src/lib/lineDiff.ts), copyChange with               *)
(* insertObjectKey and removeAt (frontend/src/lib/applyChange.ts), and     *)
(* what runCompare puts back into the editors.  An object is the sequence  *)
(* of its entries, in key order; nested objects repeat the same walk, so   *)
(* one level stands for all.  CompareSession has the requests and answers  *)
(* around these steps; here a comparison is answered at once.              *)
(***************************************************************************)
EXTENDS Naturals, FiniteSets, SequencesExt

CONSTANTS
  Key,
  Value,
  Emptied,     \* what buildRows prints for a scalar it takes for a container
  Inherited,   \* keys every JavaScript object has, as "constructor"
  MaxKeys,     \* bound on the entries of a document at the start
  None

ASSUME MergeAssumption ==
  /\ Inherited \subseteq Key /\ Emptied \in Value
  /\ MaxKeys \in Nat
  /\ None \notin Key

VARIABLES
  left, right,  \* the documents in the editors
  changes       \* the changes listed, or None before the first Compare

vars == <<left, right, changes>>

Entry == [key : Key, val : Value]
Keys(d) == [i \in DOMAIN d |-> d[i].key]
Has(d, k) == k \in ToSet(Keys(d))
IndexOf(d, k) == SelectInSeq(d, LAMBDA e : e.key = k)
At(d, k) == d[IndexOf(d, k)].val

IsObject(d) == IsInjective(Keys(d))
Objects == {d \in BoundedSeq(Entry, MaxKeys) : IsObject(d)}

Direction == {"to-left", "to-right"}
Kind == {"added", "removed", "modified"}
Change == [kind : Kind, leftKey : Key \cup {None}, rightKey : Key \cup {None}]

(* No editor ever holds a key twice.                                       *)
TypeOK ==
  /\ left \in Seq(Entry) /\ IsObject(left)
  /\ right \in Seq(Entry) /\ IsObject(right)
  /\ changes = None \/ changes \subseteq Change

-----------------------------------------------------------------------------
(* alignObjectKeys: dp is the length of the longest common subsequence of  *)
(* the keys from i and from j on, and every turn of the loops adds the row *)
(* of the next key that is due.                                            *)

Row(l, r) == [leftKey |-> l, rightKey |-> r]

Lcs(l, r) ==
  LET dp[p \in (1..(Len(l) + 1)) \X (1..(Len(r) + 1))] ==
        LET i == p[1]
            j == p[2]
        IN  IF i > Len(l) \/ j > Len(r) THEN 0
            ELSE IF l[i] = r[j] THEN dp[<<i + 1, j + 1>>] + 1
            ELSE IF dp[<<i + 1, j>>] >= dp[<<i, j + 1>>] THEN dp[<<i + 1, j>>]
            ELSE dp[<<i, j + 1>>]
  IN  dp

Begin == [i |-> 1, j |-> 1, rows |-> <<>>]

(* Which side's next key is due: both when they are the same, else the one *)
(* that keeps the most keys in common.                                     *)
BothDue(l, r, w) == w.i <= Len(l) /\ w.j <= Len(r) /\ l[w.i] = r[w.j]

(* Mutant of LeftDue: the comparison is the other way round.               *)
LeftDueSwapped(l, r, w) ==
  /\ w.i <= Len(l)
  /\ w.j <= Len(r) => Lcs(l, r)[<<w.i + 1, w.j>>] < Lcs(l, r)[<<w.i, w.j + 1>>]

LeftDue(l, r, w) ==
  /\ w.i <= Len(l)
  /\ w.j <= Len(r) => Lcs(l, r)[<<w.i + 1, w.j>>] >= Lcs(l, r)[<<w.i, w.j + 1>>]

(* Mutant of Turn: the keys left over on the right are not listed.         *)
TurnWithoutTail(l, r, w) ==
  IF BothDue(l, r, w)
  THEN [i |-> w.i + 1, j |-> w.j + 1, rows |-> Append(w.rows, Row(l[w.i], r[w.j]))]
  ELSE IF LeftDue(l, r, w) THEN [w EXCEPT !.i = @ + 1, !.rows = Append(@, Row(l[w.i], None))]
  ELSE IF w.i <= Len(l) THEN [w EXCEPT !.j = @ + 1, !.rows = Append(@, Row(None, r[w.j]))]
  ELSE w

Turn(l, r, w) ==
  IF BothDue(l, r, w)
  THEN [i |-> w.i + 1, j |-> w.j + 1, rows |-> Append(w.rows, Row(l[w.i], r[w.j]))]
  ELSE IF LeftDue(l, r, w) THEN [w EXCEPT !.i = @ + 1, !.rows = Append(@, Row(l[w.i], None))]
  ELSE IF w.j <= Len(r) THEN [w EXCEPT !.j = @ + 1, !.rows = Append(@, Row(None, r[w.j]))]
  ELSE w

Align(l, r) ==
  LET walk[k \in 0..(Len(l) + Len(r))] == IF k = 0 THEN Begin ELSE Turn(l, r, walk[k - 1])
  IN  walk[Len(l) + Len(r)].rows

-----------------------------------------------------------------------------
(* buildRows: the changes of two documents, and the documents it prints.   *)

Rows(l, r) == Align(Keys(l), Keys(r))
Common(l, r) == {w \in ToSet(Rows(l, r)) : w.leftKey # None /\ w.rightKey # None}

(* Own entries of the delta the API returned: the keys whose values differ.*)
InDelta(l, r, k) == At(l, k) # At(r, k)

ChangeKind(w) ==
  IF w.rightKey = None THEN "removed" ELSE IF w.leftKey = None THEN "added" ELSE "modified"

ChangesOf(l, r) ==
  {[kind |-> ChangeKind(w), leftKey |-> w.leftKey, rightKey |-> w.rightKey] :
     w \in {w \in ToSet(Rows(l, r)) : w \in Common(l, r) => InDelta(l, r, w.leftKey)}}

Listed(cs, kind) == Cardinality({c \in cs : c.kind = kind})

(* What the API says beside the delta (internal/diff/diff.go): countDeltas *)
(* tallies the deltas of the two maps, which have no order, and            *)
(* countUnchangedTopLevel the keys that no delta touched.                  *)
KeySet(d) == ToSet(Keys(d))
Deltas(l, r) ==
  [added |-> KeySet(r) \ KeySet(l), removed |-> KeySet(l) \ KeySet(r),
   changed |-> {k \in KeySet(l) \cap KeySet(r) : InDelta(l, r, k)}]

(* Mutant of Touched: a deleted key has no position after the change.      *)
TouchedAfter(ds) == ds.added \cup ds.changed

Touched(ds) == ds.added \cup ds.removed \cup ds.changed

Stats(l, r) ==
  LET ds == Deltas(l, r)
  IN  [added |-> Cardinality(ds.added), removed |-> Cardinality(ds.removed),
       changed |-> Cardinality(ds.changed),
       unchanged |-> Cardinality((KeySet(l) \cup KeySet(r)) \ Touched(ds))]

Modified(l, r) == Touched(Deltas(l, r)) # {}

(* delta[key] of a key without an entry is what the key inherits, which is *)
(* no array: the rows of the value are built as if it were a container.    *)
(* The values stand for numbers and booleans, which have no keys.  (null   *)
(* makes Object.keys throw, lineDiff.ts:262, and the comparison fails; a   *)
(* string is printed as an object of its characters.)                      *)
Misread(l, r) == {w.leftKey : w \in {w \in Common(l, r) : w.leftKey \in Inherited
                                                     /\ ~InDelta(l, r, w.leftKey)}}

Printed(d, misread) ==
  [i \in DOMAIN d |-> IF d[i].key \in misread THEN [d[i] EXCEPT !.val = Emptied] ELSE d[i]]

(* runCompare once its answer is there: setLeft, setRight and setChanges.  *)
Show(l, r) ==
  /\ left' = Printed(l, Misread(l, r))
  /\ right' = Printed(r, Misread(l, r))
  /\ changes' = ChangesOf(l, r)

-----------------------------------------------------------------------------
(* applyChange.ts.                                                         *)

Assign(target, k, v) == [target EXCEPT ![IndexOf(target, k)].val = v]
Delete(target, k) == IF Has(target, k) THEN RemoveAt(target, IndexOf(target, k)) ELSE target

(* Where insertObjectKey puts a new key: before the first of the source's  *)
(* later siblings that the target has, else after the last of the earlier, *)
(* else at the end.                                                        *)
Position(target, source, k) ==
  LET s == Keys(source)
      pos == IndexOf(source, k)
      later == SelectInSubSeq(s, pos + 1, Len(s), LAMBDA x : Has(target, x))
      earlier == SelectLastInSubSeq(s, 1, pos - 1, LAMBDA x : Has(target, x))
  IN  IF later > 0 THEN IndexOf(target, s[later])
      ELSE IF earlier > 0 THEN IndexOf(target, s[earlier]) + 1
      ELSE Len(target) + 1

(* Mutant of InsertKey: a key the target has already is inserted again.    *)
InsertKeyTwice(target, source, k, v) ==
  InsertAt(target, Position(target, source, k), [key |-> k, val |-> v])

(* Mutant of InsertKey: a new key goes to the end of the object.           *)
InsertKeyLast(target, source, k, v) ==
  IF Has(target, k) THEN Assign(target, k, v) ELSE Append(target, [key |-> k, val |-> v])

InsertKey(target, source, k, v) ==
  IF Has(target, k) THEN Assign(target, k, v)
  ELSE InsertAt(target, Position(target, source, k), [key |-> k, val |-> v])

(* writeSide: the change deletes on the side that has the value alone,     *)
(* inserts on the side that lacks it and else assigns.                     *)
WriteSide(target, source, targetKey, sourceKey) ==
  IF sourceKey = None THEN Delete(target, targetKey)
  ELSE IF targetKey = None THEN InsertKey(target, source, sourceKey, At(source, sourceKey))
  ELSE Assign(target, targetKey, At(source, sourceKey))

CopiedLeft(l, r, c, dir) ==
  IF dir = "to-left" THEN WriteSide(l, r, c.leftKey, c.rightKey) ELSE l
CopiedRight(l, r, c, dir) ==
  IF dir = "to-right" THEN WriteSide(r, l, c.rightKey, c.leftKey) ELSE r

-----------------------------------------------------------------------------
Init == left \in Objects /\ right \in Objects /\ changes = None

Compare == Show(left, right)

(* An arrow: the copy, and the quiet comparison of the result.             *)
Copy(c, dir) ==
  /\ changes # None /\ c \in changes
  /\ Show(CopiedLeft(left, right, c, dir), CopiedRight(left, right, c, dir))

Next == Compare \/ \E c \in Change, dir \in Direction : Copy(c, dir)
Spec == Init /\ [][Next]_vars

-----------------------------------------------------------------------------
(* Every row of the comparison lists each side's keys in that side's own   *)
(* order, and all of them (the comment on alignObjectKeys).                *)
Lists(column, ks) ==
  /\ ToSet(column) \ {None} = ToSet(ks)
  /\ \A p, q \in DOMAIN column :
       p < q /\ column[p] # None /\ column[q] # None =>
         \E x, y \in DOMAIN ks : x < y /\ column[p] = ks[x] /\ column[q] = ks[y]
Column(rows, side) == [p \in DOMAIN rows |-> rows[p][side]]
RowsKeepOrder ==
  /\ Lists(Column(Rows(left, right), "leftKey"), Keys(left))
  /\ Lists(Column(Rows(left, right), "rightKey"), Keys(right))

(* The keys of a set stand in the same order in both documents.            *)
InStep(l, r, ks) ==
  \A j, k \in ks : IndexOf(l, j) < IndexOf(l, k) => IndexOf(r, j) < IndexOf(r, k)
SameOrder(l, r) == InStep(l, r, KeySet(l) \cap KeySet(r))

(* As many keys share a row as any alignment that keeps both orders can    *)
(* pair: the reference tries every set of common keys.                     *)
PairsAreMost ==
  \A ks \in SUBSET (KeySet(left) \cap KeySet(right)) :
    InStep(left, right, ks) => Cardinality(ks) <= Cardinality(Common(left, right))

(* "-> moves that change onto the right file, and <- moves it onto the     *)
(* left" (ComparePage.tsx:560-561): when the common keys are in the same   *)
(* order, an arrow settles its own change, leaves every other as it is and *)
(* keeps the order, so any sequence of arrows ends in equal files.         *)
ArrowsResolve ==
  changes # None /\ SameOrder(left, right) =>
    \A c \in changes, dir \in Direction :
      LET l == CopiedLeft(left, right, c, dir)
          r == CopiedRight(left, right, c, dir)
      IN  ChangesOf(l, r) = changes \ {c} /\ SameOrder(l, r)

(* The statistics of the API, which ignores the order of keys, and the     *)
(* list of changes, which does not, differ by exactly the common keys that *)
(* found no row together: each is listed as removed and as added.  With    *)
(* the keys in one order they are the same, and "No differences" is shown  *)
(* (ComparePage.tsx:499-503) if and only if nothing is listed.             *)
StatsAgree ==
  LET stats == Stats(left, right)
      listed == ChangesOf(left, right)
      paired == {w.leftKey : w \in Common(left, right)}
      apart == (KeySet(left) \cap KeySet(right)) \ paired
      differing == {k \in apart : InDelta(left, right, k)}
  IN  /\ Listed(listed, "added") = stats.added + Cardinality(apart)
      /\ Listed(listed, "removed") = stats.removed + Cardinality(apart)
      /\ Listed(listed, "modified") + Cardinality(differing) = stats.changed
      /\ Cardinality(Common(left, right)) + Cardinality(apart)
           = Listed(listed, "modified") + Cardinality(differing) + stats.unchanged
      /\ SameOrder(left, right) => (Modified(left, right) <=> listed # {})

=============================================================================
