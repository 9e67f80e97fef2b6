----------------------------- MODULE ArrayMerge -----------------------------
(***************************************************************************)
(* Compare and copy on arrays: alignArrayIndices and the array branches of *)
(* buildRows (frontend/src/lib/lineDiff.ts), copyChange on an array        *)
(* (frontend/src/lib/applyChange.ts), and what runCompare puts back into   *)
(* the editors.  The edit script comes from gojsondiff on the server; any  *)
(* script it can return is considered.  Indices count from 1.              *)
(***************************************************************************)
EXTENDS Naturals, FiniteSets, SequencesExt

CONSTANTS
  Value,
  MaxLen,      \* bound on the arrays
  None

VARIABLES
  left, right,  \* the arrays in the editors
  changes       \* the changes listed, or None before the first Compare

vars == <<left, right, changes>>

Index == 1..(2 * MaxLen)
Kind == {"added", "removed", "modified", "moved"}
Change == [kind : Kind, leftKey : Index \cup {None}, rightKey : Index \cup {None}]
Direction == {"to-left", "to-right"}

Holds(d, i) == i \in DOMAIN d

(* Every change points into the arrays it was listed for.                  *)
TypeOK ==
  /\ left \in Seq(Value) /\ right \in Seq(Value)
  /\ changes = None \/ changes \subseteq Change
  /\ changes # None => \A c \in changes :
       /\ c.leftKey # None => Holds(left, c.leftKey)
       /\ c.rightKey # None => Holds(right, c.rightKey)

-----------------------------------------------------------------------------
(* The edit scripts of gojsondiff: a longest common subsequence stays,     *)
(* equal elements outside it move, what remains between the same two kept  *)
(* elements is paired as modified or is removed and added.                 *)

LeftKept(l, s) == {i \in DOMAIN l : i \notin s.removed /\ ~\E j \in DOMAIN s.from : s.from[j] = i}
RightKept(r, s) == {j \in DOMAIN r : j \notin s.added /\ j \notin DOMAIN s.from}
Below(S, x) == Cardinality({h \in S : h < x})
InOrder(S) == [k \in 1..Cardinality(S) |-> CHOOSE i \in S : Below(S, i) = k - 1]

(* The pairs of indices that keep their order.                             *)
Kept(l, r, s) ==
  LET ls == InOrder(LeftKept(l, s))
      rs == InOrder(RightKept(r, s))
  IN  {<<ls[p], rs[p]>> : p \in DOMAIN ls}

Equal(l, r, s) == {k \in Kept(l, r, s) : l[k[1]] = r[k[2]]}

(* A script is [removed, added, from]: from[j] is the left index of the    *)
(* element that moves to j.                                                *)
Candidates(l, r) ==
  {s \in UNION {[removed : SUBSET (DOMAIN l), added : SUBSET (DOMAIN r \ moved),
                 from : [moved -> DOMAIN l]] : moved \in SUBSET (DOMAIN r)} :
     /\ IsInjective(s.from)
     /\ \A j \in DOMAIN s.from : s.from[j] \notin s.removed /\ l[s.from[j]] = r[j]
     /\ Cardinality(LeftKept(l, s)) = Cardinality(RightKept(r, s))}

(* Two kept elements have nothing both removed and added between them.     *)
Apart(l, r, s, i, j) == l[i] # r[j] /\ \E k \in Equal(l, r, s) : (k[1] < i) # (k[2] < j)

Scripts(l, r) ==
  {s \in Candidates(l, r) :
     /\ \A i \in s.removed, j \in s.added : Apart(l, r, s, i, j)
     /\ \A t \in Candidates(l, r) : Cardinality(Equal(l, r, t)) <= Cardinality(Equal(l, r, s))}

-----------------------------------------------------------------------------
(* alignArrayIndices.                                                      *)

Row(i, j) == [leftKey |-> i, rightKey |-> j]

Splice(d, j, v) == InsertAt(d, IF j <= Len(d) THEN j ELSE Len(d) + 1, v)

(* What is spliced in at j: an added element or one that moves there.      *)
Slot(s, j) == IF j \in s.added THEN None ELSE s.from[j]

(* Mutant of Insertions: the moves are spliced in before the additions.    *)
InsertionsUnsorted(s) == InOrder(DOMAIN s.from) \o InOrder(s.added)

Insertions(s) == InOrder(s.added \cup DOMAIN s.from)

(* The right side slot by slot, as left indices: the survivors in order,   *)
(* then every added (None) or moved element spliced in at its new index.   *)
Working(l, s) ==
  LET js == Insertions(s)
      working[t \in 0..Len(js)] ==
        IF t = 0 THEN InOrder(LeftKept(l, s))
        ELSE Splice(working[t - 1], js[t], Slot(s, js[t]))
  IN  working[Len(js)]

(* Mutant of RemovedDue: the removed elements come after all slots.        *)
RemovedDueLast(w, removed, t) == t.ptr \in DOMAIN removed /\ t.slot > Len(w)

(* A removed element is listed before the first slot with a later index.   *)
RemovedDue(w, removed, t) ==
  /\ t.ptr \in DOMAIN removed
  /\ t.slot > Len(w) \/ (w[t.slot] # None /\ removed[t.ptr] < w[t.slot])

Begin == [slot |-> 1, ptr |-> 1, rows |-> <<>>]
Turn(w, removed, t) ==
  IF RemovedDue(w, removed, t)
  THEN [t EXCEPT !.ptr = @ + 1, !.rows = Append(@, Row(removed[t.ptr], None))]
  ELSE [t EXCEPT !.slot = @ + 1, !.rows = Append(@, Row(w[t.slot], t.slot))]

Walk(w, removed) ==
  LET walk[k \in 0..(Len(w) + Len(removed))] ==
        IF k = 0 THEN Begin ELSE Turn(w, removed, walk[k - 1])
  IN  walk[Len(w) + Len(removed)].rows

Rows(l, s) == Walk(Working(l, s), InOrder(s.removed))

-----------------------------------------------------------------------------
(* buildRows: the changes, and the arrays it prints, row after row.        *)

OnSide(rows, side) ==
  LET at == InOrder({p \in DOMAIN rows : rows[p][side] # None})
  IN  [k \in DOMAIN at |-> rows[at[k]]]
OnLeft(rows) == OnSide(rows, "leftKey")
OnRight(rows) == OnSide(rows, "rightKey")

ChangeKind(w, s) ==
  IF w.rightKey = None THEN "removed"
  ELSE IF w.leftKey = None THEN "added"
  ELSE IF w.rightKey \in DOMAIN s.from THEN "moved" ELSE "modified"

(* A kept pair is listed when the delta has an entry for it.               *)
Listed(l, r, s, w) ==
  w.leftKey # None /\ w.rightKey # None /\ w.rightKey \notin DOMAIN s.from
    => l[w.leftKey] # r[w.rightKey]

ChangesOf(l, r, s) ==
  {[kind |-> ChangeKind(w, s), leftKey |-> w.leftKey, rightKey |-> w.rightKey] :
     w \in {w \in ToSet(Rows(l, s)) : Listed(l, r, s, w)}}

PrintedLeft(l, s) == LET rows == OnLeft(Rows(l, s)) IN [k \in DOMAIN rows |-> l[rows[k].leftKey]]
PrintedRight(r, rows) == [k \in DOMAIN OnRight(rows) |-> r[OnRight(rows)[k].rightKey]]

(* runCompare once its answer is there: setLeft, setRight and setChanges.  *)
Show(l, r) ==
  \E s \in Scripts(l, r) :
    /\ left' = PrintedLeft(l, s)
    /\ right' = PrintedRight(r, Rows(l, s))
    /\ changes' = ChangesOf(l, r, s)

-----------------------------------------------------------------------------
(* applyChange.ts on an array.                                             *)

(* Mutant of Without: one past the element.                                 *)
WithoutNext(d, i) == IF Holds(d, i + 1) THEN RemoveAt(d, i + 1) ELSE d

Without(d, i) == IF Holds(d, i) THEN RemoveAt(d, i) ELSE d

WriteSide(target, source, kind, targetKey, sourceKey) ==
  IF kind = "moved" THEN Splice(Without(target, targetKey), sourceKey, source[sourceKey])
  ELSE IF sourceKey = None THEN Without(target, targetKey)
  ELSE IF targetKey = None THEN Splice(target, sourceKey, source[sourceKey])
  ELSE [target EXCEPT ![targetKey] = source[sourceKey]]

CopiedLeft(l, r, c, dir) ==
  IF dir = "to-left" THEN WriteSide(l, r, c.kind, c.leftKey, c.rightKey) ELSE l
CopiedRight(l, r, c, dir) ==
  IF dir = "to-right" THEN WriteSide(r, l, c.kind, c.rightKey, c.leftKey) ELSE r

-----------------------------------------------------------------------------
Init == left \in BoundedSeq(Value, MaxLen) /\ right \in BoundedSeq(Value, MaxLen) /\ changes = None

Compare == Show(left, right)

(* No guard of the code: a copy that makes an array longer than MaxLen is  *)
(* out of the model's bounds.                                              *)
Fits(d) == Len(d) <= MaxLen

(* An arrow: the copy, and the quiet comparison of the result.             *)
Copy(c, dir) ==
  /\ changes # None /\ c \in changes
  /\ LET l == CopiedLeft(left, right, c, dir)
         r == CopiedRight(left, right, c, dir)
     IN  Fits(l) /\ Fits(r) /\ Show(l, r)

Next == Compare \/ \E c \in Change, dir \in Direction : Copy(c, dir)
Spec == Init /\ [][Next]_vars

-----------------------------------------------------------------------------
(* "insertions/removals/moves land at their true position" (lineDiff.ts:   *)
(* 133-135): the rows list the right side from first to last, every left   *)
(* element once, and pair exactly what the script keeps or moves.          *)
AlignmentIsTrue ==
  \A s \in Scripts(left, right) :
    LET rows == Rows(left, s)
        pairs == Kept(left, right, s) \cup {<<s.from[j], j>> : j \in DOMAIN s.from}
    IN  /\ [k \in DOMAIN OnRight(rows) |-> OnRight(rows)[k].rightKey] = [j \in DOMAIN right |-> j]
        /\ Len(OnLeft(rows)) = Len(left)
        /\ {w.leftKey : w \in ToSet(OnLeft(rows))} = DOMAIN left
        /\ {<<w.leftKey, w.rightKey>> : w \in ToSet(OnLeft(rows)) \cap ToSet(OnRight(rows))} = pairs

(* As long as nothing moves, comparing leaves both arrays as they are, and *)
(* always the right one.                                                   *)
CompareLeavesArrays ==
  \A s \in Scripts(left, right) :
    /\ PrintedRight(right, Rows(left, s)) = right
    /\ DOMAIN s.from = {} => PrintedLeft(left, s) = left

(* An arrow on the only difference makes the two arrays equal, unless that *)
(* difference is a move.                                                   *)
LastArrowSettles ==
  changes # None =>
    \A c \in changes, dir \in Direction :
      changes = {c} /\ c.kind # "moved" =>
        CopiedLeft(left, right, c, dir) = CopiedRight(left, right, c, dir)

(* "-> moves that change onto the right file, and <- moves it onto the     *)
(* left" (ComparePage.tsx:560-561): an arrow on an element that moved      *)
(* moves it, so no element is lost or doubled.                             *)
Count(d, v) == Cardinality({i \in DOMAIN d : d[i] = v})
MovesKeepElements ==
  changes # None =>
    \A c \in changes, dir \in Direction, v \in Value :
      c.kind = "moved" =>
        /\ Count(CopiedLeft(left, right, c, dir), v) = Count(left, v)
        /\ Count(CopiedRight(left, right, c, dir), v) = Count(right, v)

=============================================================================
