------------------------------ MODULE DiffView ------------------------------
(***************************************************************************)
(* The diff on screen: the selection that moves over the changes           *)
(* (ComparePage.tsx), and the folds that hide unchanged lines              *)
(* (collapseUnchanged.ts, useUnchangedCollapse.ts).  A diff is what        *)
(* buildRows returns: the status of every line of either side, and the     *)
(* range of lines of every change.  Lines count from 1.                    *)
(***************************************************************************)
EXTENDS Integers, Sequences

CONSTANTS
  Diff,        \* the diffs buildRows may return
  Context,     \* COLLAPSE_CONTEXT
  MinLines,    \* COLLAPSE_MIN_LINES
  None

Kind == {"added", "removed", "modified", "type", "moved"}
Status == Kind \cup {"unchanged", "placeholder"}
Span == [start : Nat, end : Nat]
Change == [kind : Kind, start : Nat, end : Nat]

ASSUME ViewAssumption ==
  /\ Diff \subseteq [left : Seq(Status), right : Seq(Status), changes : Seq(Change)]
  /\ Context \in Nat /\ MinLines \in Nat \ {0} /\ None \notin Nat

VARIABLES
  left, right,  \* leftLines, rightLines; empty when no diff is shown
  changes,      \* the changes listed, in order
  selected,     \* selectedChange
  enabled,      \* collapse.enabled
  expanded,     \* collapse.expanded, as folds
  fresh,        \* the lines have changed and are not rendered yet
  due,          \* they are rendered, and the effect on them has yet to run
  coming,       \* the folds of the rendered lines, until that effect has run
  markers,      \* the folds whose markers may be there, of earlier lines if it has not
  opened        \* the folds opened since the lines changed (history)

vars == <<left, right, changes, selected, enabled, expanded, fresh, due, coming, markers, opened>>

TypeOK ==
  /\ left \in Seq(Status) /\ right \in Seq(Status)
  /\ changes \in Seq(Change)
  /\ selected \in 1..Len(changes) \cup {None}
  /\ enabled \in BOOLEAN
  /\ fresh \in BOOLEAN /\ due \in BOOLEAN
  /\ expanded \subseteq Span /\ opened \subseteq Span
  /\ coming \subseteq Span /\ markers \subseteq Span

-----------------------------------------------------------------------------
(* collapseUnchanged.ts.                                                   *)

Content(s, i) == i \in DOMAIN s /\ s[i] \notin {"unchanged", "placeholder"}
IsChangeRow(i) == Content(left, i) \/ Content(right, i)

LineCount == IF Len(left) >= Len(right) THEN Len(left) ELSE Len(right)

(* The longest runs of rows without a change.                              *)
Runs ==
  {r \in [start : 1..LineCount, end : 1..LineCount] :
     /\ r.start <= r.end
     /\ \A i \in r.start..r.end : ~IsChangeRow(i)
     /\ r.start > 1 => IsChangeRow(r.start - 1)
     /\ r.end < LineCount => IsChangeRow(r.end + 1)}

(* Mutant of Fold: the last line of the context is folded as well.         *)
FoldOneMore(r) ==
  [start |-> IF r.start > 1 THEN r.start + Context ELSE r.start,
   end |-> IF r.end < LineCount THEN r.end - Context + 1 ELSE r.end]

(* The lines of a run that are not within Context of a change.             *)
Fold(r) ==
  [start |-> IF r.start > 1 THEN r.start + Context ELSE r.start,
   end |-> IF r.end < LineCount THEN r.end - Context ELSE r.end]

AllFolds ==
  IF \E i \in 1..LineCount : IsChangeRow(i)
  THEN {f \in {Fold(r) : r \in Runs} : f.end - f.start + 1 >= MinLines}
  ELSE {}

VisibleFolds == IF enabled THEN AllFolds \ expanded ELSE {}

-----------------------------------------------------------------------------
(* A comparison is shown: the nearest change to a line is selected after a *)
(* copy, the first otherwise.  What was expanded is forgotten later, by an *)
(* effect of the render that shows the lines.                              *)

Distance(c, anchor) == IF c.start >= anchor THEN c.start - anchor ELSE anchor - c.start

Nearest(cs, anchor) ==
  IF cs = <<>> THEN None
  ELSE CHOOSE i \in DOMAIN cs :
    /\ \A j \in DOMAIN cs : Distance(cs[i], anchor) <= Distance(cs[j], anchor)
    /\ \A j \in 1..(i - 1) : Distance(cs[j], anchor) # Distance(cs[i], anchor)

LinesChange == fresh' = TRUE /\ opened' = {}

Show(built, anchor) ==
  /\ left' = built.left /\ right' = built.right
  /\ changes' = built.changes
  /\ selected' = Nearest(built.changes, anchor)
  /\ LinesChange
  /\ UNCHANGED <<enabled, expanded, due, coming, markers>>

(* The arrow on a change ends in a comparison anchored at its first line.  *)
Compare(built) == Show(built, 1)
Copy(built) == \E k \in DOMAIN changes : Show(built, changes[k].start)

(* A diff is cleared if one is shown (ComparePage.tsx 163, 169, 174).      *)
Clear ==
  /\ left # <<>>
  /\ left' = <<>> /\ right' = <<>> /\ changes' = <<>>
  /\ selected' = None
  /\ LinesChange
  /\ UNCHANGED <<enabled, expanded, due, coming, markers>>

(* The lines are rendered: the folds are computed of them, and of what was *)
(* expanded before.                                                        *)
RenderLines ==
  /\ fresh /\ ~due
  /\ fresh' = FALSE /\ due' = TRUE /\ coming' = AllFolds
  /\ UNCHANGED <<left, right, changes, selected, enabled, expanded, markers, opened>>

(* Mutant of Forget: the effect keeps what was expanded.                   *)
ForgetNothing ==
  /\ due /\ due' = FALSE
  /\ markers' = coming /\ coming' = {}
  /\ UNCHANGED <<left, right, changes, selected, enabled, expanded, fresh, opened>>

(* The effect on the lines, after those of the editors.                    *)
Forget ==
  /\ due /\ due' = FALSE
  /\ expanded' = {}
  /\ markers' = coming /\ coming' = {}
  /\ UNCHANGED <<left, right, changes, selected, enabled, fresh, opened>>

-----------------------------------------------------------------------------
(* Moving the selection, which wraps around, and folding.  The buttons and *)
(* keys are those of the last render.                                      *)

Select(k) ==
  /\ ~fresh
  /\ changes # <<>>
  /\ selected' = ((k - 1) % Len(changes)) + 1
  /\ UNCHANGED <<left, right, changes, enabled, expanded, fresh, due, coming, markers, opened>>

GoNext == Select(IF selected = None THEN 1 ELSE selected + 1)
GoPrev == Select(IF selected \in {None, 1} THEN Len(changes) ELSE selected - 1)
Pick(i) == Select(i)

(* A marker is clicked.  Until the effects of the last render have run, it *)
(* may still be one of a diff before.                                      *)
ExpandFold(f) ==
  /\ expanded' = expanded \cup {f} /\ opened' = opened \cup {f}
  /\ UNCHANGED <<left, right, changes, selected, enabled, fresh, due, coming, markers>>

SetEnabled ==
  /\ ~fresh
  /\ AllFolds # {}
  /\ enabled' = ~enabled
  /\ UNCHANGED <<left, right, changes, selected, expanded, fresh, due, coming, markers, opened>>

Init ==
  /\ left = <<>> /\ right = <<>> /\ changes = <<>>
  /\ selected = None
  /\ enabled = TRUE /\ expanded = {} /\ coming = {} /\ markers = {} /\ opened = {}
  /\ fresh = FALSE /\ due = FALSE

Next ==
  \/ \E built \in Diff : Compare(built) \/ Copy(built)
  \/ Clear
  \/ GoNext
  \/ GoPrev
  \/ \E i \in DOMAIN changes : Pick(i)
  \/ \E f \in markers : ExpandFold(f)
  \/ SetEnabled
  \/ RenderLines
  \/ Forget

Spec == Init /\ [][Next]_vars

-----------------------------------------------------------------------------
(* "guaranteeing leftLines.length stays exactly equal to rightLines.length"*)
(* (lineDiff.ts:201-204): both sides have as many lines, and a line that   *)
(* is missing on one side faces a real one on the other.                   *)
SidesLineUp ==
  /\ Len(left) = Len(right)
  /\ \A i \in DOMAIN left : ~(left[i] = "placeholder" /\ right[i] = "placeholder")

(* The ranges of the changes follow each other without overlap and cover   *)
(* the highlighted lines, no more and no less, at any depth of nesting.    *)
LinesOf(c) == c.start..c.end
ChangesCoverRows ==
  /\ \A k \in DOMAIN changes :
       changes[k].start <= changes[k].end /\ (k > 1 => changes[k - 1].end < changes[k].start)
  /\ UNION {LinesOf(changes[k]) : k \in DOMAIN changes} = {i \in 1..LineCount : IsChangeRow(i)}

(* "so the real changes stay on screen" (ComparePage.tsx:585-586): no fold *)
(* hides a line of a change or one of the lines of context around it.      *)
ChangesStayVisible ==
  \A f \in VisibleFolds, k \in DOMAIN changes :
    LinesOf(f) \cap ((changes[k].start - Context)..(changes[k].end + Context)) = {}

(* Folds are known by their position alone.  Nothing of one diff is open   *)
(* in the next, not even a fold at the same position or one whose marker   *)
(* was clicked while the next diff was being shown: once the effects have  *)
(* run, what is expanded was opened since, and is a fold of the diff shown.*)
ExpandedAreShown == ~fresh /\ ~due => expanded \subseteq AllFolds \cap opened

=============================================================================
