----------------------------- MODULE MCDiffView -----------------------------
(* Two instances in one run.  DiffView alone is checked on containers of   *)
(* at most two rows, each a value or a container of at most two values.    *)
(* With the editors, it is checked on four diffs: two that fold lines up   *)
(* to the last one at the same place, one that folds lines from the first  *)
(* on, placeholders among them, and a short one that folds nothing.        *)
EXTENDS EditorView, DiffRows, SequencesExt

Value(kind, l, r) == [kind |-> kind, left |-> l, right |-> r]
Container(rows) == [kind |-> "nested", diff |-> Build(rows)]

Inner == {Value("unchanged", 6, 6), Value("type", 1, 3), Value("removed", 2, 0)}
Outer == {Value("unchanged", 7, 7), Value("added", 0, 2), Value("moved", 2, 2)}

Nested == {Container(<<a, b>>) : a \in Inner, b \in Inner} \cup {Container(<<>>)}
DiffsAlone == {Build(rows) : rows \in BoundedSeq(Outer, 2) \cup {<<n>> : n \in Nested}
                                        \cup {<<Value("moved", 2, 2), n>> : n \in Nested}}

DiffsInEditors ==
  {Build(rows) : rows \in {<<Value("moved", 2, 2), Value("unchanged", 7, 7)>>,
                           <<Value("added", 0, 2), Value("unchanged", 7, 7)>>,
                           <<Value("unchanged", 7, 5), Value("added", 0, 2)>>,
                           <<Value("type", 1, 3)>>}}

Diffs == DiffsAlone \cup DiffsInEditors

VARIABLE alone  \* which of the two instances a behaviour is of

MCInit == EditorInit /\ alone \in BOOLEAN /\ (alone => texts = [side \in Side |-> 1])

Alone == alone /\ Next /\ UNCHANGED <<texts, viewOnly, alone>>

OnScreen == [left |-> left, right |-> right, changes |-> changes]
NoDiff == [left |-> <<>>, right |-> <<>>, changes |-> <<>>]

InEditors ==
  /\ ~alone /\ EditorNext
  /\ OnScreen' \in DiffsInEditors \cup {OnScreen, NoDiff}
  /\ UNCHANGED alone

MCSpec == MCInit /\ [][Alone \/ InEditors]_<<viewVars, alone>>

=============================================================================
