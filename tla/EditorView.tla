----------------------------- MODULE EditorView -----------------------------
(***************************************************************************)
(* The diff in the two editors: what JsonEditor.tsx hands to CodeMirror    *)
(* (lineHighlightExtension.ts, collapseUnchangedExtension.ts) and when.    *)
(* React renders the page's state and runs the effects of the render       *)
(* later, in one go: editor by editor, one replaces the document and the   *)
(* next the extensions; then those of the page.  CodeMirror keeps the      *)
(* decorations of an editor and asks the extensions in place for new ones  *)
(* when the document changes.  A document is its number of lines.          *)
(***************************************************************************)
EXTENDS DiffView

CONSTANT
  DocLines  \* the lengths of the documents that are typed or loaded

ASSUME DocAssumption == DocLines \subseteq Nat \ {0}

VARIABLES
  texts,     \* how many lines the page's text of either side has
  rendered,  \* the props of the last render
  effect,    \* which of its effects is next; 0 when all have run
  retext,    \* the sides whose text is new in it, until their effect has run
  editors    \* either editor: document, extensions and decorations

viewVars == <<vars, texts, rendered, effect, retext, editors>>

Side == {"left", "right"}

-----------------------------------------------------------------------------
(* The props a render hands to the editors: no lines, folds or arrows      *)
(* unless a diff is shown.                                                 *)

CurrentHunk == IF selected = None THEN {} ELSE LinesOf(changes[selected])

Props ==
  [texts |-> texts, lines |-> [side \in Side |-> IF side = "left" THEN left ELSE right],
   hunk |-> CurrentHunk, folds |-> VisibleFolds, arrows |-> changes]

Settled == effect = 0 /\ ~fresh /\ ~due /\ rendered = Props

-----------------------------------------------------------------------------
(* The decorations that extensions ask for in a document.                  *)

(* The lines with a class.                                                 *)
Marked(lines, doc) == {i \in DOMAIN lines : i <= doc /\ lines[i] # "unchanged"}
Current(lines, hunk, doc) == {i \in DOMAIN lines : i <= doc} \cap hunk

(* Mutant of Drawn: a fold up to the last line counts as out of bounds.    *)
DrawnNotLast(folds, doc) == {f \in folds : f.end < doc}

(* The folds that lie within the document.                                 *)
Drawn(folds, doc) == {f \in folds : f.end <= doc}

Decorated(e) ==
  [e EXCEPT !.marked = Marked(e.lines, e.doc),
            !.current = Current(e.lines, e.hunk, e.doc),
            !.drawn = Drawn(e.folds, e.doc)]

(* Mutant of Edited: the decorations stay as they were.                    *)
EditedAlone(e, n) == [e EXCEPT !.doc = n]

(* An editor whose document is replaced: both fields update.               *)
Edited(e, n) == Decorated([e EXCEPT !.doc = n])

(* An editor whose extensions are replaced: both fields are created anew.  *)
Reconfigured(e, props, side) ==
  Decorated([e EXCEPT !.lines = props.lines[side], !.hunk = props.hunk, !.arrows = props.arrows,
                      !.folds = props.folds])

Hidden(e) == UNION {LinesOf(f) : f \in e.drawn}

(* changeStartLines: the arrow on a line is that of the narrowest change   *)
(* that starts there, the last of them.                                    *)
Width(c) == c.end - c.start
Starting(cs, i) == {k \in DOMAIN cs : cs[k].start = i}

(* Mutant of Arrow: the arrow stands on the last line of its change.       *)
ArrowAtEnd(cs, i) ==
  LET ending == {k \in DOMAIN cs : cs[k].end = i}
  IN  IF ending = {} THEN None ELSE CHOOSE k \in ending : TRUE

Arrow(cs, i) ==
  IF Starting(cs, i) = {} THEN None
  ELSE CHOOSE k \in Starting(cs, i) : \A j \in Starting(cs, i) :
         Width(cs[k]) < Width(cs[j]) \/ (Width(cs[k]) = Width(cs[j]) /\ j <= k)

(* The gutter asks for an arrow at every line that is not folded away.     *)
ArrowLines(e, k) == {i \in 1..e.doc \ Hidden(e) : Arrow(e.arrows, i) = k}

-----------------------------------------------------------------------------
(* The page's steps.  An answer or a click may come before the effects of  *)
(* the last render have run, not between them.                             *)

Idle == effect \in {0, 1}
Committed == Idle /\ ~fresh /\ rendered = Props
viewOnly == <<rendered, effect, retext, editors>>

ShowDiff ==
  /\ Committed
  /\ \E built \in Diff : Compare(built) \/ Copy(built)
  /\ texts' = [left |-> Len(left'), right |-> Len(right')]
  /\ UNCHANGED viewOnly

ClearDiff == Committed /\ Clear /\ UNCHANGED <<texts, viewOnly>>

Move ==
  /\ Committed
  /\ GoNext \/ GoPrev \/ (\E i \in DOMAIN changes : Pick(i)) \/ SetEnabled
  /\ UNCHANGED <<texts, viewOnly>>

(* An example or a file.  One that comes late, after a comparison of other *)
(* texts, leaves the diff of those.                                        *)
Load(docs) ==
  /\ Committed
  /\ texts' = docs
  /\ Clear \/ UNCHANGED vars
  /\ UNCHANGED viewOnly

-----------------------------------------------------------------------------
(* What happens in an editor, at any time: it does not wait for React.     *)

(* The editor changes first and redecorates.  onChange is that of the last *)
(* render whose effects have run, and clears a diff if that one had any.   *)
Type(side, n) ==
  /\ Idle
  /\ editors' = [editors EXCEPT ![side] = Edited(editors[side], n)]
  /\ texts' = [texts EXCEPT ![side] = n]
  /\ IF editors[side].clears THEN Clear \/ (left = <<>> /\ UNCHANGED vars) ELSE UNCHANGED vars
  /\ UNCHANGED <<rendered, effect, retext>>

(* The marker of a fold is clicked.                                        *)
ClickMarker(side, f) ==
  /\ Idle
  /\ ExpandFold(f)
  /\ UNCHANGED <<texts, viewOnly>>

-----------------------------------------------------------------------------
(* A render, once the effects of the one before have run, and its effects. *)

Render ==
  /\ effect = 0 /\ (fresh \/ rendered # Props)
  /\ rendered' = Props
  /\ effect' = 1
  /\ retext' = {side \in Side : texts[side] # rendered.texts[side]}
  /\ RenderLines \/ (~fresh /\ UNCHANGED vars)
  /\ UNCHANGED <<texts, editors>>

Redraw(side) ==
  /\ effect = (IF side = "left" THEN 1 ELSE 3)
  /\ effect' = effect + 1
  /\ retext' = retext \ {side}
  /\ LET e == [editors[side] EXCEPT !.clears = rendered.lines["left"] # <<>>]
     IN  editors' = [editors EXCEPT ![side] =
           IF side \in retext THEN Edited(e, rendered.texts[side]) ELSE e]
  /\ UNCHANGED <<vars, texts, rendered>>

Reconfigure(side) ==
  /\ effect = (IF side = "left" THEN 2 ELSE 4)
  /\ effect' = effect + 1
  /\ editors' = [editors EXCEPT ![side] = Reconfigured(editors[side], rendered, side)]
  /\ UNCHANGED <<vars, texts, rendered, retext>>

PageEffects ==
  /\ effect = 5 /\ effect' = 0
  /\ Forget \/ (~due /\ UNCHANGED vars)
  /\ UNCHANGED <<texts, rendered, retext, editors>>

-----------------------------------------------------------------------------
Bare(doc) ==
  [doc |-> doc, lines |-> <<>>, hunk |-> {}, folds |-> {}, arrows |-> <<>>,
   marked |-> {}, current |-> {}, drawn |-> {}, clears |-> FALSE]

EditorInit ==
  /\ Init
  /\ texts \in [Side -> DocLines]
  /\ rendered = Props
  /\ effect = 0 /\ retext = {}
  /\ editors = [side \in Side |-> Bare(texts[side])]

EditorNext ==
  \/ ShowDiff
  \/ ClearDiff
  \/ Move
  \/ \E docs \in [Side -> DocLines] : Load(docs)
  \/ \E side \in Side, n \in DocLines : Type(side, n)
  \/ \E side \in Side : \E f \in editors[side].drawn : ClickMarker(side, f)
  \/ Render
  \/ \E side \in Side : Redraw(side) \/ Reconfigure(side)
  \/ PageEffects

EditorSpec == EditorInit /\ [][EditorNext]_viewVars

-----------------------------------------------------------------------------
(* Whatever is typed, loaded or answered between a render and its effects, *)
(* and while the effects replace documents and extensions one by one, no   *)
(* decoration of an editor lies beyond the end of its document, where      *)
(* CodeMirror would throw, and no fold hides a line that is highlighted in *)
(* that editor or belongs to the current change: its highlights and folds  *)
(* are never of different diffs (the fields of lineHighlightExtension.ts   *)
(* 155-164 and collapseUnchangedExtension.ts 69-78, JsonEditor.tsx 88-99). *)
DecorationsAgree ==
  \A side \in Side :
    LET e == editors[side]
    IN  /\ e.marked \cup e.current \cup Hidden(e) \subseteq 1..e.doc
        /\ {i \in e.marked : e.lines[i] # "placeholder"} \cap Hidden(e) = {}
        /\ e.current \cap Hidden(e) = {}

(* The documents on screen are those of the diff.                          *)
ShowsDiff ==
  left # <<>> /\ Settled /\ texts["left"] = Len(left) /\ texts["right"] = Len(right)

(* Once the effects have run, both editors decorate the diff that is       *)
(* shown, whatever was typed or clicked meanwhile: they highlight all of   *)
(* its lines that are not unchanged, hide those of the visible folds and   *)
(* no other, and the same lines are current in both: those of the selected *)
(* change, of which there is one whenever the diff has changes             *)
(* (lineHighlightExtension.ts 135-148, collapseUnchangedExtension.ts 43-61)*)
EditorsShowTheDiff ==
  ShowsDiff =>
    \A side \in Side :
      LET e == editors[side]
          lines == IF side = "left" THEN left ELSE right
      IN  /\ e.doc = LineCount
          /\ e.marked = {i \in 1..LineCount : lines[i] # "unchanged"}
          /\ Hidden(e) = UNION {LinesOf(f) : f \in VisibleFolds}
          /\ changes # <<>> =>
               selected # None /\ e.current = LinesOf(changes[selected]) /\ e.current # {}

(* "After Compare, each change has an arrow" (ComparePage.tsx:560): in     *)
(* both editors, one of its own, on its first line, which is not folded    *)
(* away.                                                                   *)
EveryChangeHasAnArrow ==
  ShowsDiff =>
    \A side \in Side, k \in DOMAIN changes :
      ArrowLines(editors[side], k) = {changes[k].start}

=============================================================================
