--------------------------- MODULE CompareSession ---------------------------
(***************************************************************************)
(* The compare page (frontend/src/pages/ComparePage.tsx) as a state        *)
(* machine: two editors, an ignore list, one displayed diff, and the four  *)
(* kinds of work that finish later than they start - a compare request, a  *)
(* share request, the fetch of the huge example, the reading of a dropped  *)
(* file.                                                                   *)
(*                                                                         *)
(* One action is one event handler, or one continuation after an await,    *)
(* together with the render React runs for the states it set.  A document  *)
(* is a flat JSON object: a function from keys to a value or Absent.  Line *)
(* text, layout and scrolling are left out; a text keeps the JSON it       *)
(* parses to, and whether it is the padded text of a rendered diff.        *)
(***************************************************************************)
EXTENDS Naturals, FiniteSets

CONSTANTS
  Key,           \* the keys of the compared objects
  Value,         \* the values a key can have
  Absent,        \* "this key is not in the object"
  Broken,        \* the JSON of a text that JSON.parse rejects
  None,          \* null / undefined
  Example,       \* the ids of COMPARE_EXAMPLES
  ExampleOf,     \* Example -> [left, right: Doc, ignore: SUBSET Key]
  FirstExample,  \* ALICE_EXAMPLE
  Huge,          \* 'huge-payload', loaded lazily; not in Example when unused
  Typed,         \* what a user can type into an editor
  Dropped,       \* what a dropped or opened file can contain
  IgnoreLists,   \* what a user can type into the ignore field
  MaxSeq,        \* bound on the number of compares of a session
  MaxFiles       \* bound on the files being read at the same time

Doc == [Key -> Value \cup {Absent}]
Side == {"left", "right"}
Json == Doc \cup {Broken}
Text == [json : Json, shape : {"source", "aligned"}]
Kind == {"added", "removed", "modified"}
Change == [key : Key, kind : Kind]
Compared == [left : Doc, right : Doc, ignore : SUBSET Key]
Shared == [Side -> Doc]
Request == [seq : 1..MaxSeq, quiet : BOOLEAN, of : Compared, copied : Key \cup {None}]
FileRead == [side : Side, json : Json, sawDiff : BOOLEAN]

ASSUME ConstantsAssumption ==
  /\ MaxSeq \in Nat /\ MaxFiles \in Nat
  /\ FirstExample \in Example \ {Huge}
  /\ ExampleOf \in [Example -> Compared]
  /\ Typed \subseteq Json /\ Dropped \subseteq Json
  /\ IgnoreLists \subseteq SUBSET Key
  /\ None \notin Key \cup Example \cup Compared \cup {Huge}
  /\ Broken \notin Doc

VARIABLES
  text,      \* left, right
  ignore,    \* parseIgnoreKeys(ignoreKeysInput)
  result,    \* the documents and ignore list the shown answer is about, or None
  lines,     \* leftLines, rightLines: the pair of documents they lay out, or None
  changes,   \* changes
  stripped,  \* strippedFound: the ignored keys the compared documents have
  selected,  \* selectedChange
  error,     \* whether an error is shown
  loading,   \* loading: the Compare button is disabled and says "Comparing"
  seq,       \* diffSeq
  requests,  \* POST /diff calls whose answer has not been handled
  copying,   \* copying.current
  share,     \* the documents behind the share link shown, or None
  sharing,   \* the documents of the POST /shares call in flight, or None
  loaded,    \* loadedExampleRef, loadedExample
  hugeLoad,  \* the huge example is being fetched: its chip is disabled
  hugeReady, \* the huge example has been fetched and is cached
  files      \* files whose contents are still being read

diffVars == <<result, lines, changes, stripped, selected>>
shareVars == <<share, sharing>>
exampleVars == <<loaded, hugeLoad, hugeReady>>
compareVars == <<loading, seq, requests, copying>>
vars == <<text, ignore, diffVars, error, compareVars, shareVars, exampleVars, files>>

Source(json) == [json |-> json, shape |-> "source"]
Aligned(doc) == [json |-> doc, shape |-> "aligned"]

-----------------------------------------------------------------------------
(* What comparing and copying do to the documents.                         *)

Strip(doc, ign) == [k \in Key |-> IF k \in ign THEN Absent ELSE doc[k]]

(* The ignored keys that are there to be ignored.                          *)
Found(c) == {k \in c.ignore : c.left[k] # Absent \/ c.right[k] # Absent}

(* A key on one side only is a row of its own whatever the delta says; a   *)
(* common key is a change when the delta of the stripped documents has it. *)
ChangesOf(c) ==
  LET KindOf(k) == IF c.right[k] = Absent THEN "removed"
                   ELSE IF c.left[k] = Absent THEN "added" ELSE "modified"
      OneSided(k) == Absent \in {c.left[k], c.right[k]}
  IN  {[key |-> k, kind |-> KindOf(k)] :
         k \in {x \in Key : c.left[x] # c.right[x] /\ (OneSided(x) \/ x \notin c.ignore)}}

(* Mutant of CopyOnto: the sides that delete are swapped.                  *)
CopyOntoSwapped(side, target, source, change) ==
  LET deleting == \/ change.kind = "removed" /\ side = "right"
                  \/ change.kind = "added" /\ side = "left"
  IN  [target EXCEPT ![change.key] = IF deleting THEN Absent ELSE source[change.key]]

(* writeSide: a key the source lacks by the change's kind is deleted from  *)
(* the target, any other is overwritten or inserted.                       *)
CopyOnto(side, target, source, change) ==
  LET deleting == \/ change.kind = "removed" /\ side = "left"
                  \/ change.kind = "added" /\ side = "right"
  IN  [target EXCEPT ![change.key] = IF deleting THEN Absent ELSE source[change.key]]

CopyChange(l, r, change, target) ==
  IF target = "left"
  THEN [left |-> CopyOnto("left", l, r, change), right |-> r]
  ELSE [left |-> l, right |-> CopyOnto("right", r, l, change)]

-----------------------------------------------------------------------------
(* Pieces of state updates shared by the handlers.                         *)

(* Mutant of ClearDiff: selectedChange forgotten.                          *)
ClearDiffButSelection ==
  result' = None /\ lines' = None /\ changes' = {} /\ stripped' = {} /\ UNCHANGED selected

ClearDiff ==
  /\ result' = None
  /\ lines' = None
  /\ changes' = {}
  /\ stripped' = {}
  /\ selected' = None

ClearShownDiff == IF result # None THEN ClearDiff ELSE UNCHANGED diffVars

(* The text markExampleIfStillMatching compares a side with.  The huge     *)
(* example is '' until it has been fetched; Broken stands for texts that   *)
(* are not JSON and not '' either.                                         *)
StillMatches(example, side, json) ==
  /\ example = Huge => hugeReady
  /\ json = ExampleOf[example][side]

MarkExample(edits) ==
  loaded' = IF loaded # None /\ \E s \in DOMAIN edits : ~StillMatches(loaded, s, edits[s])
            THEN None ELSE loaded

(* Mutant of RunCompare: texts that do not parse are sent all the same.    *)
RunCompareUnparsed(l, r, quiet, copied) ==
  /\ seq < MaxSeq
  /\ seq' = seq + 1
  /\ share' = None
  /\ error' = (Broken \in {l, r})
  /\ requests' = requests \cup
       {[seq |-> seq + 1, quiet |-> quiet, copied |-> copied,
         of |-> [left |-> l, right |-> r, ignore |-> ignore]]}
  /\ loading' = (loading \/ ~quiet)

(* The synchronous part of runCompare, up to the first await.              *)
RunCompare(l, r, quiet, copied) ==
  /\ seq < MaxSeq
  /\ seq' = seq + 1
  /\ share' = None
  /\ IF Broken \in {l, r}
     THEN error' = TRUE /\ UNCHANGED <<requests, loading>>
     ELSE /\ error' = FALSE
          /\ requests' = requests \cup
               {[seq |-> seq + 1, quiet |-> quiet, copied |-> copied,
                 of |-> [left |-> l, right |-> r, ignore |-> ignore]]}
          /\ loading' = (loading \/ ~quiet)


TypeOK ==
  /\ text \in [Side -> Text]
  /\ ignore \in SUBSET Key
  /\ result \in Compared \cup {None}
  /\ lines \in [Side -> Doc] \cup {None}
  /\ changes \in SUBSET Change
  /\ stripped \in SUBSET Key
  /\ selected \in Change \cup {None}
  /\ error \in BOOLEAN
  /\ loading \in BOOLEAN
  /\ seq \in 0..MaxSeq
  /\ requests \in SUBSET Request
  /\ copying \in BOOLEAN
  /\ share \in Shared \cup {None}
  /\ sharing \in Shared \cup {None}
  /\ loaded \in Example \cup {None}
  /\ hugeLoad \in BOOLEAN
  /\ hugeReady \in BOOLEAN
  /\ files \in SUBSET FileRead

Init ==
  /\ text = [s \in Side |-> Source(ExampleOf[FirstExample][s])]
  /\ ignore \in IgnoreLists
  /\ result = None /\ lines = None /\ changes = {} /\ stripped = {} /\ selected = None
  /\ error = FALSE
  /\ loading = FALSE /\ seq = 0 /\ requests = {} /\ copying = FALSE
  /\ share = None /\ sharing = None
  /\ loaded = FirstExample /\ hugeLoad = FALSE /\ hugeReady = FALSE
  /\ files = {}

-----------------------------------------------------------------------------
(* Editing the documents and the ignore list.                              *)

SetText(side, json) ==
  /\ text' = [text EXCEPT ![side] = Source(json)]
  /\ MarkExample([s \in {side} |-> json])

(* Mutant of Edit: the diff stays when its text is edited.                 *)
EditKeepingDiff(side, json) ==
  /\ SetText(side, json)
  /\ UNCHANGED <<ignore, diffVars, error, compareVars, shareVars, hugeLoad, hugeReady, files>>

Edit(side, json) ==
  /\ SetText(side, json)
  /\ ClearShownDiff
  /\ UNCHANGED <<ignore, error, compareVars, shareVars, hugeLoad, hugeReady, files>>

Format(side) ==
  /\ IF text[side].json = Broken
     THEN error' = TRUE /\ UNCHANGED <<text, loaded, diffVars>>
     ELSE error' = FALSE /\ SetText(side, text[side].json) /\ ClearShownDiff
  /\ UNCHANGED <<ignore, compareVars, shareVars, hugeLoad, hugeReady, files>>

SetIgnore(keys) ==
  /\ ignore' = keys
  /\ ClearShownDiff
  /\ UNCHANGED <<text, error, compareVars, shareVars, exampleVars, files>>

(* A file is read after it is dropped; the editor callback it ends in is   *)
(* the one of the render it was dropped on, which saw a diff or none.      *)
DropFile(side, json) ==
  /\ Cardinality(files) < MaxFiles
  /\ files' = files \cup {[side |-> side, json |-> json, sawDiff |-> result # None]}
  /\ UNCHANGED <<text, ignore, diffVars, error, compareVars, shareVars, exampleVars>>

FileApplied(f) ==
  /\ files' = files \ {f}
  /\ SetText(f.side, f.json)
  /\ IF f.sawDiff THEN ClearDiff ELSE UNCHANGED diffVars
  /\ error' = (f.json = Broken)
  /\ UNCHANGED <<ignore, compareVars, shareVars, hugeLoad, hugeReady>>

FileRejected(f) ==
  /\ files' = files \ {f}
  /\ error' = TRUE
  /\ UNCHANGED <<text, ignore, diffVars, compareVars, shareVars, exampleVars>>

-----------------------------------------------------------------------------
(* Comparing.                                                              *)

(* Mutant of ClickCompare: the button is not disabled while loading.       *)
ClickCompareAnytime ==
  /\ RunCompare(text.left.json, text.right.json, FALSE, None)
  /\ UNCHANGED <<text, ignore, diffVars, copying, sharing, exampleVars, files>>

ClickCompare ==
  /\ ~loading
  /\ RunCompare(text.left.json, text.right.json, FALSE, None)
  /\ UNCHANGED <<text, ignore, diffVars, copying, sharing, exampleVars, files>>

(* Mutant of Outdated: answers are not numbered.                           *)
NeverOutdated(q) == q.seq = 0

Outdated(q) == q.seq # seq

(* Mutant of Received: the early return of an outdated copy skips the      *)
(* reset of copying.                                                       *)
ReceivedWithoutReset(q) ==
  /\ requests' = requests \ {q}
  /\ copying' = (copying /\ (~q.quiet \/ Outdated(q)))
  /\ UNCHANGED <<ignore, seq, shareVars, exampleVars, files>>

(* The continuation of the await on postDiff, then that of applyCopy.      *)
Received(q) ==
  /\ requests' = requests \ {q}
  /\ copying' = (copying /\ ~q.quiet)
  /\ UNCHANGED <<ignore, seq, shareVars, exampleVars, files>>

AnswerDropped(q) ==
  /\ Outdated(q)
  /\ Received(q)
  /\ UNCHANGED <<text, diffVars, error, loading>>

AnswerShown(q) ==
  /\ ~Outdated(q)
  /\ Received(q)
  /\ result' = q.of
  /\ text' = [s \in Side |-> Aligned(q.of[s])]
  /\ lines' = [s \in Side |-> q.of[s]]
  /\ changes' = ChangesOf(q.of)
  /\ stripped' = Found(q.of)
  /\ selected' \in IF changes' = {} THEN {None} ELSE changes'
  /\ loading' = (loading /\ q.quiet)
  /\ UNCHANGED error

(* Mutant of AnswerFailed: no reset of loading.                            *)
AnswerFailedStillLoading(q) ==
  /\ ~Outdated(q)
  /\ Received(q)
  /\ error' = TRUE
  /\ IF q.quiet THEN UNCHANGED diffVars ELSE ClearDiff
  /\ UNCHANGED <<text, loading>>

AnswerFailed(q) ==
  /\ ~Outdated(q)
  /\ Received(q)
  /\ error' = TRUE
  /\ IF q.quiet THEN UNCHANGED diffVars ELSE ClearDiff
  /\ loading' = (loading /\ q.quiet)
  /\ UNCHANGED text

Answered(q) == AnswerDropped(q) \/ AnswerShown(q) \/ AnswerFailed(q)

-----------------------------------------------------------------------------
(* The list of changes: selecting one, copying one to the other side.      *)

SelectChange(c) ==
  /\ selected' = c
  /\ UNCHANGED <<text, ignore, result, lines, changes, stripped, error, compareVars,
                 shareVars, exampleVars, files>>

ClickCopy(c, target) ==
  /\ result # None
  /\ ~copying
  /\ IF Broken \in {text.left.json, text.right.json}
     THEN error' = TRUE /\ UNCHANGED <<compareVars, share, loaded>>
     ELSE LET next == CopyChange(text.left.json, text.right.json, c, target)
          IN  /\ copying' = TRUE
              /\ MarkExample(next)
              /\ RunCompare(next.left, next.right, TRUE, c.key)
  /\ UNCHANGED <<text, ignore, diffVars, sharing, hugeLoad, hugeReady, files>>

-----------------------------------------------------------------------------
(* The example chips.                                                      *)

SetExample(e) ==
  /\ text' = [s \in Side |-> Source(ExampleOf[e][s])]
  /\ ignore' = ExampleOf[e].ignore

LoadExample(e) ==
  /\ e = Huge => ~hugeLoad
  /\ loaded' = e
  /\ error' = FALSE
  /\ share' = None
  /\ ClearDiff
  /\ IF e = Huge /\ ~hugeReady
     THEN hugeLoad' = TRUE /\ UNCHANGED <<text, ignore>>
     ELSE SetExample(e) /\ UNCHANGED hugeLoad
  /\ UNCHANGED <<compareVars, sharing, hugeReady, files>>

HugeLoaded ==
  /\ hugeLoad
  /\ hugeLoad' = FALSE
  /\ hugeReady' = TRUE
  /\ IF loaded = Huge THEN SetExample(Huge) ELSE UNCHANGED <<text, ignore>>
  /\ UNCHANGED <<diffVars, error, compareVars, shareVars, loaded, files>>

HugeFailed ==
  /\ hugeLoad
  /\ hugeLoad' = FALSE
  /\ IF loaded = Huge THEN loaded' = None /\ error' = TRUE ELSE UNCHANGED <<loaded, error>>
  /\ UNCHANGED <<text, ignore, diffVars, compareVars, shareVars, hugeReady, files>>

-----------------------------------------------------------------------------
(* Sharing.                                                                *)

ClickShare(ttlOk) ==
  /\ sharing = None
  /\ LET unusable == Broken \in {text.left.json, text.right.json} \/ ~ttlOk
     IN  /\ error' = unusable
         /\ sharing' = IF unusable THEN None
                       ELSE [s \in Side |-> Strip(text[s].json, ignore)]
  /\ UNCHANGED <<text, ignore, diffVars, compareVars, share, exampleVars, files>>

ShareAnswered ==
  /\ sharing # None
  /\ share' = sharing
  /\ sharing' = None
  /\ UNCHANGED <<text, ignore, diffVars, error, compareVars, exampleVars, files>>

ShareFailed ==
  /\ sharing # None
  /\ error' = TRUE
  /\ sharing' = None
  /\ UNCHANGED <<text, ignore, diffVars, compareVars, share, exampleVars, files>>

-----------------------------------------------------------------------------
Next ==
  \/ \E s \in Side, j \in Typed : Edit(s, j)
  \/ \E s \in Side : Format(s)
  \/ \E keys \in IgnoreLists : SetIgnore(keys)
  \/ \E s \in Side, j \in Dropped : DropFile(s, j)
  \/ \E f \in files : FileApplied(f)
  \/ \E f \in files : FileRejected(f)
  \/ ClickCompare
  \/ \E q \in requests : Answered(q)
  \/ \E c \in changes : SelectChange(c)
  \/ \E c \in changes, target \in Side : ClickCopy(c, target)
  \/ \E e \in Example : LoadExample(e)
  \/ HugeLoaded
  \/ HugeFailed
  \/ \E ttlOk \in BOOLEAN : ClickShare(ttlOk)
  \/ ShareAnswered
  \/ ShareFailed

(* Nobody has to click anything, but fetch, import and File.text settle.   *)
Fairness ==
  /\ \A n \in 1..MaxSeq : WF_vars(\E q \in requests : q.seq = n /\ Answered(q))
  /\ WF_vars(\E f \in files : FileApplied(f) \/ FileRejected(f))
  /\ WF_vars(HugeLoaded \/ HugeFailed)
  /\ WF_vars(ShareAnswered \/ ShareFailed)

Spec == Init /\ [][Next]_vars /\ Fairness

-----------------------------------------------------------------------------
(* Properties.                                                             *)

(* loading and copying are the only trace a request leaves on the page:    *)
(* at most one compare and one copy are ever in flight, each numbered      *)
(* differently, and as long as one is, the flag that disables its button   *)
(* is up (a copy's flag is up only then).                                  *)
RequestsTracked ==
  /\ \A p, q \in requests : p.quiet = q.quiet \/ p.seq = q.seq => p = q
  /\ \A q \in requests : q.seq \in 1..seq /\ (~q.quiet => loading)
  /\ copying <=> \E q \in requests : q.quiet

(* The pieces of a diff come and go together: the lines, the change list,  *)
(* the keys said to be stripped and the selection are always those of the  *)
(* answer shown.                                                           *)
DiffIsWhole ==
  IF result = None
  THEN lines = None /\ changes = {} /\ stripped = {} /\ selected = None
  ELSE /\ lines = [s \in Side |-> result[s]]
       /\ changes = ChangesOf(result)
       /\ stripped = Found(result)
       /\ selected \in changes \cup {None}

(* The editors hold the padded text of the two documents of the shown      *)
(* diff, so that line N means the same row on both sides                   *)
(* (useSyncedScroll.ts:5-8) and an arrow acts on what was compared.        *)
DiffDescribesEditors ==
  result # None => \A s \in Side : text[s] = Aligned(result[s])

(* The two loads that write to a page that has moved on: the huge example  *)
(* after its await, and a file dropped when no diff was shown.             *)
LateLoad ==
  \/ hugeLoad /\ ~hugeLoad' /\ loaded = Huge
  \/ \E f \in files \ files' : ~f.sawDiff

(* Nothing but a late load displaces a shown diff: every other handler     *)
(* that changes a text clears the diff or shows the one of the new texts   *)
(* (ComparePage.tsx:160-205, 281-285; JsonSideEditor.tsx:52-60).           *)
OnlyLateLoadsDisplace ==
  [][DiffDescribesEditors /\ ~DiffDescribesEditors' => LateLoad]_vars

(* A copy made while the editors hold what was compared sends documents    *)
(* that no longer differ at the copied key, although they are computed     *)
(* from the change list and from the editors, which are updated by         *)
(* different handlers (ComparePage.tsx:314-340, applyChange.ts:105-142).   *)
CopyResolves ==
  [][DiffDescribesEditors =>
       \A q \in requests' \ requests :
         q.copied # None => q.copied \notin {c.key : c \in ChangesOf(q.of)}]_vars

(* "res.delta has no entry for it, so it naturally renders as a plain      *)
(* unchanged line here" (ComparePage.tsx:272-273): no listed change is at  *)
(* a key that was ignored.                                                 *)
IgnoredKeysAreQuiet ==
  result # None => \A c \in changes : c.key \notin result.ignore

(* The answer or failure of a compare that a newer compare or copy has     *)
(* overtaken changes nothing the user sees.                                *)
StaleAnswersAreSilent ==
  [][\A q \in requests \ requests' :
       q.seq < seq => UNCHANGED <<text, diffVars, error, share, loaded>>]_vars

(* A compare that nothing overtakes ends, and re-enables the button.       *)
CompareSettles ==
  \A n \in 1..MaxSeq :
    (\E q \in requests : q.seq = n /\ ~q.quiet) ~> (~loading \/ seq # n)

(* A copy and a share end, so that the arrows and the share button come    *)
(* back whatever else was clicked in between.                              *)
CopyAndShareEnd ==
  /\ copying ~> ~copying
  /\ sharing # None ~> sharing = None

(* "hit Compare, and see added / removed / changed / moved lines"          *)
(* (README.md:16): the button that says "Comparing" does not say so        *)
(* forever.                                                                *)
CompareComesBack == loading ~> ~loading

=============================================================================
