----------------------- MODULE CompareSessionProofs -----------------------
(* Theorems about CompareSession, for every choice of its constants.       *)
EXTENDS CompareSession, TLAPS

-----------------------------------------------------------------------------
(* What comparing and copying return.                                      *)

LEMMA ChangesOfType ==
  ASSUME NEW c \in Compared
  PROVE  ChangesOf(c) \in SUBSET Change
BY DEF Compared, ChangesOf, Change, Kind, Doc

LEMMA FoundType ==
  ASSUME NEW c \in Compared
  PROVE  Found(c) \in SUBSET Key
BY DEF Compared, Found

LEMMA SideOfCompared ==
  ASSUME NEW c \in Compared, NEW s \in Side
  PROVE  c[s] \in Doc
BY DEF Compared, Side

LEMMA CopyChangeType ==
  ASSUME NEW l \in Doc, NEW r \in Doc, NEW c \in Change, NEW target \in Side
  PROVE  /\ CopyChange(l, r, c, target).left \in Doc
         /\ CopyChange(l, r, c, target).right \in Doc
BY DEF CopyChange, CopyOnto, Change, Doc, Side

LEMMA StripType ==
  ASSUME NEW d \in Doc, NEW ign
  PROVE  Strip(d, ign) \in Doc
BY DEF Strip, Doc

LEMMA SourceType ==
  ASSUME NEW j \in Json
  PROVE  Source(j) \in Text
BY DEF Source, Text

LEMMA AlignedType ==
  ASSUME NEW d \in Doc
  PROVE  Aligned(d) \in Text
BY DEF Aligned, Text, Json

-----------------------------------------------------------------------------
(* Type correctness.                                                       *)

LEMMA InitTypeOK == Init => TypeOK
<1> SUFFICES ASSUME Init PROVE TypeOK
  OBVIOUS
<1> USE ConstantsAssumption
<1>1. \A s \in Side : ExampleOf[FirstExample][s] \in Doc
  BY SideOfCompared
<1>2. text \in [Side -> Text]
  BY <1>1, SourceType DEF Init, Json
<1> QED
  <2>1. ignore \in SUBSET Key
    BY DEF Init
  <2>2. seq \in 0..MaxSeq
    BY DEF Init
  <2>3. loaded \in Example
    BY DEF Init
  <2> QED
    BY <1>2, <2>1, <2>2, <2>3 DEF Init, TypeOK

LEMMA CopyClicked ==
  ASSUME TypeOK, NEW c \in changes, NEW target \in Side,
         Broken \notin {text.left.json, text.right.json}
  PROVE  /\ c.key \in Key
         /\ CopyChange(text.left.json, text.right.json, c, target).left \in Doc
         /\ CopyChange(text.left.json, text.right.json, c, target).right \in Doc
<1>1. text.left.json \in Doc /\ text.right.json \in Doc /\ c \in Change
  BY DEF TypeOK, Text, Json, Side
<1> QED
  BY <1>1, CopyChangeType DEF Change

LEMMA SetTextType ==
  ASSUME TypeOK, NEW s \in Side, NEW j, Source(j) \in Text, SetText(s, j)
  PROVE  text' \in [Side -> Text] /\ loaded' \in Example \cup {None}
<1>1. text' \in [Side -> Text]
  BY DEF SetText, TypeOK
<1>2. loaded' \in {loaded, None}
  BY DEF SetText, MarkExample
<1> QED
  BY <1>1, <1>2 DEF TypeOK

LEMMA SetExampleType ==
  ASSUME NEW e \in Example, SetExample(e)
  PROVE  text' \in [Side -> Text] /\ ignore' \in SUBSET Key
<1>1. ExampleOf[e] \in Compared
  BY ConstantsAssumption
<1>2. \A s \in Side : Source(ExampleOf[e][s]) \in Text
  BY <1>1, SideOfCompared, SourceType DEF Json
<1> QED
  BY <1>1, <1>2 DEF SetExample, Compared

LEMMA RunCompareType ==
  ASSUME TypeOK, NEW l \in Json, NEW r \in Json, NEW quiet \in BOOLEAN,
         NEW copied \in Key \cup {None}, RunCompare(l, r, quiet, copied)
  PROVE  /\ requests' \in SUBSET Request
         /\ seq' \in 0..MaxSeq
         /\ loading' \in BOOLEAN /\ error' \in BOOLEAN /\ share' = None
<1> USE ConstantsAssumption
<1>1. seq + 1 \in 1..MaxSeq /\ seq' = seq + 1 /\ share' = None
  BY DEF RunCompare, TypeOK
<1>2. CASE Broken \in {l, r}
  BY <1>1, <1>2 DEF RunCompare, TypeOK
<1>3. CASE Broken \notin {l, r}
  <2> DEFINE of == [left |-> l, right |-> r, ignore |-> ignore]
             q == [seq |-> seq + 1, quiet |-> quiet, copied |-> copied, of |-> of]
  <2>1. of \in Compared
    BY <1>3 DEF Compared, Json, TypeOK
  <2> HIDE DEF of
  <2>2. q \in Request
    BY <1>1, <2>1 DEF Request
  <2>3. requests' = requests \cup {q} /\ error' = FALSE
    BY <1>3 DEF RunCompare, of
  <2>4. loading' \in BOOLEAN
    BY <1>3, SMT DEF RunCompare, TypeOK
  <2> HIDE DEF q
  <2> QED
    <3>1. requests \subseteq Request
      BY DEF TypeOK
    <3>2. requests' \in SUBSET Request
      BY <2>2, <2>3, <3>1
    <3>3. seq' \in 0..MaxSeq
      BY <1>1
    <3>4. error' \in BOOLEAN
      BY <2>3
    <3> QED
      BY <1>1, <2>4, <3>2, <3>3, <3>4
<1> QED
  BY <1>2, <1>3

LEMMA TypeOKStep == TypeOK /\ [Next]_vars => TypeOK'
<1> SUFFICES ASSUME TypeOK, [Next]_vars PROVE TypeOK'
  OBVIOUS
<1> USE ConstantsAssumption
<1>1. ASSUME NEW s \in Side, NEW j \in Typed, Edit(s, j) PROVE TypeOK'
  BY <1>1, SourceType, SetTextType, ConstantsAssumption DEF Edit, ClearShownDiff, ClearDiff, TypeOK,
     diffVars, compareVars, shareVars
<1>2. ASSUME NEW s \in Side, Format(s) PROVE TypeOK'
  <2>1. text[s].json \in Json
    BY DEF TypeOK, Text
  <2>2. Source(text[s].json) \in Text
    BY <2>1, SourceType
  <2>3. text' \in [Side -> Text] /\ loaded' \in Example \cup {None} /\ error' \in BOOLEAN
    <3>1. CASE text[s].json = Broken
      BY <1>2, <3>1 DEF Format, TypeOK
    <3>2. CASE text[s].json # Broken
      BY <1>2, <2>2, <3>2, SetTextType DEF Format
    <3> QED
      BY <3>1, <3>2
  <2>4. (ClearShownDiff \/ UNCHANGED diffVars)
          /\ UNCHANGED <<ignore, compareVars, shareVars, hugeLoad, hugeReady, files>>
    BY <1>2 DEF Format
  <2> QED
    BY <2>3, <2>4 DEF ClearShownDiff, ClearDiff, TypeOK, diffVars, compareVars, shareVars
<1>3. ASSUME NEW keys \in IgnoreLists, SetIgnore(keys) PROVE TypeOK'
  BY <1>3 DEF SetIgnore, ClearShownDiff, ClearDiff, TypeOK,
     diffVars, compareVars, shareVars, exampleVars
<1>4. ASSUME NEW s \in Side, NEW j \in Dropped, DropFile(s, j) PROVE TypeOK'
  <2>1. (result # None) \in BOOLEAN
    OBVIOUS
  <2>2. [side |-> s, json |-> j, sawDiff |-> result # None] \in FileRead
    BY <2>1 DEF FileRead
  <2> QED
    BY <1>4, <2>2 DEF DropFile, TypeOK, diffVars, compareVars, shareVars, exampleVars
<1>5. ASSUME NEW f \in files, FileApplied(f) PROVE TypeOK'
  <2>1. f \in FileRead
    BY DEF TypeOK
  <2> QED
    BY <1>5, <2>1, SourceType, SetTextType DEF FileApplied, ClearDiff, TypeOK, FileRead,
       diffVars, compareVars, shareVars
<1>6. ASSUME NEW f \in files, FileRejected(f) PROVE TypeOK'
  BY <1>6 DEF FileRejected, TypeOK, diffVars, compareVars, shareVars, exampleVars
<1>7. CASE ClickCompare
  <2> DEFINE l == text.left.json
             r == text.right.json
  <2>1. l \in Json /\ r \in Json
    BY DEF TypeOK, Text, Side
  <2> HIDE DEF l, r
  <2>2. RunCompare(l, r, FALSE, None)
          /\ UNCHANGED <<text, ignore, diffVars, copying, sharing, exampleVars, files>>
    BY <1>7 DEF ClickCompare, l, r
  <2> QED
    BY <2>1, <2>2, RunCompareType DEF TypeOK, diffVars, exampleVars
<1>8. ASSUME NEW q \in requests, Answered(q) PROVE TypeOK'
  <2>1. q.of \in Compared /\ q \in Request
    BY DEF TypeOK, Request
  <2>2. CASE AnswerDropped(q)
    BY <2>2 DEF AnswerDropped, Received, TypeOK, diffVars, shareVars, exampleVars
  <2>3. CASE AnswerShown(q)
    <3>1. \A s \in Side : q.of[s] \in Doc
      BY <2>1, SideOfCompared
    <3>2. text' \in [Side -> Text] /\ lines' \in [Side -> Doc]
      BY <2>3, <3>1, AlignedType DEF AnswerShown
    <3>3. changes' \in SUBSET Change /\ stripped' \in SUBSET Key
      BY <2>1, <2>3, ChangesOfType, FoundType DEF AnswerShown
    <3> QED
      BY <2>1, <2>3, <3>2, <3>3 DEF AnswerShown, Received, TypeOK, shareVars, exampleVars
  <2>4. CASE AnswerFailed(q)
    BY <2>4 DEF AnswerFailed, Received, ClearDiff, TypeOK, diffVars, shareVars, exampleVars
  <2> QED
    BY <1>8, <2>2, <2>3, <2>4 DEF Answered
<1>9. ASSUME NEW c \in changes, SelectChange(c) PROVE TypeOK'
  BY <1>9 DEF SelectChange, TypeOK, compareVars, shareVars, exampleVars
<1>10. ASSUME NEW c \in changes, NEW target \in Side, ClickCopy(c, target) PROVE TypeOK'
  <2> DEFINE next == CopyChange(text.left.json, text.right.json, c, target)
  <2>1. CASE error' = TRUE /\ UNCHANGED <<compareVars, share, loaded>>
    BY <1>10, <2>1 DEF ClickCopy, TypeOK, diffVars, compareVars
  <2>2. CASE Broken \notin {text.left.json, text.right.json}
    <3>1. next.left \in Json /\ next.right \in Json /\ c.key \in Key
      BY <2>2, CopyClicked DEF Json
    <3> HIDE DEF next
    <3>2. /\ copying' = TRUE
          /\ MarkExample(next)
          /\ RunCompare(next.left, next.right, TRUE, c.key)
          /\ UNCHANGED <<text, ignore, diffVars, sharing, hugeLoad, hugeReady, files>>
      BY <1>10, <2>2 DEF ClickCopy, next
    <3> QED
      BY <3>1, <3>2, RunCompareType DEF MarkExample, TypeOK, diffVars
  <2> QED
    BY <1>10, <2>1, <2>2 DEF ClickCopy
<1>11. ASSUME NEW e \in Example, LoadExample(e) PROVE TypeOK'
  <2> QED
    BY <1>11, SetExampleType DEF LoadExample, ClearDiff, TypeOK, compareVars
<1>12. CASE HugeLoaded
  <2>1. ASSUME loaded = Huge PROVE Huge \in Example \/ Huge = None
    BY <2>1 DEF TypeOK
  <2>2. CASE loaded = Huge /\ Huge \in Example
    BY <1>12, <2>2, SetExampleType DEF HugeLoaded, TypeOK, diffVars, compareVars, shareVars
  <2>3. CASE loaded # Huge
    BY <1>12, <2>3 DEF HugeLoaded, TypeOK, diffVars, compareVars, shareVars
  <2> QED
    BY <2>1, <2>2, <2>3
<1>13. CASE HugeFailed
  BY <1>13 DEF HugeFailed, TypeOK, diffVars, compareVars, shareVars
<1>14. ASSUME NEW ttlOk \in BOOLEAN, ClickShare(ttlOk) PROVE TypeOK'
  <2>1. ASSUME Broken \notin {text.left.json, text.right.json}
        PROVE  [s \in Side |-> Strip(text[s].json, ignore)] \in Shared
    BY <2>1, StripType DEF TypeOK, Text, Json, Side, Shared
  <2> QED
    BY <1>14, <2>1 DEF ClickShare, TypeOK, diffVars, compareVars, exampleVars
<1>15. CASE ShareAnswered
  BY <1>15 DEF ShareAnswered, TypeOK, diffVars, compareVars, exampleVars
<1>16. CASE ShareFailed
  BY <1>16 DEF ShareFailed, TypeOK, diffVars, compareVars, exampleVars
<1>17. CASE UNCHANGED vars
  BY <1>17 DEF vars, TypeOK, diffVars, compareVars, shareVars, exampleVars
<1> QED
  BY <1>1, <1>2, <1>3, <1>4, <1>5, <1>6, <1>7, <1>8, <1>9, <1>10, <1>11, <1>12, <1>13,
     <1>14, <1>15, <1>16, <1>17 DEF Next

(* Every state of a session is well typed, whatever the order of clicks    *)
(* and answers.                                                            *)
THEOREM TypeCorrect == Spec => []TypeOK
<1>1. Init => TypeOK
  BY InitTypeOK
<1>2. TypeOK /\ [Next]_vars => TypeOK'
  BY TypeOKStep
<1> QED
  BY <1>1, <1>2, PTL DEF Spec

-----------------------------------------------------------------------------
(* Requests and the flags that stand for them.                             *)

LEMMA NextByCompareVars ==
  ASSUME [Next]_vars
  PROVE  \/ UNCHANGED compareVars
         \/ ClickCompare
         \/ \E q \in requests : Answered(q)
         \/ \E c \in changes, target \in Side : ClickCopy(c, target)
BY DEF Next, vars, Edit, Format, SetIgnore, DropFile, FileApplied, FileRejected, SelectChange,
   LoadExample, HugeLoaded, HugeFailed, ClickShare, ShareAnswered, ShareFailed

(* A request is added with a new number, when none of its kind is there.   *)
LEMMA RequestAdded ==
  ASSUME TypeOK, RequestsTracked, NEW quiet \in BOOLEAN, NEW copied, NEW of,
         \A p \in requests : p.quiet # quiet,
         seq' = seq + 1,
         requests' = requests \cup
           {[seq |-> seq + 1, quiet |-> quiet, copied |-> copied, of |-> of]},
         loading' = (loading \/ ~quiet),
         copying' = (copying \/ quiet)
  PROVE  RequestsTracked'
<1> DEFINE new == [seq |-> seq + 1, quiet |-> quiet, copied |-> copied, of |-> of]
<1>1. new.seq = seq + 1 /\ new.quiet = quiet
  OBVIOUS
<1>2. requests' = requests \cup {new}
  OBVIOUS
<1> HIDE DEF new
<1>3. seq \in Nat /\ \A p \in requests : p.seq \in 1..seq /\ p.quiet \in BOOLEAN
  BY DEF TypeOK, RequestsTracked, Request
<1>4. ASSUME NEW p \in requests', NEW q \in requests', p.quiet = q.quiet \/ p.seq = q.seq
      PROVE  p = q
  BY <1>1, <1>2, <1>3, <1>4 DEF RequestsTracked
<1>5. ASSUME NEW q \in requests' PROVE q.seq \in 1..seq' /\ (~q.quiet => loading')
  <2>1. CASE q \in requests
    BY <1>3, <2>1 DEF RequestsTracked
  <2>2. CASE q = new
    <3>1. q.seq \in 1..seq'
      BY <1>1, <1>3, <2>2
    <3>2. q.quiet = quiet
      BY <1>1, <2>2
    <3>3. ~quiet => loading'
      OBVIOUS
    <3> QED
      BY <3>1, <3>2, <3>3
  <2> QED
    BY <1>2, <1>5, <2>1, <2>2
<1>6. copying' <=> \E q \in requests' : q.quiet
  <2>1. CASE quiet
    BY <1>1, <1>2, <2>1
  <2>2. CASE ~quiet
    BY <1>1, <1>2, <2>2 DEF RequestsTracked
  <2> QED
    BY <2>1, <2>2
<1> QED
  BY <1>4, <1>5, <1>6 DEF RequestsTracked

LEMMA RequestsTrackedStep ==
  TypeOK /\ RequestsTracked /\ [Next]_vars => RequestsTracked'
<1> SUFFICES ASSUME TypeOK, RequestsTracked, [Next]_vars PROVE RequestsTracked'
  OBVIOUS
<1>1. CASE UNCHANGED compareVars
  BY <1>1 DEF compareVars, RequestsTracked
<1>2. CASE ClickCompare
  <2> DEFINE l == text.left.json
             r == text.right.json
  <2>1. /\ ~loading
        /\ RunCompare(l, r, FALSE, None)
        /\ copying' = copying
    BY <1>2 DEF ClickCompare
  <2> HIDE DEF l, r
  <2>2. CASE Broken \in {l, r}
    BY <2>1, <2>2 DEF RunCompare, RequestsTracked, TypeOK
  <2>3. CASE Broken \notin {l, r}
    <3>1. \A p \in requests : p.quiet # FALSE
      BY <2>1 DEF RequestsTracked
    <3>2. loading' = (loading \/ ~FALSE)
      BY <2>1, <2>3, Zenon DEF RunCompare
    <3>3. copying' = (copying \/ FALSE)
      BY <2>1 DEF TypeOK
    <3> QED
      BY <2>1, <2>3, <3>1, <3>2, <3>3, RequestAdded DEF RunCompare
  <2> QED
    BY <2>2, <2>3
<1>3. ASSUME NEW q \in requests, Answered(q) PROVE RequestsTracked'
  <2>1. /\ Received(q)
        /\ loading' = loading \/ loading' = (loading /\ q.quiet)
    BY <1>3 DEF Answered, AnswerDropped, AnswerShown, AnswerFailed
  <2>2. requests' = requests \ {q} /\ seq' = seq /\ copying' = (copying /\ ~q.quiet)
    BY <2>1 DEF Received
  <2>3. \A p \in requests : p.quiet \in BOOLEAN
    BY DEF TypeOK, Request
  <2>4. \A p \in requests' : ~p.quiet => loading'
    BY <2>1, <2>2, <2>3 DEF RequestsTracked
  <2>5. copying' <=> \E p \in requests' : p.quiet
    BY <2>2, <2>3 DEF RequestsTracked
  <2> QED
    BY <2>2, <2>4, <2>5 DEF RequestsTracked
<1>4. ASSUME NEW c \in changes, NEW target \in Side, ClickCopy(c, target) PROVE RequestsTracked'
  <2> DEFINE next == CopyChange(text.left.json, text.right.json, c, target)
  <2>1. CASE UNCHANGED compareVars
    BY <2>1 DEF compareVars, RequestsTracked
  <2>2. CASE /\ Broken \notin {text.left.json, text.right.json}
             /\ ~copying /\ copying' = TRUE /\ RunCompare(next.left, next.right, TRUE, c.key)
    <3> DEFINE l == next.left
               r == next.right
    <3>1. RunCompare(l, r, TRUE, c.key)
      BY <2>2
    <3> HIDE DEF l, r
    <3>2. \A p \in requests : p.quiet # TRUE
      BY <2>2 DEF RequestsTracked
    <3>3. copying' = (copying \/ TRUE)
      BY <2>2
    <3>4. CASE Broken \in {l, r}
      <4>1. next.left \in Doc /\ next.right \in Doc
        BY <2>2, CopyClicked
      <4> QED
        BY <3>4, <4>1, ConstantsAssumption DEF l, r
    <3>5. CASE Broken \notin {l, r}
      <4>1. loading' = (loading \/ ~TRUE)
        BY <3>1, <3>5, Zenon DEF RunCompare
      <4> QED
        BY <3>1, <3>2, <3>3, <3>5, <4>1, RequestAdded DEF RunCompare
    <3> QED
      BY <3>4, <3>5
  <2> QED
    BY <1>4, <2>1, <2>2 DEF ClickCopy
<1> QED
  BY <1>1, <1>2, <1>3, <1>4, NextByCompareVars

(* At most one compare and one copy are in flight, with the flags that     *)
(* disable their buttons raised (ComparePage.tsx:239-349), for every       *)
(* choice of documents, examples and bounds.                               *)
THEOREM RequestsAreTracked == Spec => []RequestsTracked
<1>1. Init => TypeOK /\ RequestsTracked
  BY InitTypeOK DEF Init, RequestsTracked
<1>2. TypeOK /\ RequestsTracked /\ [Next]_vars => TypeOK' /\ RequestsTracked'
  BY TypeOKStep, RequestsTrackedStep
<1> QED
  BY <1>1, <1>2, PTL DEF Spec

-----------------------------------------------------------------------------
(* The diff shown.                                                         *)

LEMMA NextByDiffVars ==
  ASSUME [Next]_vars
  PROVE  \/ UNCHANGED diffVars
         \/ ClearDiff
         \/ \E q \in requests : AnswerShown(q)
         \/ \E c \in changes : SelectChange(c)
BY DEF Next, vars, Edit, Format, SetIgnore, DropFile, FileApplied, FileRejected, ClickCompare,
   Answered, AnswerDropped, AnswerFailed, ClickCopy, LoadExample, HugeLoaded, HugeFailed,
   ClickShare, ShareAnswered, ShareFailed, ClearShownDiff

LEMMA DiffIsWholeStep ==
  TypeOK /\ DiffIsWhole /\ [Next]_vars => DiffIsWhole'
<1> SUFFICES ASSUME TypeOK, DiffIsWhole, [Next]_vars PROVE DiffIsWhole'
  OBVIOUS
<1>1. CASE UNCHANGED diffVars
  BY <1>1 DEF diffVars, DiffIsWhole
<1>2. CASE ClearDiff
  BY <1>2 DEF ClearDiff, DiffIsWhole
<1>3. ASSUME NEW q \in requests, AnswerShown(q) PROVE DiffIsWhole'
  <2>1. q.of # None
    BY ConstantsAssumption DEF TypeOK, Request
  <2>2. /\ result' = q.of
        /\ lines' = [s \in Side |-> q.of[s]]
        /\ changes' = ChangesOf(q.of)
        /\ stripped' = Found(q.of)
        /\ selected' \in changes' \cup {None}
    BY <1>3 DEF AnswerShown
  <2> QED
    BY <2>1, <2>2 DEF DiffIsWhole
<1>4. ASSUME NEW c \in changes, SelectChange(c) PROVE DiffIsWhole'
  BY <1>4 DEF SelectChange, DiffIsWhole
<1> QED
  BY <1>1, <1>2, <1>3, <1>4, NextByDiffVars

(* The lines, the change list and the selection shown are always those of  *)
(* the answer shown: no handler clears or sets some of them only.          *)
THEOREM DiffStaysWhole == Spec => []DiffIsWhole
<1>1. Init => TypeOK /\ DiffIsWhole
  BY InitTypeOK DEF Init, DiffIsWhole
<1>2. TypeOK /\ DiffIsWhole /\ [Next]_vars => TypeOK' /\ DiffIsWhole'
  BY TypeOKStep, DiffIsWholeStep
<1> QED
  BY <1>1, <1>2, PTL DEF Spec

(* An overtaken compare changes nothing that is shown.  The numbers alone  *)
(* do not give this: that no second request is removed or answered in the  *)
(* same step does.                                                         *)
THEOREM StaleAnswersSilent == Spec => StaleAnswersAreSilent
<1> DEFINE Silent == \A q \in requests \ requests' :
                       q.seq < seq => UNCHANGED <<text, diffVars, error, share, loaded>>
<1>1. TypeOK /\ [Next]_vars => [Silent]_vars
  <2> SUFFICES ASSUME TypeOK, [Next]_vars,
                      NEW q \in requests, q \notin requests', q.seq < seq
               PROVE  UNCHANGED <<text, diffVars, error, share, loaded>>
    OBVIOUS
  <2>1. ~UNCHANGED compareVars
    BY DEF compareVars
  <2>2. ~ClickCompare
    BY DEF ClickCompare, RunCompare
  <2>3. \A c \in changes, target \in Side : ~ClickCopy(c, target)
    BY DEF ClickCopy, RunCompare, compareVars
  <2>4. PICK p \in requests : Answered(p)
    BY <2>1, <2>2, <2>3, NextByCompareVars
  <2>5. p = q
    BY <2>4 DEF Answered, AnswerDropped, AnswerShown, AnswerFailed, Received
  <2>6. Outdated(p)
    BY <2>5 DEF Outdated, TypeOK, Request
  <2> QED
    BY <2>4, <2>6 DEF Answered, AnswerDropped, AnswerShown, AnswerFailed, Received,
       shareVars, exampleVars
<1>2. Spec => []TypeOK
  BY TypeCorrect
<1> QED
  BY <1>1, <1>2, PTL DEF Spec, StaleAnswersAreSilent

-----------------------------------------------------------------------------
(* The diff and the editors.                                               *)

LEMMA DisplacedByLateLoad ==
  ASSUME DiffDescribesEditors, [Next]_vars, ~LateLoad
  PROVE  DiffDescribesEditors'
<1>1. \/ result' = None
      \/ UNCHANGED <<text, result>>
      \/ \E q \in requests : AnswerShown(q)
  <2>1. ASSUME NEW f \in files, FileApplied(f) PROVE result' = None
    BY <2>1 DEF FileApplied, LateLoad, ClearDiff
  <2>2. ASSUME HugeLoaded PROVE UNCHANGED <<text, result>>
    BY <2>2 DEF HugeLoaded, LateLoad, diffVars
  <2>3. ASSUME NEW f \in files, FileRejected(f) PROVE UNCHANGED <<text, result>>
    BY <2>3 DEF FileRejected, diffVars
  <2> QED
    BY <2>1, <2>2, <2>3 DEF Next, vars, Edit, Format, SetIgnore, DropFile, ClickCompare,
       Answered, AnswerDropped, AnswerFailed, ClickCopy, LoadExample, HugeFailed, ClickShare,
       ShareAnswered, ShareFailed, ClearShownDiff, ClearDiff, SelectChange, diffVars
<1>2. ASSUME NEW q \in requests, AnswerShown(q) PROVE DiffDescribesEditors'
  BY <1>2 DEF AnswerShown, DiffDescribesEditors
<1> QED
  BY <1>1, <1>2 DEF DiffDescribesEditors

(* Of all that can happen to a shown diff, in any order, only the huge     *)
(* example and a file dropped before it was shown can make the editors     *)
(* hold something else; every handler that sets a text clears the diff.    *)
THEOREM DiffStaysWithEditors == Spec => OnlyLateLoadsDisplace
<1>1. [Next]_vars => [DiffDescribesEditors /\ ~DiffDescribesEditors' => LateLoad]_vars
  BY DisplacedByLateLoad
<1> QED
  BY <1>1, PTL DEF Spec, OnlyLateLoadsDisplace

-----------------------------------------------------------------------------
(* Copying a change.                                                       *)

LEMMA CopyMakesEqual ==
  ASSUME NEW l \in Doc, NEW r \in Doc, NEW ign, NEW target \in Side,
         NEW c \in ChangesOf([left |-> l, right |-> r, ignore |-> ign])
  PROVE  CopyChange(l, r, c, target).left[c.key] = CopyChange(l, r, c, target).right[c.key]
BY DEF ChangesOf, CopyChange, CopyOnto, Doc, Side

Resolves(q) == q.copied # None => q.copied \notin {c.key : c \in ChangesOf(q.of)}

LEMMA CopyResolvesStep ==
  ASSUME TypeOK, DiffIsWhole, DiffDescribesEditors, [Next]_vars,
         NEW q \in requests' \ requests
  PROVE  Resolves(q)
<1>1. ~UNCHANGED compareVars
  BY DEF compareVars
<1>2. CASE ClickCompare
  BY <1>2 DEF ClickCompare, RunCompare, Resolves
<1>3. ASSUME NEW p \in requests PROVE ~Answered(p)
  BY DEF Answered, AnswerDropped, AnswerShown, AnswerFailed, Received
<1>4. ASSUME NEW c \in changes, NEW target \in Side, ClickCopy(c, target) PROVE Resolves(q)
  <2> DEFINE l == text.left.json
             r == text.right.json
             next == CopyChange(l, r, c, target)
             of == [left |-> next.left, right |-> next.right, ignore |-> ignore]
             new == [seq |-> seq + 1, quiet |-> TRUE, copied |-> c.key, of |-> of]
  <2>1. result # None
    BY <1>4 DEF ClickCopy
  <2>2. l = result.left /\ r = result.right /\ result \in Compared
    BY <2>1 DEF DiffDescribesEditors, Aligned, Side, TypeOK
  <2>3. l \in Doc /\ r \in Doc
    BY <2>2 DEF Compared
  <2>4. result = [left |-> l, right |-> r, ignore |-> result.ignore]
    BY <2>2 DEF Compared
  <2>5. c \in ChangesOf([left |-> l, right |-> r, ignore |-> result.ignore])
    BY <2>1, <2>4 DEF DiffIsWhole
  <2> HIDE DEF l, r
  <2>6. next.left[c.key] = next.right[c.key]
    BY <2>3, <2>5, CopyMakesEqual
  <2> HIDE DEF next
  <2>7. of.left[c.key] = of.right[c.key]
    BY <2>6
  <2> HIDE DEF of
  <2>8. c.key \notin {d.key : d \in ChangesOf(of)}
    BY <2>7 DEF ChangesOf
  <2>9. q = new
    BY <1>1, <1>4 DEF ClickCopy, RunCompare, compareVars, next, of, l, r
  <2> QED
    BY <2>8, <2>9 DEF Resolves
<1> QED
  BY <1>1, <1>2, <1>3, <1>4, NextByCompareVars

(* A change copied while the editors hold what was compared is never still *)
(* there in the compare it starts: the change list the arrow belongs to    *)
(* and the editors it edits agree.                                         *)
THEOREM CopiesResolve == Spec => CopyResolves
<1> DEFINE Resolved == DiffDescribesEditors => \A q \in requests' \ requests : Resolves(q)
<1>1. TypeOK /\ DiffIsWhole /\ [Next]_vars => [Resolved]_vars
  BY CopyResolvesStep
<1>2. [Resolved]_vars
        => [DiffDescribesEditors =>
              \A q \in requests' \ requests :
                q.copied # None => q.copied \notin {c.key : c \in ChangesOf(q.of)}]_vars
  BY DEF Resolves
<1> HIDE DEF Resolved
<1>3. Spec => []TypeOK /\ []DiffIsWhole
  BY TypeCorrect, DiffStaysWhole
<1> QED
  BY <1>1, <1>2, <1>3, PTL DEF Spec, CopyResolves
=============================================================================
