------------------------------ MODULE AppProofs ------------------------------
(***************************************************************************)
(* What holds of the share page for any ids, shares and number of fetches, *)
(* in whatever order their answers come, alone and as a page of the app;   *)
(* and what of CompareSession holds of the compare page in the app, where  *)
(* it is left and mounted again.                                           *)
(***************************************************************************)
EXTENDS App, TLAPS

(* Only the last fetch may still change the page, and as long as it may,   *)
(* the page is loading the share of its address.  A late answer is harmless*)
(* because all fetches but this one are cancelled.                         *)
LastFetchOnly ==
  /\ \A f \in fetches : ~f.cancelled => f.of = id /\ loading
  /\ \A f, g \in fetches : ~f.cancelled /\ ~g.cancelled => f = g

Settled == id # None /\ ~loading /\ ~error

(* A page that shows something shows the record of its address.            *)
HoldsItsShare ==
  Settled =>
    /\ record = id /\ record \in Stored
    /\ IF Changes[record] = 0 THEN selected = None
       ELSE selected \in 0..(Changes[record] - 1)

IInv == TypeOK /\ LastFetchOnly /\ HoldsItsShare

LEMMA InitIInv == Init => IInv
<1> SUFFICES ASSUME Init PROVE IInv
  OBVIOUS
<1>1. TypeOK
  <2>1. 0 \in 0..MaxFetches
    BY ConstantsAssumption
  <2> QED
    BY <2>1 DEF Init, TypeOK
<1>2. LastFetchOnly
  BY DEF Init, LastFetchOnly
<1> QED
  BY <1>1, <1>2 DEF Init, IInv, HoldsItsShare, Settled

(* A cleanup cancels every fetch.                                          *)
LEMMA CancelledAll ==
  ASSUME TypeOK
  PROVE  Cancelled \subseteq Fetch /\ \A f \in Cancelled : f.cancelled
BY DEF TypeOK, Cancelled, Fetch

(* After the effect has run, its fetch is the only one that counts.        *)
LEMMA FetchIInv ==
  ASSUME TypeOK, NEW i \in Id, StartFetch(i), id' = i,
         record' \in Stored \cup {None}, selected' \in Nat \cup {None}
  PROVE  IInv'
<1> DEFINE new == [n |-> started + 1, of |-> i, cancelled |-> FALSE]
<1>1. started + 1 \in 1..MaxFetches /\ started' \in 0..MaxFetches
  BY ConstantsAssumption DEF StartFetch, TypeOK
<1>2. fetches' = Cancelled \cup {new} /\ new \in Fetch
  BY <1>1 DEF StartFetch, Fetch
<1>3. loading' = TRUE /\ error' = FALSE
  BY DEF StartFetch
<1>4. TypeOK'
  BY <1>1, <1>2, <1>3, CancelledAll DEF TypeOK
<1>5. LastFetchOnly'
  <2>1. \A f \in fetches' : ~f.cancelled => f = new
    BY <1>2, CancelledAll
  <2>2. new.of = id'
    OBVIOUS
  <2> HIDE DEF new
  <2> QED
    BY <1>3, <2>1, <2>2 DEF LastFetchOnly
<1> QED
  BY <1>3, <1>4, <1>5 DEF IInv, HoldsItsShare, Settled

LEMMA LeaveIInv ==
  ASSUME TypeOK, Leave
  PROVE  IInv'
<1>1. TypeOK'
  <2>1. 0 \in 0..MaxFetches
    BY ConstantsAssumption
  <2> QED
    BY <2>1 DEF Leave, TypeOK
<1>2. LastFetchOnly'
  BY DEF Leave, LastFetchOnly
<1> QED
  BY <1>1, <1>2 DEF IInv, HoldsItsShare, Settled, Leave

(* The answers, each to a fetch of its own.                                *)
LEMMA AnswerIInv ==
  ASSUME IInv, NEW f \in fetches, Answer(f)
  PROVE  IInv'
<1> USE DEF IInv
<1>1. fetches' = fetches \ {f}
  BY DEF Answer, AnswerIgnored, AnswerLoaded, AnswerFailed
<1>2. CASE AnswerIgnored(f)
  BY <1>1, <1>2 DEF AnswerIgnored, TypeOK, LastFetchOnly, HoldsItsShare, Settled
<1>3. CASE AnswerLoaded(f)
  <2>1. f.of = id /\ f.of \in Stored /\ Changes[f.of] \in Nat
    BY <1>3, ConstantsAssumption DEF AnswerLoaded, LastFetchOnly
  <2>2. \A g \in fetches' : g.cancelled
    BY <1>1, <1>3, ConstantsAssumption DEF AnswerLoaded, LastFetchOnly, TypeOK, Fetch
  <2>3. /\ record' = f.of /\ id' = id /\ loading' = FALSE
        /\ selected' = FirstChange(f.of) /\ UNCHANGED <<error, started>>
    BY <1>3 DEF AnswerLoaded
  <2>4. FirstChange(f.of) \in Nat \cup {None}
    BY DEF FirstChange
  <2>5. IF Changes[f.of] = 0 THEN FirstChange(f.of) = None
        ELSE FirstChange(f.of) \in 0..(Changes[f.of] - 1)
    BY <2>1 DEF FirstChange
  <2>6. TypeOK'
    BY <1>1, <2>1, <2>3, <2>4 DEF TypeOK
  <2>7. HoldsItsShare'
    BY <2>1, <2>3, <2>5 DEF HoldsItsShare
  <2> QED
    BY <2>2, <2>6, <2>7 DEF LastFetchOnly
<1>4. CASE AnswerFailed(f)
  <2>1. \A g \in fetches' : g.cancelled
    BY <1>1, <1>4 DEF AnswerFailed, LastFetchOnly, TypeOK, Fetch
  <2>2. TypeOK'
    BY <1>1, <1>4 DEF AnswerFailed, TypeOK
  <2> QED
    BY <1>4, <2>1, <2>2 DEF AnswerFailed, LastFetchOnly, HoldsItsShare, Settled
<1> QED
  BY <1>2, <1>3, <1>4 DEF Answer

(* A selection is made among the changes of the record on the page.        *)
LEMMA SelectIInv ==
  ASSUME IInv, SelectChange
  PROVE  IInv'
<1> USE DEF IInv
<1>1. record \in Stored /\ Changes[record] \in Nat
  BY ConstantsAssumption DEF SelectChange, Shown, TypeOK
<1>2. selected' \in Nat /\ selected' \in 0..(Changes[record] - 1)
  BY <1>1 DEF SelectChange
<1>3. UNCHANGED <<id, record, error, loading, fetches, started>>
  BY DEF SelectChange
<1>4. TypeOK'
  BY <1>2, <1>3 DEF TypeOK
<1>5. HoldsItsShare'
  BY <1>1, <1>2, <1>3 DEF HoldsItsShare, Settled, SelectChange
<1> QED
  BY <1>3, <1>4, <1>5 DEF LastFetchOnly

LEMMA StepIInv == IInv /\ [Next]_vars => IInv'
<1> SUFFICES ASSUME IInv, [Next]_vars PROVE IInv'
  OBVIOUS
<1>1. ASSUME NEW i \in Id, Open(i) PROVE IInv'
  BY <1>1, FetchIInv DEF IInv, Open
<1>2. ASSUME NEW i \in Id, Follow(i) PROVE IInv'
  BY <1>2, FetchIInv DEF IInv, Follow, TypeOK
<1>3. CASE Leave
  BY <1>3, LeaveIInv DEF IInv
<1>4. CASE SelectChange
  BY <1>4, SelectIInv
<1>5. CASE \E f \in fetches : Answer(f)
  BY <1>5, AnswerIInv
<1>6. CASE UNCHANGED vars
  BY <1>6 DEF vars, IInv, TypeOK, LastFetchOnly, HoldsItsShare, Settled
<1> QED
  BY <1>1, <1>2, <1>3, <1>4, <1>5, <1>6 DEF Next

(* The page never strays from its types, its one live fetch or its address.*)
THEOREM Inductive == Spec => []IInv
BY InitIInv, StepIInv, PTL DEF Spec

(* The page is well typed, whatever is opened, left and answered when.     *)
THEOREM TypeCorrect == Spec => []TypeOK
<1>1. IInv => TypeOK
  BY DEF IInv
<1> QED
  BY <1>1, Inductive, PTL

(* A page that shows a diff shows the share its address names, whatever    *)
(* fetch is answered when (SharePage.tsx 27-45).                           *)
THEOREM AddressIsShown == Spec => []ShowsItsShare
<1>1. IInv => ShowsItsShare
  BY DEF IInv, HoldsItsShare, Settled, ShowsItsShare, Shown
<1> QED
  BY <1>1, Inductive, PTL

(* The selected change is one of the record shown, and there is a record   *)
(* as soon as the page neither loads nor has failed.                       *)
THEOREM SelectionIsShown == Spec => []SelectionIsOfRecord
<1>1. IInv => SelectionIsOfRecord
  BY ConstantsAssumption DEF IInv, HoldsItsShare, Settled, SelectionIsOfRecord
<1> QED
  BY <1>1, Inductive, PTL

-----------------------------------------------------------------------------
(* The page in the app.                                                    *)

LEMMA AppStepsAreShareSteps == [AppNext]_appVars => [Next]_vars
<1> SUFFICES ASSUME [AppNext]_appVars PROVE [Next]_vars
  OBVIOUS
<1>1. ASSUME NEW p, GoTo(p) PROVE [Next]_vars
  BY <1>1 DEF GoTo, Next
<1>2. ASSUME NEW i \in Id, OpenShare(i) PROVE [Next]_vars
  BY <1>2 DEF OpenShare, Next
<1>3. CASE OnCompare(Comparing!Next)
  BY <1>3 DEF OnCompare
<1>4. CASE \/ \E i \in Id : OnShare(Follow(i))
           \/ OnShare(SelectChange)
           \/ \E f \in fetches : OnShare(Answer(f))
  BY <1>4 DEF OnShare, Next
<1>5. CASE \/ \E n \in Counts : OnGuid(SetCount(n))
           \/ OnGuid(Generate)
           \/ OnGuid(ClickCopyAll)
           \/ \E m \in marks : OnGuid(MarkEnds(m))
  BY <1>5 DEF OnGuid
<1>6. CASE UNCHANGED appVars
  BY <1>6 DEF appVars
<1> QED
  BY <1>1, <1>2, <1>3, <1>4, <1>5, <1>6 DEF AppNext

LEMMA AppKeepsIInv == AppSpec => []IInv
<1>1. AppInit => Init
  BY DEF AppInit
<1> QED
  BY <1>1, InitIInv, StepIInv, AppStepsAreShareSteps, PTL DEF AppSpec

(* The app mounts and unmounts the page, and nothing else in it disturbs   *)
(* what the page shows (App.tsx 82-86).                                    *)
THEOREM AppShowsItsShare == AppSpec => []ShowsItsShare
<1>1. IInv => ShowsItsShare
  BY DEF IInv, HoldsItsShare, Settled, ShowsItsShare, Shown
<1> QED
  BY <1>1, AppKeepsIInv, PTL

(* The same of its selection.                                              *)
THEOREM AppSelectsOfRecord == AppSpec => []SelectionIsOfRecord
<1>1. IInv => SelectionIsOfRecord
  BY ConstantsAssumption DEF IInv, HoldsItsShare, Settled, SelectionIsOfRecord
<1> QED
  BY <1>1, AppKeepsIInv, PTL

-----------------------------------------------------------------------------
(* The compare page in the app.  ComparePage is the instance of the app    *)
(* again, with what is proved of CompareSession.                           *)

ComparePage == INSTANCE CompareSessionProofs
                 WITH error <- comparingError, loading <- comparing, selected <- selectedChange

LEMMA SameAssumption == ComparePage!ConstantsAssumption
BY ComparingAssumption
   DEF Comparing!ConstantsAssumption, ComparePage!ConstantsAssumption,
       Comparing!Compared, ComparePage!Compared, Comparing!Json, ComparePage!Json,
       Comparing!Doc, ComparePage!Doc

LEMMA SameVars == Comparing!vars = ComparePage!vars
BY DEF Comparing!vars, ComparePage!vars, Comparing!diffVars, ComparePage!diffVars,
       Comparing!shareVars, ComparePage!shareVars, Comparing!compareVars, ComparePage!compareVars,
       Comparing!exampleVars, ComparePage!exampleVars

LEMMA SameStates ==
  /\ Comparing!Init <=> ComparePage!Init
  /\ Comparing!TypeOK <=> ComparePage!TypeOK
  /\ Comparing!RequestsTracked <=> ComparePage!RequestsTracked
  /\ Comparing!DiffIsWhole <=> ComparePage!DiffIsWhole
<1> USE DEF Comparing!Doc, ComparePage!Doc, Comparing!Side, ComparePage!Side,
            Comparing!Json, ComparePage!Json, Comparing!Source, ComparePage!Source,
            Comparing!Compared, ComparePage!Compared, Comparing!Change, ComparePage!Change,
            Comparing!Kind, ComparePage!Kind
<1>1. Comparing!Init <=> ComparePage!Init
  BY DEF Comparing!Init, ComparePage!Init
<1>2. Comparing!TypeOK <=> ComparePage!TypeOK
  BY DEF Comparing!TypeOK, ComparePage!TypeOK, Comparing!Text, ComparePage!Text,
         Comparing!Shared, ComparePage!Shared, Comparing!Request, ComparePage!Request,
         Comparing!FileRead, ComparePage!FileRead
<1>3. Comparing!RequestsTracked <=> ComparePage!RequestsTracked
  BY DEF Comparing!RequestsTracked, ComparePage!RequestsTracked
<1>4. Comparing!DiffIsWhole <=> ComparePage!DiffIsWhole
  BY DEF Comparing!DiffIsWhole, ComparePage!DiffIsWhole, Comparing!ChangesOf, ComparePage!ChangesOf,
         Comparing!Found, ComparePage!Found
<1> QED
  BY <1>1, <1>2, <1>3, <1>4

LEMMA SameNext == Comparing!Next <=> ComparePage!Next
<1> USE DEF Comparing!Side, ComparePage!Side, Comparing!Doc, ComparePage!Doc,
            Comparing!Json, ComparePage!Json, Comparing!Source, ComparePage!Source,
            Comparing!Aligned, ComparePage!Aligned, Comparing!Strip, ComparePage!Strip,
            Comparing!Found, ComparePage!Found, Comparing!ChangesOf,
            ComparePage!ChangesOf, Comparing!CopyOnto, ComparePage!CopyOnto,
            Comparing!CopyChange, ComparePage!CopyChange, Comparing!Kind,
            ComparePage!Kind, Comparing!Compared, ComparePage!Compared,
            Comparing!diffVars, ComparePage!diffVars, Comparing!shareVars,
            ComparePage!shareVars, Comparing!exampleVars, ComparePage!exampleVars,
            Comparing!compareVars, ComparePage!compareVars, Comparing!ClearDiff,
            ComparePage!ClearDiff, Comparing!ClearShownDiff, ComparePage!ClearShownDiff,
            Comparing!StillMatches, ComparePage!StillMatches, Comparing!MarkExample,
            ComparePage!MarkExample, Comparing!RunCompare, ComparePage!RunCompare,
            Comparing!SetText, ComparePage!SetText, Comparing!SetExample,
            ComparePage!SetExample, Comparing!Outdated, ComparePage!Outdated,
            Comparing!Received, ComparePage!Received, Comparing!AnswerDropped,
            ComparePage!AnswerDropped, Comparing!AnswerShown, ComparePage!AnswerShown,
            Comparing!AnswerFailed, ComparePage!AnswerFailed
<1>1. ASSUME NEW s, NEW j
      PROVE  Comparing!Edit(s, j) <=> ComparePage!Edit(s, j)
  BY DEF Comparing!Edit, ComparePage!Edit
<1>2. ASSUME NEW s
      PROVE  Comparing!Format(s) <=> ComparePage!Format(s)
  BY DEF Comparing!Format, ComparePage!Format
<1>3. ASSUME NEW keys
      PROVE  Comparing!SetIgnore(keys) <=> ComparePage!SetIgnore(keys)
  BY DEF Comparing!SetIgnore, ComparePage!SetIgnore
<1>4. ASSUME NEW s, NEW j
      PROVE  Comparing!DropFile(s, j) <=> ComparePage!DropFile(s, j)
  BY DEF Comparing!DropFile, ComparePage!DropFile, Comparing!Cardinality, ComparePage!Cardinality
<1>5. ASSUME NEW f
      PROVE  Comparing!FileApplied(f) <=> ComparePage!FileApplied(f)
  BY DEF Comparing!FileApplied, ComparePage!FileApplied
<1>6. ASSUME NEW f
      PROVE  Comparing!FileRejected(f) <=> ComparePage!FileRejected(f)
  BY DEF Comparing!FileRejected, ComparePage!FileRejected
<1>7. Comparing!ClickCompare <=> ComparePage!ClickCompare
  BY DEF Comparing!ClickCompare, ComparePage!ClickCompare
<1>8. ASSUME NEW q
      PROVE  Comparing!Answered(q) <=> ComparePage!Answered(q)
  BY DEF Comparing!Answered, ComparePage!Answered
<1>9. ASSUME NEW c
      PROVE  Comparing!SelectChange(c) <=> ComparePage!SelectChange(c)
  BY DEF Comparing!SelectChange, ComparePage!SelectChange
<1>10. ASSUME NEW c, NEW target
      PROVE  Comparing!ClickCopy(c, target) <=> ComparePage!ClickCopy(c, target)
  BY DEF Comparing!ClickCopy, ComparePage!ClickCopy
<1>11. ASSUME NEW e
      PROVE  Comparing!LoadExample(e) <=> ComparePage!LoadExample(e)
  BY DEF Comparing!LoadExample, ComparePage!LoadExample
<1>12. Comparing!HugeLoaded <=> ComparePage!HugeLoaded
  BY DEF Comparing!HugeLoaded, ComparePage!HugeLoaded
<1>13. Comparing!HugeFailed <=> ComparePage!HugeFailed
  BY DEF Comparing!HugeFailed, ComparePage!HugeFailed
<1>14. ASSUME NEW ok
      PROVE  Comparing!ClickShare(ok) <=> ComparePage!ClickShare(ok)
  BY DEF Comparing!ClickShare, ComparePage!ClickShare
<1>15. Comparing!ShareAnswered <=> ComparePage!ShareAnswered
  BY DEF Comparing!ShareAnswered, ComparePage!ShareAnswered
<1>16. Comparing!ShareFailed <=> ComparePage!ShareFailed
  BY DEF Comparing!ShareFailed, ComparePage!ShareFailed
<1> QED
  BY <1>1, <1>2, <1>3, <1>4, <1>5, <1>6, <1>7, <1>8, <1>9, <1>10, <1>11, <1>12, <1>13, <1>14, <1>15, <1>16
     DEF Comparing!Next, ComparePage!Next

LEMMA SameActions ==
  /\ Comparing!DiffDescribesEditors <=> ComparePage!DiffDescribesEditors
  /\ Comparing!LateLoad <=> ComparePage!LateLoad
BY DEF Comparing!DiffDescribesEditors, ComparePage!DiffDescribesEditors,
       Comparing!Aligned, ComparePage!Aligned, Comparing!Side, ComparePage!Side,
       Comparing!LateLoad, ComparePage!LateLoad

(* A step of the app is a step of the compare page, or leaves it fresh.    *)
LEMMA AppStepsOfCompare ==
  ASSUME [AppNext]_appVars
  PROVE  \/ [ComparePage!Next]_(ComparePage!vars)
         \/ /\ CompareAfresh
            /\ hugeReady' \in {FALSE, hugeReady, hugeReady \/ hugeLoad}
<1>1. ASSUME NEW p, GoTo(p)
      PROVE  CompareAfresh /\ hugeReady' \in {FALSE, hugeReady, hugeReady \/ hugeLoad}
  BY <1>1 DEF GoTo
<1>2. ASSUME NEW i \in Id, OpenShare(i)
      PROVE  CompareAfresh /\ hugeReady' \in {FALSE, hugeReady, hugeReady \/ hugeLoad}
  BY <1>2 DEF OpenShare
<1>3. CASE OnCompare(Comparing!Next)
  BY <1>3, SameNext DEF OnCompare
<1>4. ASSUME UNCHANGED comparingVars PROVE UNCHANGED ComparePage!vars
  BY <1>4 DEF comparingVars, ComparePage!vars, ComparePage!diffVars, ComparePage!shareVars,
              ComparePage!compareVars, ComparePage!exampleVars
<1>5. CASE \/ \E i \in Id : OnShare(Follow(i))
           \/ OnShare(SelectChange)
           \/ \E f \in fetches : OnShare(Answer(f))
  BY <1>4, <1>5 DEF OnShare
<1>6. CASE \/ \E n \in Counts : OnGuid(SetCount(n))
           \/ OnGuid(Generate)
           \/ OnGuid(ClickCopyAll)
           \/ \E m \in marks : OnGuid(MarkEnds(m))
  BY <1>4, <1>6 DEF OnGuid
<1>7. CASE UNCHANGED appVars
  BY <1>4, <1>7 DEF appVars
<1> QED
  BY <1>1, <1>2, <1>3, <1>5, <1>6, <1>7 DEF AppNext

CompareInv == ComparePage!TypeOK /\ ComparePage!RequestsTracked /\ ComparePage!DiffIsWhole

LEMMA AfreshCompareInv ==
  ASSUME ComparePage!TypeOK, CompareAfresh,
         hugeReady' \in {FALSE, hugeReady, hugeReady \/ hugeLoad}
  PROVE  CompareInv'
<1>1. /\ result' = None /\ lines' = None /\ changes' = {} /\ stripped' = {}
      /\ selectedChange' = None
  BY DEF CompareAfresh, Comparing!ClearDiff
<1>2. text' \in [ComparePage!Side -> ComparePage!Text]
  <2>1. ASSUME NEW s \in ComparePage!Side
        PROVE  Comparing!Source(ExampleOf[FirstExample][s]) \in ComparePage!Text
    <3>1. ExampleOf[FirstExample] \in ComparePage!Compared
      BY SameAssumption DEF ComparePage!ConstantsAssumption
    <3>2. ExampleOf[FirstExample][s] \in ComparePage!Json
      BY <3>1 DEF ComparePage!Compared, ComparePage!Side, ComparePage!Json
    <3> QED
      BY <3>2 DEF Comparing!Source, ComparePage!Text
  <2> QED
    BY <2>1 DEF CompareAfresh, Comparing!Side, ComparePage!Side
<1>3. FirstExample \in Example /\ 0 \in 0..MaxSeq
  BY SameAssumption DEF ComparePage!ConstantsAssumption
<1>4. hugeReady' \in BOOLEAN
  BY DEF ComparePage!TypeOK
<1>5. ComparePage!TypeOK'
  BY <1>1, <1>2, <1>3, <1>4 DEF ComparePage!TypeOK, CompareAfresh
<1>6. ComparePage!RequestsTracked'
  BY DEF ComparePage!RequestsTracked, CompareAfresh
<1>7. ComparePage!DiffIsWhole'
  BY <1>1 DEF ComparePage!DiffIsWhole
<1> QED
  BY <1>5, <1>6, <1>7 DEF CompareInv

LEMMA CompareInvStep == CompareInv /\ [AppNext]_appVars => CompareInv'
<1> SUFFICES ASSUME CompareInv, [AppNext]_appVars PROVE CompareInv'
  OBVIOUS
<1>1. CASE [ComparePage!Next]_(ComparePage!vars)
  BY <1>1, SameAssumption, ComparePage!TypeOKStep, ComparePage!RequestsTrackedStep,
     ComparePage!DiffIsWholeStep DEF CompareInv
<1>2. CASE CompareAfresh /\ hugeReady' \in {FALSE, hugeReady, hugeReady \/ hugeLoad}
  BY <1>2, AfreshCompareInv DEF CompareInv
<1> QED
  BY <1>1, <1>2, AppStepsOfCompare

LEMMA AppKeepsCompareInv == AppSpec => []CompareInv
<1>1. AppInit => CompareInv
  <2> SUFFICES ASSUME AppInit PROVE CompareInv
    OBVIOUS
  <2>1. ComparePage!Init
    BY SameStates DEF AppInit
  <2>2. ComparePage!TypeOK
    BY <2>1, SameAssumption, ComparePage!InitTypeOK
  <2> QED
    BY <2>1, <2>2 DEF CompareInv, ComparePage!Init, ComparePage!RequestsTracked, ComparePage!DiffIsWhole
<1> QED
  BY <1>1, CompareInvStep, PTL DEF AppSpec

(* The compare page is well typed in the app, however often it is left     *)
(* with requests, imports and files under way and mounted again.           *)
THEOREM AppCompareIsTyped == AppSpec => []Comparing!TypeOK
<1>1. CompareInv => Comparing!TypeOK
  BY SameStates DEF CompareInv
<1> QED
  BY <1>1, AppKeepsCompareInv, PTL

(* In the app, too, the flags that disable the buttons tell which requests *)
(* are in flight: a page that is mounted again waits for nothing the page  *)
(* before it sent.                                                         *)
THEOREM AppTracksRequests == AppSpec => []Comparing!RequestsTracked
<1>1. CompareInv => Comparing!RequestsTracked
  BY SameStates DEF CompareInv
<1> QED
  BY <1>1, AppKeepsCompareInv, PTL

(* The pieces of a diff come and go together with the page as well.        *)
THEOREM AppDiffIsWhole == AppSpec => []Comparing!DiffIsWhole
<1>1. CompareInv => Comparing!DiffIsWhole
  BY SameStates DEF CompareInv
<1> QED
  BY <1>1, AppKeepsCompareInv, PTL

(* In the app, too, nothing but a late load displaces a shown diff.        *)
THEOREM AppKeepsDiffWithEditors == AppSpec => Comparing!OnlyLateLoadsDisplace
<1> DEFINE Displaced == Comparing!DiffDescribesEditors /\ ~Comparing!DiffDescribesEditors'
                          => Comparing!LateLoad
<1>1. [AppNext]_appVars => [Displaced]_(Comparing!vars)
  <2> SUFFICES ASSUME [AppNext]_appVars, Comparing!DiffDescribesEditors, ~Comparing!LateLoad
               PROVE  Comparing!DiffDescribesEditors'
    OBVIOUS
  <2>1. CASE [ComparePage!Next]_(ComparePage!vars)
    <3>1. ComparePage!DiffDescribesEditors'
      BY <2>1, SameAssumption, SameActions, ComparePage!DisplacedByLateLoad
    <3> QED
      BY <3>1 DEF Comparing!DiffDescribesEditors, ComparePage!DiffDescribesEditors,
         Comparing!Aligned, ComparePage!Aligned, Comparing!Side, ComparePage!Side
  <2>2. CASE CompareAfresh
    BY <2>2 DEF CompareAfresh, Comparing!ClearDiff, Comparing!DiffDescribesEditors
  <2> QED
    BY <2>1, <2>2, AppStepsOfCompare
<1> QED
  BY <1>1, PTL DEF AppSpec, Comparing!OnlyLateLoadsDisplace

(* And a change copied while the editors hold what was compared is gone    *)
(* from what is compared next.                                             *)
THEOREM AppCopiesResolve == AppSpec => Comparing!CopyResolves
<1> DEFINE Resolved ==
      Comparing!DiffDescribesEditors =>
        \A q \in requests' \ requests :
          q.copied # None => q.copied \notin {c.key : c \in Comparing!ChangesOf(q.of)}
<1>1. CompareInv /\ [AppNext]_appVars => [Resolved]_(Comparing!vars)
  <2> SUFFICES ASSUME CompareInv, [AppNext]_appVars, Comparing!DiffDescribesEditors,
                      NEW q \in requests' \ requests
               PROVE  q.copied # None => q.copied \notin {c.key : c \in Comparing!ChangesOf(q.of)}
    OBVIOUS
  <2>1. CASE [ComparePage!Next]_(ComparePage!vars)
    <3>1. ComparePage!Resolves(q)
      BY <2>1, SameAssumption, SameActions, ComparePage!CopyResolvesStep DEF CompareInv
    <3>2. Comparing!ChangesOf(q.of) = ComparePage!ChangesOf(q.of)
      BY DEF Comparing!ChangesOf, ComparePage!ChangesOf
    <3> QED
      BY <3>1, <3>2 DEF ComparePage!Resolves
  <2>2. CASE CompareAfresh
    BY <2>2 DEF CompareAfresh
  <2> QED
    BY <2>1, <2>2, AppStepsOfCompare
<1> QED
  BY <1>1, AppKeepsCompareInv, PTL DEF AppSpec, Comparing!CopyResolves
=============================================================================
