-------------------------------- MODULE App ---------------------------------
(***************************************************************************)
(* The single-page app (frontend/src/App.tsx): the compare page, the page  *)
(* of a share and the GUID page, of which the route mounts one at a time.  *)
(* A page that is left is unmounted: its state is gone, the timers and     *)
(* requests it started end unheard, and it starts afresh when it is        *)
(* mounted again.  What survives is outside the components: the ignored    *)
(* keys in localStorage and, until the document is loaded anew, the        *)
(* imported huge example.                                                  *)
(*                                                                         *)
(* SharePage is extended and CompareSession instantiated; of their         *)
(* variables error, loading and selected have the same name, and those of  *)
(* the compare page have a prefix here.                                    *)
(***************************************************************************)
EXTENDS SharePage

CONSTANTS
  Key, Value, Absent, Broken, Example, ExampleOf, FirstExample, Huge, Typed,
  Dropped, IgnoreLists, MaxSeq, MaxFiles,   \* see CompareSession
  Counts,      \* numbers a user asks the GUID page for, negative ones too
  MaxGuids,    \* MAX_COUNT
  MaxMarks     \* bound on the timers of one copy button

VARIABLES
  page,        \* the route: "compare", "share" or "guid"
  text, ignore, result, lines, changes, stripped, seq, requests, copying, share, sharing,
  loaded, hugeLoad, hugeReady, files,       \* see CompareSession
  comparingError, comparing, selectedChange,  \* its error, loading, selected
  count,       \* GuidPage: count
  guids,       \* GuidPage: how many GUIDs are listed
  copied,      \* CopyButton: copied
  marks        \* CopyButton: the timers of this button that are running

Comparing == INSTANCE CompareSession
               WITH error <- comparingError, loading <- comparing, selected <- selectedChange

ASSUME ComparingAssumption == Comparing!ConstantsAssumption

comparingVars ==
  <<text, ignore, result, lines, changes, stripped, selectedChange, comparingError,
    comparing, seq, requests, copying, share, sharing, loaded, hugeLoad, hugeReady, files>>
guidVars == <<count, guids, copied, marks>>
appVars == <<page, comparingVars, vars, guidVars>>

-----------------------------------------------------------------------------
(* Mounting and unmounting.                                                *)

(* A compare page as it is mounted.  Only what was not part of it stays.   *)
CompareAfresh ==
  /\ text' = [s \in Comparing!Side |-> Comparing!Source(ExampleOf[FirstExample][s])]
  /\ Comparing!ClearDiff
  /\ comparingError' = FALSE /\ comparing' = FALSE /\ seq' = 0
  /\ requests' = {} /\ copying' = FALSE
  /\ share' = None /\ sharing' = None
  /\ loaded' = FirstExample /\ hugeLoad' = FALSE /\ files' = {}
  /\ UNCHANGED ignore

GuidAfresh == count' = 1 /\ guids' = 1 /\ copied' = FALSE /\ marks' = {}

AppInit ==
  /\ page = "compare"
  /\ Comparing!Init
  /\ Init
  /\ count = 1 /\ guids = 1 /\ copied = FALSE /\ marks = {}

(* The links of the header.  An import of the huge example that was under  *)
(* way goes on without the page that asked for it.                         *)
GoTo(p) ==
  /\ page # p
  /\ page' = p
  /\ CompareAfresh
  /\ hugeReady' \in {hugeReady, hugeReady \/ hugeLoad}
  /\ IF page = "share" THEN Leave ELSE UNCHANGED vars
  /\ GuidAfresh

(* A share is opened from a link, which loads the document anew, or from   *)
(* the history, which may not.                                             *)
OpenShare(i) ==
  /\ page # "share"
  /\ page' = "share"
  /\ Open(i)
  /\ CompareAfresh
  /\ hugeReady' \in {FALSE, hugeReady}
  /\ GuidAfresh

-----------------------------------------------------------------------------
(* The pages at work.                                                      *)

OnCompare(act) == page = "compare" /\ act /\ UNCHANGED <<page, vars, guidVars>>

OnShare(act) == page = "share" /\ act /\ UNCHANGED <<page, comparingVars, guidVars>>

OnGuid(act) == page = "guid" /\ act /\ UNCHANGED <<page, comparingVars, vars>>

(* clampCount, and the same limits again in generateGuids.                 *)
Clamped(n) == IF n < 1 THEN 1 ELSE IF n > MaxGuids THEN MaxGuids ELSE n

SetCount(n) ==
  /\ count' = Clamped(n)
  /\ UNCHANGED <<guids, copied, marks>>

(* The button Copy all stays mounted when the list under it is replaced.   *)
Generate ==
  /\ guids' = Clamped(count)
  /\ UNCHANGED <<count, copied, marks>>

(* Mutant of ClickCopyAll: a second click stops the timer of the first and *)
(* starts none.                                                            *)
ClickCopyAllOnce ==
  /\ copied' = TRUE
  /\ marks' = IF marks = {} THEN {1} ELSE {}
  /\ UNCHANGED <<count, guids>>

(* handleCopy: every click starts a timer of its own, which takes the mark *)
(* away even if another click has renewed it.                              *)
ClickCopyAll ==
  /\ copied' = TRUE
  /\ \E m \in 1..MaxMarks : m \notin marks /\ marks' = marks \cup {m}
  /\ UNCHANGED <<count, guids>>

MarkEnds(m) ==
  /\ marks' = marks \ {m}
  /\ copied' = FALSE
  /\ UNCHANGED <<count, guids>>

AppNext ==
  \/ \E p \in {"compare", "guid"} : GoTo(p)
  \/ \E i \in Id : OpenShare(i)
  \/ OnCompare(Comparing!Next)
  \/ \E i \in Id : OnShare(Follow(i))
  \/ OnShare(SelectChange)
  \/ \E f \in fetches : OnShare(Answer(f))
  \/ \E n \in Counts : OnGuid(SetCount(n))
  \/ OnGuid(Generate)
  \/ OnGuid(ClickCopyAll)
  \/ \E m \in marks : OnGuid(MarkEnds(m))

(* What fetch, import, File.text and setTimeout started comes to an end;   *)
(* nobody has to click anything or to stay on a page.                      *)
AppFairness ==
  /\ \A n \in 1..MaxSeq :
       WF_appVars(OnCompare(\E q \in requests : q.seq = n /\ Comparing!Answered(q)))
  /\ WF_appVars(OnCompare(\E f \in files : Comparing!FileApplied(f) \/ Comparing!FileRejected(f)))
  /\ WF_appVars(OnCompare(Comparing!HugeLoaded \/ Comparing!HugeFailed))
  /\ WF_appVars(OnCompare(Comparing!ShareAnswered \/ Comparing!ShareFailed))
  /\ \A n \in 1..MaxFetches : WF_appVars(OnShare(\E f \in fetches : f.n = n /\ Answer(f)))
  /\ \A m \in 1..MaxMarks : WF_appVars(m \in marks /\ OnGuid(MarkEnds(m)))

AppSpec == AppInit /\ [][AppNext]_appVars /\ AppFairness

-----------------------------------------------------------------------------
(* Properties.                                                             *)

(* A compare that nothing overtakes ends and re-enables its button, or the *)
(* page is left and forgets it.                                            *)
CompareSettles == Comparing!CompareSettles

(* Copies and shares end, so that the arrows and the share button come     *)
(* back, whatever else is clicked, loaded or left in between.              *)
CopyAndShareEnd == Comparing!CopyAndShareEnd

(* Nobody sees "Copied!" for ever: a mark has a timer that takes it away,  *)
(* however many clicks and timers overlap (CopyButton.tsx:14-18).          *)
MarksGo == copied ~> ~copied
=============================================================================
