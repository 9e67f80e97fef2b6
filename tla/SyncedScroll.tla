---------------------------- MODULE SyncedScroll ----------------------------
(***************************************************************************)
(* Synced scrolling of the two panes (frontend/src/lib/useSyncedScroll.ts) *)
(* and of the pages that use it.                                           *)
(*                                                                         *)
(* The pane that scrolls first drives; until its events have been quiet    *)
(* for SETTLE_MS, scroll events of the other pane are taken for echoes of  *)
(* the driving pane and ignored.  A browser reports a scroll later than it *)
(* makes it, and several scrolls of one pane in one event: pending is the  *)
(* panes that have an event coming.  A position is the first line on the   *)
(* screen; the half pixel within a line is left out.                       *)
(*                                                                         *)
(* The listeners are attached by a React effect that runs when the hook    *)
(* becomes enabled, and only if both editors have made their CodeMirror    *)
(* views by then.  The compare page shows its editors from the start; the  *)
(* share page shows them in the very render that enables the hook.         *)
(***************************************************************************)
EXTENDS Integers

CONSTANTS
  None,            \* no pane drives
  LastTop,         \* the last position each pane can scroll to
  EditorsUpFront,  \* TRUE on the compare page, FALSE on the share page
  Patient,         \* readers let the driving pane settle before they touch the other
  MaxScrolls       \* bound on the scrolls of a session

Side == {"left", "right"}

ASSUME ConstantsAssumption ==
  /\ LastTop \in [Side -> Nat]
  /\ EditorsUpFront \in BOOLEAN /\ Patient \in BOOLEAN
  /\ MaxScrolls \in Nat
  /\ None \notin Side

VARIABLES
  enabled,   \* the argument of the hook: there is a diff on the page
  editors,   \* "no" | "rendered" | "viewed": rendered, and then with their views
  attached,  \* the scroll listeners are on the views
  driver,    \* driver.current
  timer,     \* settleTimer.current is a timer that will fire
  top,       \* the position of each pane
  pending,   \* the panes whose scroll event is still to come
  scrolls    \* the scrolls so far

vars == <<enabled, editors, attached, driver, timer, top, pending, scrolls>>

Other(side) == IF side = "left" THEN "right" ELSE "left"

Clamped(line, side) == IF line > LastTop[side] THEN LastTop[side] ELSE line

(* Moving panes to new positions: the browser owes an event to those that  *)
(* really moved.                                                           *)
MoveTo(tops) ==
  /\ top' = tops
  /\ pending' = pending \cup {s \in Side : tops[s] # top[s]}

Init ==
  /\ enabled = FALSE
  /\ editors = IF EditorsUpFront THEN "rendered" ELSE "no"
  /\ attached = FALSE
  /\ driver = None
  /\ timer = FALSE
  /\ top = [s \in Side |-> 0]
  /\ pending = {}
  /\ scrolls = 0

-----------------------------------------------------------------------------
(* The editors finish their views in a render after the one that showed    *)
(* them; a change of the views runs no effect of the hook.                 *)
MakeViews ==
  /\ editors = "rendered"
  /\ editors' = "viewed"
  /\ UNCHANGED <<enabled, attached, driver, timer, top, pending, scrolls>>

(* Mutant of Enable: an effect that does not depend on enabled: it ran     *)
(* when the page came up, found no diff and left.                          *)
EnableUnheard ==
  /\ ~enabled /\ editors # "rendered"
  /\ enabled' = TRUE
  /\ editors' = IF editors = "no" THEN "rendered" ELSE editors
  /\ UNCHANGED <<attached, driver, timer, top, pending, scrolls>>

(* A diff arrives and the effect runs.  On the compare page it takes a     *)
(* click and an answer of the server, long after the views are there.      *)
Enable ==
  /\ ~enabled /\ editors # "rendered"
  /\ enabled' = TRUE
  /\ attached' = (editors = "viewed")
  /\ editors' = IF editors = "no" THEN "rendered" ELSE editors
  /\ UNCHANGED <<driver, timer, top, pending, scrolls>>

(* Mutant of Disable: a cleanup that stops the timer and forgets who was   *)
(* driving.                                                                *)
DisableWhileDriven ==
  /\ enabled /\ EditorsUpFront
  /\ enabled' = FALSE
  /\ attached' = FALSE
  /\ timer' = FALSE
  /\ UNCHANGED <<driver, editors, top, pending, scrolls>>

(* The compare page drops its diff, and the cleanup of the effect runs.    *)
(* The share page never drops one.                                         *)
Disable ==
  /\ enabled /\ EditorsUpFront
  /\ enabled' = FALSE
  /\ attached' = FALSE
  /\ driver' = IF attached THEN None ELSE driver
  /\ timer' = (timer /\ ~attached)
  /\ UNCHANGED <<editors, top, pending, scrolls>>

(* The reader scrolls one pane.                                            *)
Scroll(side, line) ==
  /\ editors = "viewed" /\ scrolls < MaxScrolls
  /\ Patient => driver \in {None, side}
  /\ line <= LastTop[side] /\ line # top[side]
  /\ scrolls' = scrolls + 1
  /\ MoveTo([top EXCEPT ![side] = line])
  /\ UNCHANGED <<enabled, editors, attached, driver, timer>>

(* A page scrolls both panes to the line of the selected change.           *)
JumpTo(line) ==
  /\ enabled /\ editors = "viewed" /\ scrolls < MaxScrolls
  /\ scrolls' = scrolls + 1
  /\ MoveTo([s \in Side |-> Clamped(line, s)])
  /\ UNCHANGED <<enabled, editors, attached, driver, timer>>

(* syncFollowerScroll: the other pane goes to the same line, as far as it  *)
(* can.                                                                    *)
SyncFollower(side) ==
  LET tops == [top EXCEPT ![Other(side)] = Clamped(top[side], Other(side))]
  IN /\ top' = tops
     /\ pending' = (pending \ {side}) \cup {s \in Side : tops[s] # top[s]}

(* Mutant of HandleScroll: a handler that drops the running timer and      *)
(* starts none.                                                            *)
HandleScrollUntimed(side) ==
  /\ side \in pending /\ attached /\ driver \in {None, side}
  /\ driver' = side
  /\ timer' = FALSE
  /\ SyncFollower(side)
  /\ UNCHANGED <<enabled, editors, attached, scrolls>>

(* Mutant of HandleScroll: a handler that becomes the driver but moves     *)
(* nothing.                                                                *)
HandleScrollAlone(side) ==
  /\ side \in pending /\ attached /\ driver \in {None, side}
  /\ driver' = side
  /\ timer' = TRUE
  /\ pending' = pending \ {side}
  /\ UNCHANGED <<enabled, editors, attached, top, scrolls>>

(* The handler of a pane that drives, or that may start to.                *)
HandleScroll(side) ==
  /\ side \in pending /\ attached /\ driver \in {None, side}
  /\ driver' = side
  /\ timer' = TRUE
  /\ SyncFollower(side)
  /\ UNCHANGED <<enabled, editors, attached, scrolls>>

(* An event nobody listens to, or of the pane that does not drive.         *)
IgnoreScroll(side) ==
  /\ side \in pending
  /\ ~attached \/ driver = Other(side)
  /\ pending' = pending \ {side}
  /\ UNCHANGED <<enabled, editors, attached, driver, timer, top, scrolls>>

(* The settle timer fires.  It can be late, or fire before an echo that is *)
(* late.                                                                   *)
Settle ==
  /\ timer
  /\ driver' = None
  /\ timer' = FALSE
  /\ UNCHANGED <<enabled, editors, attached, top, pending, scrolls>>

Next ==
  \/ MakeViews \/ Enable \/ Disable \/ Settle
  \/ \E line \in 0..LastTop["left"] : JumpTo(line)
  \/ \E side \in Side :
       \/ \E line \in 0..LastTop[side] : Scroll(side, line)
       \/ HandleScroll(side)
       \/ IgnoreScroll(side)

(* Timers fire and pending events are dispatched; readers owe nothing.     *)
Fairness ==
  /\ WF_vars(Settle)
  /\ \A side \in Side : WF_vars(HandleScroll(side) \/ IgnoreScroll(side))

Spec == Init /\ [][Next]_vars /\ Fairness

-----------------------------------------------------------------------------
(* Every variable has its type.                                            *)
TypeOK ==
  /\ enabled \in BOOLEAN /\ attached \in BOOLEAN /\ timer \in BOOLEAN
  /\ editors \in {"no", "rendered", "viewed"}
  /\ driver \in Side \cup {None}
  /\ top \in [Side -> Nat] /\ \A s \in Side : top[s] <= LastTop[s]
  /\ pending \subseteq Side
  /\ scrolls \in 0..MaxScrolls

(* A pane drives only while a timer runs that will release it: no cleanup, *)
(* restart or late event leaves one pane driving for ever, with the other  *)
(* pane's scrolls ignored for the rest of the session (useSyncedScroll.ts  *)
(* 41-47, 63-65).                                                          *)
DriverIsReleased == driver # None => attached /\ timer

(* While a pane drives and no event is on its way, both panes show the     *)
(* same line, as far as they reach: README.md:29 "scroll one pane and the  *)
(* other follows by line index".  Readers who scroll the other pane before *)
(* the first has settled break it: their event is dropped, and the panes   *)
(* stay apart (useSyncedScroll.ts:51).                                     *)
FollowerFollows ==
  driver # None /\ pending = {} =>
    \E line \in {top[s] : s \in Side} : \A s \in Side : top[s] = Clamped(line, s)

(* Once a diff and its editors are on the page, the listeners are there.   *)
(* README.md:29 promises synced scrolling, and SharePage.tsx:54 asks for   *)
(* it; on the share page the effect runs before the views exist and never  *)
(* again (useSyncedScroll.ts:37-39, 69).                                   *)
PanesAreTied == enabled /\ editors = "viewed" => attached

(* Echoes die out: when the reader stops, the panes come to rest with no   *)
(* event on its way and nobody driving, instead of scrolling each other    *)
(* for ever.                                                               *)
PanesComeToRest == []<>(pending = {} /\ driver = None)
=============================================================================
