------------------------- MODULE SyncedScrollProofs -------------------------
(***************************************************************************)
(* What holds of synced scrolling for panes of any length, on both pages,  *)
(* and for readers who touch both panes at any time.                       *)
(***************************************************************************)
EXTENDS SyncedScroll, TLAPS

(* Following keeps a pane within its own lines.                            *)
LEMMA ClampedType ==
  ASSUME NEW side \in Side, NEW line \in Nat
  PROVE  Clamped(line, side) \in Nat /\ Clamped(line, side) <= LastTop[side]
BY ConstantsAssumption DEF Clamped

LEMMA InitTypeOK == Init => TypeOK
<1> SUFFICES ASSUME Init PROVE TypeOK
  OBVIOUS
<1>1. \A s \in Side : LastTop[s] \in Nat /\ 0 <= LastTop[s]
  BY ConstantsAssumption
<1>2. editors \in {"no", "rendered", "viewed"}
  BY DEF Init
<1>3. scrolls \in 0..MaxScrolls
  BY ConstantsAssumption DEF Init
<1> QED
  BY <1>1, <1>2, <1>3 DEF Init, TypeOK

(* A scroll, of one pane or of both, keeps the panes where they can be.    *)
LEMMA ReaderTypeOK ==
  ASSUME TypeOK,
         \/ \E side \in Side : \E line \in 0..LastTop[side] : Scroll(side, line)
         \/ \E line \in 0..LastTop["left"] : JumpTo(line)
  PROVE  TypeOK'
<1>1. ASSUME NEW side \in Side, NEW line \in 0..LastTop[side], Scroll(side, line)
      PROVE  TypeOK'
  <2>1. line \in Nat /\ line <= LastTop[side]
    BY ConstantsAssumption
  <2> QED
    BY <1>1, <2>1, ConstantsAssumption DEF TypeOK, Scroll, MoveTo
<1>2. ASSUME NEW line \in 0..LastTop["left"], JumpTo(line)
      PROVE  TypeOK'
  <2>1. line \in Nat
    BY ConstantsAssumption DEF Side
  <2>2. \A s \in Side : Clamped(line, s) \in Nat /\ Clamped(line, s) <= LastTop[s]
    BY <2>1, ClampedType
  <2>3. /\ top' \in [Side -> Nat] /\ \A s \in Side : top'[s] <= LastTop[s]
        /\ pending' \subseteq Side /\ scrolls' \in 0..MaxScrolls
    BY <1>2, <2>2, ConstantsAssumption DEF TypeOK, JumpTo, MoveTo
  <2> QED
    BY <1>2, <2>3 DEF TypeOK, JumpTo
<1> QED
  BY <1>1, <1>2

(* So does the handler of the driving pane.                                *)
LEMMA HandlerTypeOK ==
  ASSUME TypeOK, NEW side \in Side, HandleScroll(side)
  PROVE  TypeOK'
<1>1. Other(side) \in Side /\ top[side] \in Nat
  BY DEF Other, Side, TypeOK
<1>2. /\ Clamped(top[side], Other(side)) \in Nat
      /\ Clamped(top[side], Other(side)) <= LastTop[Other(side)]
  BY <1>1, ClampedType
<1>3. top' = [top EXCEPT ![Other(side)] = Clamped(top[side], Other(side))]
  BY DEF HandleScroll, SyncFollower
<1>4. top' \in [Side -> Nat] /\ \A s \in Side : top'[s] <= LastTop[s]
  BY <1>1, <1>2, <1>3 DEF TypeOK
<1>5. pending' \subseteq Side
  BY DEF HandleScroll, SyncFollower, TypeOK
<1> QED
  BY <1>4, <1>5 DEF TypeOK, HandleScroll

LEMMA StepTypeOK == TypeOK /\ [Next]_vars => TypeOK'
<1> SUFFICES ASSUME TypeOK, [Next]_vars PROVE TypeOK'
  OBVIOUS
<1>1. CASE MakeViews \/ Enable \/ Disable \/ Settle
  BY <1>1 DEF TypeOK, MakeViews, Enable, Disable, Settle
<1>2. CASE \/ \E side \in Side : \E line \in 0..LastTop[side] : Scroll(side, line)
           \/ \E line \in 0..LastTop["left"] : JumpTo(line)
  BY <1>2, ReaderTypeOK
<1>3. CASE \E side \in Side : HandleScroll(side)
  BY <1>3, HandlerTypeOK
<1>4. CASE \E side \in Side : IgnoreScroll(side)
  BY <1>4 DEF TypeOK, IgnoreScroll
<1>5. CASE UNCHANGED vars
  BY <1>5 DEF TypeOK, vars
<1> QED
  BY <1>1, <1>2, <1>3, <1>4, <1>5 DEF Next

(* Panes never leave their lines, and every variable keeps its type.       *)
THEOREM TypeCorrect == Spec => []TypeOK
BY InitTypeOK, StepTypeOK, PTL DEF Spec

-----------------------------------------------------------------------------
(* Listeners are there only while the hook is enabled, on views.  This is  *)
(* what keeps a driver from outliving a cleanup: without it, an effect     *)
(* that runs again could leave the old driver in charge.                   *)
Listening == attached => enabled /\ editors = "viewed"

RInv == Listening /\ DriverIsReleased

LEMMA StepReleases == RInv /\ [Next]_vars => RInv'
<1> SUFFICES ASSUME RInv, [Next]_vars PROVE RInv'
  OBVIOUS
<1> USE DEF RInv, Listening, DriverIsReleased
<1>1. CASE MakeViews
  BY <1>1 DEF MakeViews
<1>2. CASE Enable
  BY <1>2 DEF Enable
<1>3. CASE Disable
  BY <1>3 DEF Disable
<1>4. CASE Settle
  BY <1>4 DEF Settle
<1>5. CASE \E line \in 0..LastTop["left"] : JumpTo(line)
  BY <1>5 DEF JumpTo
<1>6. CASE \E side \in Side : \E line \in 0..LastTop[side] : Scroll(side, line)
  BY <1>6 DEF Scroll
<1>7. CASE \E side \in Side : HandleScroll(side)
  BY <1>7 DEF HandleScroll
<1>8. CASE \E side \in Side : IgnoreScroll(side)
  BY <1>8 DEF IgnoreScroll
<1>9. CASE UNCHANGED vars
  BY <1>9 DEF vars
<1> QED
  BY <1>1, <1>2, <1>3, <1>4, <1>5, <1>6, <1>7, <1>8, <1>9 DEF Next

(* No pane drives for ever: a driver always has a timer to release it, on  *)
(* either page and however readers scroll (useSyncedScroll.ts 41-65).      *)
THEOREM DriversAreReleased == Spec => []DriverIsReleased
<1>1. Init => RInv
  BY DEF Init, RInv, Listening, DriverIsReleased
<1>2. RInv => DriverIsReleased
  BY DEF RInv
<1> QED
  BY <1>1, <1>2, StepReleases, PTL DEF Spec

-----------------------------------------------------------------------------
(* On the compare page the editors have their views before any diff comes, *)
(* and then the effect finds them.                                         *)
PInv == editors \in {"rendered", "viewed"} /\ (enabled => editors = "viewed" /\ attached)

LEMMA StepTied ==
  ASSUME EditorsUpFront, PInv, [Next]_vars
  PROVE  PInv'
<1> USE DEF PInv
<1>1. CASE MakeViews
  BY <1>1 DEF MakeViews
<1>2. CASE Enable
  <2>1. editors = "viewed"
    BY <1>2 DEF Enable
  <2>2. editors' = "viewed" /\ attached'
    BY <1>2, <2>1 DEF Enable
  <2> QED
    BY <2>2
<1>3. CASE Disable
  BY <1>3 DEF Disable
<1>4. CASE Settle
  BY <1>4 DEF Settle
<1>5. CASE \E line \in 0..LastTop["left"] : JumpTo(line)
  BY <1>5 DEF JumpTo
<1>6. CASE \E side \in Side : \E line \in 0..LastTop[side] : Scroll(side, line)
  BY <1>6 DEF Scroll
<1>7. CASE \E side \in Side : HandleScroll(side) \/ IgnoreScroll(side)
  BY <1>7 DEF HandleScroll, IgnoreScroll
<1>8. CASE UNCHANGED vars
  BY <1>8 DEF vars
<1> QED
  BY <1>1, <1>2, <1>3, <1>4, <1>5, <1>6, <1>7, <1>8 DEF Next

(* The compare page listens to its panes whenever it shows a diff; the     *)
(* share page, whose editors come with the diff, is what the assumption    *)
(* leaves out.                                                             *)
THEOREM ComparePanesAreTied ==
  ASSUME EditorsUpFront
  PROVE  Spec => []PanesAreTied
<1>1. Init => PInv
  BY EditorsUpFront DEF Init, PInv
<1>2. PInv /\ [Next]_vars => PInv'
  BY StepTied
<1>3. PInv => PanesAreTied
  BY DEF PInv, PanesAreTied
<1> QED
  BY <1>1, <1>2, <1>3, PTL DEF Spec

-----------------------------------------------------------------------------
(* The panes show one line, as far as each reaches.                        *)
Together == \E line \in {top[s] : s \in Side} : \A s \in Side : top[s] = Clamped(line, s)

(* They do so as soon as the events of the driver have been handled; the   *)
(* echoes that may still be on their way change nothing.                   *)
FollowsDriver == driver # None /\ driver \notin pending => Together

FInv == TypeOK /\ RInv /\ FollowsDriver

(* The pane a handler moves shows the line of the one it is for.           *)
LEMMA HandlerBringsTogether ==
  ASSUME TypeOK, NEW side \in Side, HandleScroll(side)
  PROVE  Together'
<1> DEFINE o == Other(side)
<1>1. o \in Side /\ o # side /\ Side = {side, o}
  BY DEF Other, Side
<1>2. top[side] \in Nat /\ top[side] <= LastTop[side] /\ LastTop[side] \in Nat
  BY ConstantsAssumption DEF TypeOK
<1>3. top' = [top EXCEPT ![o] = Clamped(top[side], o)]
  BY DEF HandleScroll, SyncFollower
<1>4. top'[side] = top[side] /\ top'[o] = Clamped(top[side], o)
  BY <1>1, <1>3 DEF TypeOK
<1>5. Clamped(top[side], side) = top[side]
  BY <1>2 DEF Clamped
<1>6. \A s \in Side : top'[s] = Clamped(top'[side], s)
  BY <1>1, <1>4, <1>5
<1> QED
  BY <1>6 DEF Together

(* The line of a change is one of the left pane's, which shows it.         *)
LEMMA JumpBringsTogether ==
  ASSUME NEW line \in 0..LastTop["left"], JumpTo(line)
  PROVE  Together'
<1>1. "left" \in Side /\ line <= LastTop["left"] /\ LastTop["left"] \in Nat /\ line \in Nat
  BY ConstantsAssumption DEF Side
<1>2. top' = [s \in Side |-> Clamped(line, s)]
  BY DEF JumpTo, MoveTo
<1>3. top'["left"] = line
  BY <1>1, <1>2 DEF Clamped
<1>4. \A s \in Side : top'[s] = Clamped(top'["left"], s)
  BY <1>2, <1>3
<1> QED
  BY <1>1, <1>4 DEF Together

LEMMA StepFollows ==
  ASSUME Patient, FInv, [Next]_vars
  PROVE  FollowsDriver'
<1> USE DEF FInv, FollowsDriver
<1>1. CASE MakeViews \/ Enable
  BY <1>1 DEF MakeViews, Enable, Together
<1>2. CASE Disable
  BY <1>2 DEF Disable, RInv, DriverIsReleased, Together
<1>3. CASE Settle
  BY <1>3 DEF Settle
<1>4. CASE \E line \in 0..LastTop["left"] : JumpTo(line)
  BY <1>4, JumpBringsTogether
<1>5. ASSUME NEW side \in Side, NEW line \in 0..LastTop[side], Scroll(side, line)
      PROVE  FollowsDriver'
  <2>1. driver' = driver /\ driver \in {None, side}
    BY <1>5, Patient DEF Scroll
  <2>2. top' = [top EXCEPT ![side] = line] /\ line # top[side]
    BY <1>5 DEF Scroll, MoveTo
  <2>3. side \in pending'
    BY <1>5, <2>2 DEF Scroll, MoveTo, TypeOK
  <2> QED
    BY <2>1, <2>3
<1>6. CASE \E side \in Side : HandleScroll(side)
  BY <1>6, HandlerBringsTogether
<1>7. ASSUME NEW side \in Side, IgnoreScroll(side)
      PROVE  FollowsDriver'
  <2>1. CASE ~attached
    BY <1>7, <2>1 DEF IgnoreScroll, RInv, DriverIsReleased
  <2>2. CASE driver = Other(side)
    <3>1. Other(side) # side
      BY DEF Other, Side
    <3> QED
      BY <1>7, <2>2, <3>1 DEF IgnoreScroll, Together
  <2> QED
    BY <1>7, <2>1, <2>2 DEF IgnoreScroll
<1>8. CASE UNCHANGED vars
  BY <1>8 DEF vars, Together
<1> QED
  BY <1>1, <1>2, <1>3, <1>4, <1>5, <1>6, <1>7, <1>8 DEF Next

(* For readers who let one pane settle before they touch the other, the    *)
(* other pane follows, whatever the lengths of the panes and whichever     *)
(* changes are jumped to meanwhile (README.md:29).                         *)
THEOREM FollowersFollow ==
  ASSUME Patient
  PROVE  Spec => []FollowerFollows
<1>1. Init => FInv
  BY InitTypeOK DEF Init, FInv, RInv, Listening, DriverIsReleased, FollowsDriver
<1>2. FInv /\ [Next]_vars => FInv'
  BY StepTypeOK, StepReleases, StepFollows DEF FInv
<1>3. FInv => FollowerFollows
  BY DEF FInv, FollowsDriver, FollowerFollows, Together
<1> QED
  BY <1>1, <1>2, <1>3, PTL DEF Spec
=============================================================================
