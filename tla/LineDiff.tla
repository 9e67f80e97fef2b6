------------------------------ MODULE LineDiff ------------------------------
(***************************************************************************)
(* One container of the compared documents: an object, which ObjectMerge   *)
(* describes, or an array, which ArrayMerge describes.  buildRows and      *)
(* writeSide branch on which it is, and neither ever changes it; the       *)
(* variables of the other kind stay empty.                                 *)
(***************************************************************************)
EXTENDS ObjectMerge

CONSTANTS
  Containers,  \* which kinds to consider
  Element,     \* the elements of arrays
  MaxLen       \* bound on the arrays at the start

ASSUME ContainerAssumption ==
  /\ Containers \subseteq {"object", "array"}
  /\ MaxLen \in Nat /\ None \notin Nat

VARIABLES
  container,                 \* "object" or "array"
  leftArray, rightArray,     \* the arrays in the editors
  arrayChanges               \* the changes listed for them

Arrays == INSTANCE ArrayMerge WITH
  Value <- Element, left <- leftArray, right <- rightArray, changes <- arrayChanges

arrayVars == <<leftArray, rightArray, arrayChanges>>
allVars == <<container, vars, arrayVars>>

InitContainer ==
  /\ container \in Containers
  /\ IF container = "array"
     THEN Arrays!Init /\ left = <<>> /\ right = <<>> /\ changes = None
     ELSE Init /\ leftArray = <<>> /\ rightArray = <<>> /\ arrayChanges = None

CompareObjects == container = "object" /\ Compare /\ UNCHANGED <<container, arrayVars>>
CompareArrays == container = "array" /\ Arrays!Compare /\ UNCHANGED <<container, vars>>

CopyInObject(c, dir) ==
  container = "object" /\ Copy(c, dir) /\ UNCHANGED <<container, arrayVars>>
CopyInArray(c, dir) ==
  container = "array" /\ Arrays!Copy(c, dir) /\ UNCHANGED <<container, vars>>

NextContainer ==
  \/ CompareObjects
  \/ CompareArrays
  \/ \E c \in Change, dir \in Direction : CopyInObject(c, dir)
  \/ \E c \in Arrays!Change, dir \in Direction : CopyInArray(c, dir)

SpecContainer == InitContainer /\ [][NextContainer]_allVars

-----------------------------------------------------------------------------
(* No object holds a key twice, and every listed change of an array points *)
(* at elements the arrays have.                                            *)
WellTyped == container \in Containers /\ TypeOK /\ Arrays!TypeOK

(* The rows of an array pair the elements the server's script pairs, at    *)
(* their true positions (lineDiff.ts:133-135).                             *)
AlignmentIsTrue == Arrays!AlignmentIsTrue

(* Comparing leaves an array without moves, and every right one, as it is. *)
CompareLeavesArrays == Arrays!CompareLeavesArrays

(* The arrow of the only change makes the arrays equal, if nothing moved   *)
(* (applyChange.ts 105-142).                                               *)
LastArrowSettles == Arrays!LastArrowSettles

(* "-> moves that change onto the right file, and <- moves it onto the     *)
(* left" (ComparePage.tsx:560-561): the arrow of an element that moved     *)
(* loses and doubles no element.                                           *)
MovesKeepElements == Arrays!MovesKeepElements
=============================================================================
