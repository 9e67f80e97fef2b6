----------------------------- MODULE SharePage ------------------------------
(***************************************************************************)
(* The page of a stored share (frontend/src/pages/SharePage.tsx), at the   *)
(* route /share/:id.  The component stays mounted while the id in the      *)
(* address changes, so the answer for an earlier id can arrive after the   *)
(* address has moved on; each run of the fetching effect has a flag of its *)
(* own that its cleanup sets.  No link of today's app leads from one share *)
(* to another, but the component is written for it: its effect depends on  *)
(* the id, and React's strict mode runs it twice.                          *)
(*                                                                         *)
(* A share is known by its id; of the record only whose it is matters and  *)
(* how many changes it lists.                                              *)
(***************************************************************************)
EXTENDS Integers

CONSTANTS
  Id,         \* the ids in links
  Stored,     \* those the server has
  Changes,    \* how many changes the diff of a stored share lists
  None,       \* null
  MaxFetches  \* bound on the fetches of a session

ASSUME ConstantsAssumption ==
  /\ Stored \subseteq Id
  /\ Changes \in [Stored -> Nat]
  /\ None \notin Id /\ None \notin Nat
  /\ MaxFetches \in Nat

VARIABLES
  id,        \* the id in the address, None while another page is shown
  record,    \* whose record the page holds, or None
  error,     \* an error message is set
  loading,   \* loading
  selected,  \* selectedChange
  fetches,   \* the requests under way: which share, and the cancelled flag
  started    \* how many fetches this page has started

vars == <<id, record, error, loading, selected, fetches, started>>

Fetch == [n : 1..MaxFetches, of : Id, cancelled : BOOLEAN]

Init ==
  /\ id = None /\ record = None
  /\ error = FALSE /\ loading = TRUE /\ selected = None
  /\ fetches = {} /\ started = 0

-----------------------------------------------------------------------------
(* The cleanup of the fetching effect.                                     *)
Cancelled == {[f EXCEPT !.cancelled = TRUE] : f \in fetches}

(* Mutant of StartFetch: a cleanup that forgets the fetch before.          *)
StartFetchKeepingOld(i) ==
  /\ started < MaxFetches
  /\ started' = started + 1
  /\ fetches' = fetches \cup {[n |-> started + 1, of |-> i, cancelled |-> FALSE]}
  /\ loading' = TRUE
  /\ error' = FALSE

(* The effect runs for a new id, after the cleanup of its last run.        *)
StartFetch(i) ==
  /\ started < MaxFetches
  /\ started' = started + 1
  /\ fetches' = Cancelled \cup {[n |-> started + 1, of |-> i, cancelled |-> FALSE]}
  /\ loading' = TRUE
  /\ error' = FALSE

(* A link opens the page: a new component with nothing in it.              *)
Open(i) ==
  /\ id = None
  /\ id' = i
  /\ record' = None /\ selected' = None
  /\ StartFetch(i)

(* The address changes to another share; the component keeps its record.   *)
Follow(i) ==
  /\ id \notin {None, i}
  /\ id' = i
  /\ StartFetch(i)
  /\ UNCHANGED <<record, selected>>

(* The route changes to another page, and the component is gone; what its  *)
(* fetches still bring is brought to nobody.                               *)
Leave ==
  /\ id # None
  /\ id' = None /\ record' = None /\ selected' = None
  /\ loading' = TRUE /\ error' = FALSE
  /\ fetches' = {} /\ started' = 0

(* The answer to a cancelled fetch.                                        *)
AnswerIgnored(f) ==
  /\ f.cancelled
  /\ fetches' = fetches \ {f}
  /\ UNCHANGED <<id, record, error, loading, selected, started>>

FirstChange(i) == IF Changes[i] > 0 THEN 0 ELSE None

(* Mutant of AnswerLoaded: a selection that survives the record it was     *)
(* made in.                                                                *)
AnswerLoadedStillSelected(f) ==
  /\ ~f.cancelled /\ f.of \in Stored
  /\ fetches' = fetches \ {f}
  /\ record' = f.of
  /\ loading' = FALSE
  /\ selected' = IF selected = None THEN FirstChange(f.of) ELSE selected
  /\ UNCHANGED <<id, error, started>>

(* The record arrives; the render that shows it selects its first change.  *)
AnswerLoaded(f) ==
  /\ ~f.cancelled /\ f.of \in Stored
  /\ fetches' = fetches \ {f}
  /\ record' = f.of
  /\ loading' = FALSE
  /\ selected' = FirstChange(f.of)
  /\ UNCHANGED <<id, error, started>>

(* Mutant of AnswerFailed: a failure that leaves the page loading.         *)
AnswerFailedStillLoading(f) ==
  /\ ~f.cancelled
  /\ fetches' = fetches \ {f}
  /\ error' = TRUE
  /\ UNCHANGED <<id, record, loading, selected, started>>

(* The share is not there, or the request fails.                           *)
AnswerFailed(f) ==
  /\ ~f.cancelled
  /\ fetches' = fetches \ {f}
  /\ error' = TRUE
  /\ loading' = FALSE
  /\ UNCHANGED <<id, record, selected, started>>

Shown == id # None /\ ~loading /\ ~error /\ record # None

(* A change of the list, or the next or previous one, around the end.  A   *)
(* page without changes has nothing to select.                             *)
SelectChange ==
  /\ Shown /\ Changes[record] > 0
  /\ selected' \in 0..(Changes[record] - 1)
  /\ UNCHANGED <<id, record, error, loading, fetches, started>>

Answer(f) == AnswerIgnored(f) \/ AnswerLoaded(f) \/ AnswerFailed(f)

Next ==
  \/ \E i \in Id : Open(i) \/ Follow(i)
  \/ Leave
  \/ SelectChange
  \/ \E f \in fetches : Answer(f)

(* Every request is answered, if only by a network error.                  *)
Fairness == \A f \in Fetch : WF_vars(f \in fetches /\ Answer(f))

Spec == Init /\ [][Next]_vars /\ Fairness

-----------------------------------------------------------------------------
(* Every variable has its type.                                            *)
TypeOK ==
  /\ id \in Id \cup {None} /\ record \in Stored \cup {None}
  /\ error \in BOOLEAN /\ loading \in BOOLEAN
  /\ selected \in Nat \cup {None}
  /\ fetches \subseteq Fetch /\ started \in 0..MaxFetches

(* A page that shows a diff shows the share its address names - not an     *)
(* earlier one whose answer came late, nor the one it held when a fetch    *)
(* failed (SharePage.tsx 27-45, 91).                                       *)
ShowsItsShare == Shown => record = id

(* A page that is neither loading nor failed has a record, and the change  *)
(* it has selected is one of that record (SharePage.tsx 59-66).            *)
SelectionIsOfRecord ==
  id # None /\ ~loading /\ ~error =>
    /\ record # None
    /\ IF Changes[record] = 0 THEN selected = None
       ELSE selected \in 0..(Changes[record] - 1)

(* A share page stops loading, or is left.                                 *)
LoadingEnds == id # None /\ loading ~> id = None \/ ~loading
=============================================================================
