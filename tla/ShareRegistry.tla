--------------------------- MODULE ShareRegistry ---------------------------
(***************************************************************************)
(* What POST /shares and GET /shares/:id promise together (README.md:31,   *)
(* 106-108, 134-136): a share gets an id no unexpired share has, and until *)
(* it expires that id loads that share.  Nothing is promised of an id that *)
(* was never handed out, or whose share has expired.                       *)
(***************************************************************************)
EXTENDS Integers

CONSTANTS
  Id,    \* share ids
  Doc,   \* what a share stores: left, right and their delta
  None

VARIABLES
  now,
  issued,   \* the shares answered with 201 that have not expired
  loaded    \* the id just looked up and what came back

vars == <<now, issued, loaded>>

Share == [id : Id, doc : Doc, expiresAt : Int]
Unexpired(id) == {s \in issued : s.id = id /\ now < s.expiresAt}

Init == now \in Nat /\ issued = {} /\ loaded = None

Issue ==
  /\ \E s \in issued' :
       /\ s \in Share
       /\ Unexpired(s.id) = {}
       /\ issued' = issued \cup {s}
  /\ UNCHANGED now /\ loaded' = None

Load(id, d) ==
  /\ \A s \in Unexpired(id) : d = s.doc
  /\ loaded' = [id |-> id, doc |-> d]
  /\ UNCHANGED <<now, issued>>

(* Anything else the server does.                                          *)
Other == loaded' = None /\ UNCHANGED <<now, issued>>

Pass ==
  /\ now' = now + 1
  /\ issued' = {s \in issued : now' < s.expiresAt}
  /\ loaded' = None

Next ==
  \/ Issue
  \/ \E id \in Id, d \in Doc \cup {None} : Load(id, d)
  \/ Other
  \/ Pass

Spec == Init /\ [][Next]_vars

=============================================================================
