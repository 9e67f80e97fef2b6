---------------------------- MODULE TokenBucket ----------------------------
(***************************************************************************)
(* What the rate limit of /api/v1 promises (README.md, "rate limited per   *)
(* client IP"): every address has one bucket of Burst tokens that regains  *)
(* Rate tokens per unit of time and is never forgotten; a request passes   *)
(* if it finds a token.  An observer counts the requests each address got  *)
(* through since an instant it may choose again at any time.               *)
(***************************************************************************)
EXTENDS Integers, TLAPS

CONSTANTS
  IP,         \* client addresses
  Req,        \* request handlers that can run at the same time
  None,
  Rate,       \* RATE_LIMIT_RPS
  Burst       \* RATE_LIMIT_BURST

(* What an instance has to satisfy for the theorem below.                  *)
Instantiable == Rate \in Nat \ {0} /\ Burst \in Nat \ {0} /\ None \notin IP

VARIABLES
  clock,
  avail,      \* the tokens of every address
  waiting,    \* the address a running handler is about to decide for, or None
  verdict,    \* what the handler decided last
  since,      \* observer: when it started to count
  admitted    \* observer: how many passed since

vars == <<clock, avail, waiting, verdict, since, admitted>>

Verdict == {"none", "next", "429"}
Least(a, b) == IF a <= b THEN a ELSE b

TypeOK ==
  /\ clock \in Nat
  /\ avail \in [IP -> 0..Burst]
  /\ waiting \in [Req -> IP \cup {None}]
  /\ verdict \in [Req -> Verdict]
  /\ since \in 0..clock
  /\ admitted \in [IP -> Nat]

Init ==
  /\ clock = 0
  /\ avail = [i \in IP |-> Burst]
  /\ waiting = [r \in Req |-> None]
  /\ verdict = [r \in Req |-> "none"]
  /\ since = 0
  /\ admitted = [i \in IP |-> 0]

Arrive(r, i) ==
  /\ waiting[r] = None
  /\ waiting' = [waiting EXCEPT ![r] = i]
  /\ verdict' = [verdict EXCEPT ![r] = "none"]
  /\ UNCHANGED <<clock, avail, since, admitted>>

Decide(r, i) ==
  /\ waiting[r] = i
  /\ waiting' = [waiting EXCEPT ![r] = None]
  /\ IF avail[i] >= 1
     THEN /\ verdict' = [verdict EXCEPT ![r] = "next"]
          /\ avail' = [avail EXCEPT ![i] = @ - 1]
          /\ admitted' = [admitted EXCEPT ![i] = @ + 1]
     ELSE /\ verdict' = [verdict EXCEPT ![r] = "429"]
          /\ UNCHANGED <<avail, admitted>>
  /\ UNCHANGED <<clock, since>>

Refill ==
  /\ clock' = clock + 1
  /\ avail' = [i \in IP |-> Least(Burst, avail[i] + Rate)]
  /\ UNCHANGED <<waiting, verdict, since, admitted>>

Observe ==
  /\ since' = clock
  /\ admitted' = [i \in IP |-> 0]
  /\ UNCHANGED <<clock, avail, waiting, verdict>>

Next ==
  \/ \E r \in Req, i \in IP : Arrive(r, i) \/ Decide(r, i)
  \/ Refill
  \/ Observe

Spec == Init /\ [][Next]_vars

(* In any window, whenever it starts, an address gets no more requests     *)
(* through than its burst and what the window refilled.                    *)
WithinBudget == \A i \in IP : admitted[i] <= Burst + Rate * (clock - since)

-----------------------------------------------------------------------------
(* What an address still has counts against the same budget.               *)
Budget == \A i \in IP : admitted[i] + avail[i] <= Burst + Rate * (clock - since)

LEMMA BudgetStep ==
  ASSUME Instantiable
  PROVE  TypeOK /\ Budget /\ [Next]_vars => TypeOK' /\ Budget'
<1> SUFFICES ASSUME TypeOK, Budget, [Next]_vars PROVE TypeOK' /\ Budget'
  OBVIOUS
<1> USE DEF Instantiable, TypeOK, Budget
<1>1. ASSUME NEW r \in Req, NEW i \in IP, Arrive(r, i) PROVE TypeOK' /\ Budget'
  BY <1>1 DEF Arrive, Verdict
<1>2. ASSUME NEW r \in Req, NEW i \in IP, Decide(r, i) PROVE TypeOK' /\ Budget'
  <2>1. CASE avail[i] >= 1
    BY <1>2, <2>1 DEF Decide, Verdict
  <2>2. CASE ~(avail[i] >= 1)
    BY <1>2, <2>2 DEF Decide, Verdict
  <2> QED
    BY <2>1, <2>2
<1>3. CASE Refill
  <2>1. TypeOK'
    BY <1>3 DEF Refill, Least
  <2>2. Rate * (clock + 1 - since) = Rate * (clock - since) + Rate
    OBVIOUS
  <2>3. Rate * (clock - since) \in Int
    OBVIOUS
  <2>4. \A i \in IP : avail'[i] <= avail[i] + Rate
    BY <1>3 DEF Refill, Least
  <2>5. clock' - since' = clock + 1 - since /\ admitted' = admitted
    BY <1>3 DEF Refill
  <2>6. ASSUME NEW i \in IP
        PROVE  admitted'[i] + avail'[i] <= Burst + Rate * (clock' - since')
    <3>1. admitted[i] + avail[i] <= Burst + Rate * (clock - since)
      OBVIOUS
    <3>2. Rate * (clock' - since') = Rate * (clock - since) + Rate
      BY <2>2, <2>5
    <3>3. avail[i] \in Int /\ avail'[i] \in Int /\ admitted[i] \in Int /\ avail'[i] <= avail[i] + Rate
      BY <2>1, <2>4
    <3> HIDE DEF TypeOK, Budget
    <3> QED
      BY <2>3, <2>5, <3>1, <3>2, <3>3
  <2> QED
    BY <2>1, <2>6
<1>4. CASE Observe
  BY <1>4 DEF Observe
<1>5. CASE UNCHANGED vars
  BY <1>5 DEF vars
<1> QED
  BY <1>1, <1>2, <1>3, <1>4, <1>5 DEF Next

(* The bucket keeps its promise for every rate and burst.                  *)
THEOREM BucketWithinBudget ==
  ASSUME Instantiable
  PROVE  Spec => []WithinBudget
<1>1. Init => TypeOK /\ Budget
  BY DEF Instantiable, Init, TypeOK, Budget, Verdict
<1>2. TypeOK /\ Budget /\ [Next]_vars => TypeOK' /\ Budget'
  BY BudgetStep
<1>3. TypeOK /\ Budget => WithinBudget
  <2> SUFFICES ASSUME TypeOK, Budget, NEW i \in IP
               PROVE  admitted[i] <= Burst + Rate * (clock - since)
    BY DEF WithinBudget
  <2>1. Rate * (clock - since) \in Int
    BY DEF Instantiable, TypeOK
  <2> QED
    BY <2>1 DEF Instantiable, TypeOK, Budget
<1> QED
  BY <1>1, <1>2, <1>3, PTL DEF Spec

=============================================================================
