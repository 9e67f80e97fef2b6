---------------------------- MODULE RateLimiter ----------------------------
(***************************************************************************)
(* middleware.RateLimit (internal/middleware/ratelimit.go): a mutex, a map *)
(* from addresses to visitors, a sweeper woken by a ticker, and handlers   *)
(* that look their limiter up under the mutex but use it after unlocking.  *)
(*                                                                         *)
(* A locked section is one step.  Time is counted in ticks of an explicit  *)
(* clock; rate.Limiter is modelled at whole tokens per tick.  MaxStall     *)
(* bounds how long a handler can be descheduled between its two steps, and *)
(* the sweeper is not descheduled over a tick of the clock.  The observer  *)
(* of TokenBucket (since, admitted) is carried along.                      *)
(***************************************************************************)
EXTENDS Integers

CONSTANTS
  IP,          \* c.ClientIP()
  Req,         \* handlers that run at the same time
  None,
  Rate,        \* rps, per tick
  Burst,       \* burst
  Idle,        \* 10 * time.Minute
  SweepEvery,  \* 5 * time.Minute
  MaxStall,    \* bound on the time between Unlock and Allow
  MaxClock,    \* bound on the clock
  MaxLimiters  \* bound on the limiters ever created

ASSUME LimiterAssumption ==
  /\ Rate \in Nat \ {0} /\ Burst \in Nat \ {0}
  /\ Idle \in Nat /\ SweepEvery \in Nat \ {0} /\ MaxStall \in Nat
  /\ MaxClock \in Nat /\ MaxLimiters \in Nat
  /\ None \notin IP /\ None \notin [ip : IP, limiter : Nat, at : Nat]
  /\ None \notin [limiter : Nat, lastSeen : Nat]

VARIABLES
  clock,     \* time.Now()
  wake,      \* the next time ticker.C fires
  ticked,    \* a tick waits in ticker.C
  visitors,  \* the map: [limiter, lastSeen] or None
  limiters,  \* every rate.Limiter created: [tokens, last]
  made,      \* how many were
  held,      \* a handler's ip, limiter and the time it unlocked, or None
  verdict,   \* what the handler did last: c.Next() or 429
  since, admitted

vars == <<clock, wake, ticked, visitors, limiters, made, held, verdict, since, admitted>>

Least(a, b) == IF a <= b THEN a ELSE b

TypeOK ==
  /\ clock \in 0..MaxClock
  /\ wake \in Nat /\ ticked \in BOOLEAN
  /\ visitors \in [IP -> [limiter : 1..made, lastSeen : 0..clock] \cup {None}]
  /\ made \in 0..MaxLimiters
  /\ limiters \in [1..made -> [tokens : 0..Burst, last : 0..clock]]
  /\ held \in [Req -> [ip : IP, limiter : 1..made, at : 0..clock] \cup {None}]
  /\ verdict \in [Req -> {"none", "next", "429"}]
  /\ since \in 0..clock
  /\ admitted \in [IP -> Nat]

Init ==
  /\ clock = 0 /\ wake = SweepEvery /\ ticked = FALSE
  /\ visitors = [i \in IP |-> None]
  /\ made = 0 /\ limiters = [l \in 1..0 |-> [tokens |-> 0, last |-> 0]]
  /\ held = [r \in Req |-> None]
  /\ verdict = [r \in Req |-> "none"]
  /\ since = 0 /\ admitted = [i \in IP |-> 0]

(* rate.Limiter: the tokens at hand at a time, lazily refilled.            *)
Tokens(lim, now) == Least(Burst, lim.tokens + Rate * (now - lim.last))

(* Mutant of Lookup: lastSeen is set when the visitor is created only.     *)
LookupKeepsSeen(r, i) ==
  /\ held[r] = None
  /\ IF visitors[i] = None
     THEN /\ made < MaxLimiters
          /\ made' = made + 1
          /\ limiters' = [l \in 1..made' |->
               IF l = made' THEN [tokens |-> Burst, last |-> clock] ELSE limiters[l]]
          /\ visitors' = [visitors EXCEPT ![i] = [limiter |-> made', lastSeen |-> clock]]
     ELSE UNCHANGED <<visitors, limiters, made>>
  /\ held' = [held EXCEPT ![r] = [ip |-> i, limiter |-> visitors'[i].limiter, at |-> clock]]
  /\ verdict' = [verdict EXCEPT ![r] = "none"]
  /\ UNCHANGED <<clock, wake, ticked, since, admitted>>

(* The locked section of the handler.                                      *)
Lookup(r, i) ==
  /\ held[r] = None
  /\ IF visitors[i] = None
     THEN /\ made < MaxLimiters
          /\ made' = made + 1
          /\ limiters' = [l \in 1..made' |->
               IF l = made' THEN [tokens |-> Burst, last |-> clock] ELSE limiters[l]]
          /\ visitors' = [visitors EXCEPT ![i] = [limiter |-> made', lastSeen |-> clock]]
     ELSE /\ visitors' = [visitors EXCEPT ![i].lastSeen = clock]
          /\ UNCHANGED <<limiters, made>>
  /\ held' = [held EXCEPT ![r] = [ip |-> i, limiter |-> visitors'[i].limiter, at |-> clock]]
  /\ verdict' = [verdict EXCEPT ![r] = "none"]
  /\ UNCHANGED <<clock, wake, ticked, since, admitted>>

(* Mutant of Allow: an empty bucket passes.                                *)
AllowOverdraft(r) ==
  /\ held[r] # None
  /\ limiters' = [limiters EXCEPT ![held[r].limiter] =
                   [tokens |-> Tokens(limiters[held[r].limiter], clock) - 1, last |-> clock]]
  /\ verdict' = [verdict EXCEPT ![r] = "next"]
  /\ admitted' = [admitted EXCEPT ![held[r].ip] = @ + 1]
  /\ held' = [held EXCEPT ![r] = None]
  /\ UNCHANGED <<clock, wake, ticked, visitors, made, since>>

(* limiter.Allow(), and what follows from it.                              *)
Allow(r) ==
  /\ held[r] # None
  /\ LET l == held[r].limiter
         i == held[r].ip
     IN  IF Tokens(limiters[l], clock) >= 1
         THEN /\ limiters' = [limiters EXCEPT ![l] =
                   [tokens |-> Tokens(limiters[l], clock) - 1, last |-> clock]]
              /\ verdict' = [verdict EXCEPT ![r] = "next"]
              /\ admitted' = [admitted EXCEPT ![i] = @ + 1]
         ELSE /\ verdict' = [verdict EXCEPT ![r] = "429"]
              /\ UNCHANGED <<limiters, admitted>>
  /\ held' = [held EXCEPT ![r] = None]
  /\ UNCHANGED <<clock, wake, ticked, visitors, made, since>>

(* Mutants of Expired: idle visitors are kept; swept one tick early.       *)
NeverExpired(v) == v # None /\ clock < v.lastSeen

ExpiredEarly(v) == v # None /\ clock - v.lastSeen >= Idle

Expired(v) == v # None /\ clock - v.lastSeen > Idle

(* One round of the sweeper.                                               *)
Sweep ==
  /\ ticked
  /\ ticked' = FALSE
  /\ visitors' = [i \in IP |-> IF Expired(visitors[i]) THEN None ELSE visitors[i]]
  /\ UNCHANGED <<clock, wake, limiters, made, held, verdict, since, admitted>>

Tick ==
  /\ clock < MaxClock
  /\ ~ticked
  /\ \A r \in Req : held[r] # None => clock < held[r].at + MaxStall
  /\ clock' = clock + 1
  /\ ticked' = (clock' = wake)
  /\ wake' = IF ticked' THEN wake + SweepEvery ELSE wake
  /\ UNCHANGED <<visitors, limiters, made, held, verdict, since, admitted>>

Observe ==
  /\ since' = clock
  /\ admitted' = [i \in IP |-> 0]
  /\ UNCHANGED <<clock, wake, ticked, visitors, limiters, made, held, verdict>>

Next ==
  \/ \E r \in Req, i \in IP : Lookup(r, i)
  \/ \E r \in Req : Allow(r)
  \/ Sweep
  \/ Tick
  \/ Observe

Spec == Init /\ [][Next]_vars

-----------------------------------------------------------------------------
(* Forgetting a visitor is harmless only if its bucket is full again: the  *)
(* last token it took may be MaxStall younger than its lastSeen.           *)
SweptWhenFull == MaxStall <= Idle /\ Burst <= Rate * (Idle + 1 - MaxStall)

Avail == [i \in IP |-> IF visitors[i] = None THEN Burst
                       ELSE Tokens(limiters[visitors[i].limiter], clock)]
Waiting == [r \in Req |-> IF held[r] = None THEN None ELSE held[r].ip]

(* The swept map behaves as buckets that are never forgotten.              *)
Bucket == INSTANCE TokenBucket WITH avail <- Avail, waiting <- Waiting
NeverForgets == Bucket!Spec

(* A handler past the mutex still uses the limiter of its address: no      *)
(* sweep and no second request has replaced it meanwhile.                  *)
HeldIsCurrent ==
  \A r \in Req : held[r] # None =>
    LET v == visitors[held[r].ip] IN v # None /\ v.limiter = held[r].limiter

(* In any window an address gets at most its burst and the refill through. *)
WithinBudget == \A i \in IP : admitted[i] <= Burst + Rate * (clock - since)

(* "Idle entries are swept periodically so the map doesn't grow unbounded" *)
(* (ratelimit.go:14-16): no entry is older than an idle time and a sweep.  *)
EntriesAreRecent ==
  \A i \in IP : visitors[i] # None => clock - visitors[i].lastSeen <= Idle + SweepEvery

=============================================================================
