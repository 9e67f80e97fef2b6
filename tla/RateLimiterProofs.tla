-------------------------- MODULE RateLimiterProofs --------------------------
(* Theorems about RateLimiter: the sweeper loses nothing that matters and  *)
(* keeps the map small, for every rate, burst, idle time and sweep period. *)
EXTENDS RateLimiter, TLAPS

-----------------------------------------------------------------------------
(* Tokens of one limiter.                                                  *)

LEMMA TokensType ==
  ASSUME NEW now \in Nat, NEW lim \in [tokens : 0..Burst, last : 0..now]
  PROVE  Tokens(lim, now) \in 0..Burst
<1> USE LimiterAssumption
<1>1. Rate * (now - lim.last) \in Nat
  OBVIOUS
<1> QED
  BY <1>1 DEF Tokens, Least

(* A limiter just used or just made holds what it was given.               *)
LEMMA TokensNow ==
  ASSUME NEW now \in Nat, NEW t \in 0..Burst
  PROVE  Tokens([tokens |-> t, last |-> now], now) = t
<1>1. Rate * (now - now) = 0
  BY LimiterAssumption
<1> QED
  BY <1>1, LimiterAssumption DEF Tokens, Least

(* Refilling once at the end is refilling at every tick.                   *)
LEMMA TokensLater ==
  ASSUME NEW now \in Nat, NEW lim \in [tokens : 0..Burst, last : 0..now]
  PROVE  Tokens(lim, now + 1) = Least(Burst, Tokens(lim, now) + Rate)
<1> USE LimiterAssumption
<1>1. Rate * (now + 1 - lim.last) = Rate * (now - lim.last) + Rate
  OBVIOUS
<1>2. Rate * (now - lim.last) \in Nat /\ Rate \in Nat /\ lim.tokens \in 0..Burst
  OBVIOUS
<1> QED
  BY <1>1, <1>2 DEF Tokens, Least

(* A limiter left alone for the time it takes to refill is full.           *)
LEMMA FullAfter ==
  ASSUME NEW now \in Nat, NEW lim \in [tokens : 0..Burst, last : 0..now],
         NEW d \in Nat, now - lim.last >= d, Burst <= Rate * d
  PROVE  Tokens(lim, now) = Burst
<1> USE LimiterAssumption
<1>1. PICK e \in Nat : now - lim.last = d + e
  <2> WITNESS now - lim.last - d \in Nat
  <2> QED
    OBVIOUS
<1>2. Rate * (d + e) = Rate * d + Rate * e
  OBVIOUS
<1>3. Rate * e \in Nat /\ Rate * d \in Nat
  OBVIOUS
<1>4. Rate * (now - lim.last) = Rate * d + Rate * e
  BY <1>1, <1>2
<1>5. Rate * (now - lim.last) >= Burst
  BY <1>3, <1>4
<1> QED
  BY <1>5 DEF Tokens, Least

-----------------------------------------------------------------------------
(* Type correctness.                                                       *)

LEMMA InitTypeOK == Init => TypeOK
<1> SUFFICES ASSUME Init PROVE TypeOK
  OBVIOUS
<1> USE LimiterAssumption
<1>1. 1..made = {} /\ limiters \in [1..made -> [tokens : 0..Burst, last : 0..clock]]
  BY DEF Init
<1>2. clock \in 0..MaxClock /\ wake \in Nat /\ made \in 0..MaxLimiters /\ since \in 0..clock
  BY DEF Init
<1>3. /\ visitors \in [IP -> [limiter : 1..made, lastSeen : 0..clock] \cup {None}]
      /\ held \in [Req -> [ip : IP, limiter : 1..made, at : 0..clock] \cup {None}]
      /\ verdict \in [Req -> {"none", "next", "429"}]
      /\ admitted \in [IP -> Nat]
  BY DEF Init
<1> QED
  BY <1>1, <1>2, <1>3 DEF Init, TypeOK

LEMMA TypeOKStep == TypeOK /\ [Next]_vars => TypeOK'
<1> SUFFICES ASSUME TypeOK, [Next]_vars PROVE TypeOK'
  OBVIOUS
<1> USE LimiterAssumption
<1>1. ASSUME NEW r \in Req, NEW i \in IP, Lookup(r, i) PROVE TypeOK'
  <2>1. CASE visitors[i] = None
    <3>1. /\ made' = made + 1 /\ made < MaxLimiters
          /\ limiters' = [l \in 1..made' |->
               IF l = made' THEN [tokens |-> Burst, last |-> clock] ELSE limiters[l]]
          /\ visitors' = [visitors EXCEPT ![i] = [limiter |-> made', lastSeen |-> clock]]
      BY <1>1, <2>1 DEF Lookup
    <3>2. made' \in 0..MaxLimiters /\ 1..made \subseteq 1..made' /\ made' \in 1..made'
      BY <3>1 DEF TypeOK
    <3>3. limiters' \in [1..made' -> [tokens : 0..Burst, last : 0..clock]]
      <4>1. \A l \in 1..made' : l = made' \/ l \in 1..made
        BY <3>1 DEF TypeOK
      <4>2. [tokens |-> Burst, last |-> clock] \in [tokens : 0..Burst, last : 0..clock]
        BY DEF TypeOK
      <4> QED
        BY <3>1, <4>1, <4>2 DEF TypeOK
    <3>4. visitors' \in [IP -> [limiter : 1..made', lastSeen : 0..clock] \cup {None}]
      <4>1. [limiter : 1..made, lastSeen : 0..clock]
              \subseteq [limiter : 1..made', lastSeen : 0..clock]
        BY <3>2
      <4>2. [limiter |-> made', lastSeen |-> clock] \in [limiter : 1..made', lastSeen : 0..clock]
        BY <3>2 DEF TypeOK
      <4> QED
        BY <3>1, <4>1, <4>2 DEF TypeOK
    <3>5. visitors'[i].limiter = made'
      BY <3>1 DEF TypeOK
    <3>6. held' \in [Req -> [ip : IP, limiter : 1..made', at : 0..clock] \cup {None}]
      BY <1>1, <3>2, <3>5 DEF Lookup, TypeOK
    <3> QED
      BY <1>1, <3>2, <3>3, <3>4, <3>6 DEF Lookup, TypeOK
  <2>2. CASE visitors[i] # None
    <3>1. visitors' = [visitors EXCEPT ![i].lastSeen = clock] /\ UNCHANGED <<limiters, made>>
      BY <1>1, <2>2 DEF Lookup
    <3>2. visitors[i] \in [limiter : 1..made, lastSeen : 0..clock]
      BY <2>2 DEF TypeOK
    <3>3. visitors' \in [IP -> [limiter : 1..made, lastSeen : 0..clock] \cup {None}]
            /\ visitors'[i].limiter = visitors[i].limiter
      <4>1. [visitors[i] EXCEPT !.lastSeen = clock] \in [limiter : 1..made, lastSeen : 0..clock]
        <5>1. clock \in 0..clock
          BY DEF TypeOK
        <5> HIDE LimiterAssumption DEF TypeOK
        <5> QED
          BY <3>2, <5>1
      <4>2. visitors'[i] = [visitors[i] EXCEPT !.lastSeen = clock]
              /\ \A j \in IP \ {i} : visitors'[j] = visitors[j]
        BY <3>1 DEF TypeOK
      <4>3. visitors' \in [IP -> [limiter : 1..made, lastSeen : 0..clock] \cup {None}]
        BY <3>1, <4>1, <4>2 DEF TypeOK
      <4> QED
        BY <3>2, <4>2, <4>3
    <3>4. held' \in [Req -> [ip : IP, limiter : 1..made, at : 0..clock] \cup {None}]
      BY <1>1, <3>2, <3>3 DEF Lookup, TypeOK
    <3> QED
      BY <1>1, <3>1, <3>3, <3>4 DEF Lookup, TypeOK
  <2> QED
    BY <2>1, <2>2
<1>2. ASSUME NEW r \in Req, Allow(r) PROVE TypeOK'
  <2> DEFINE l == held[r].limiter
             i == held[r].ip
             t == Tokens(limiters[l], clock)
  <2>1. l \in 1..made /\ i \in IP
    BY <1>2 DEF Allow, TypeOK
  <2>2. t \in 0..Burst
    BY <2>1, TokensType DEF TypeOK
  <2>3. \/ /\ t >= 1
           /\ limiters' = [limiters EXCEPT ![l] = [tokens |-> t - 1, last |-> clock]]
           /\ verdict' = [verdict EXCEPT ![r] = "next"]
           /\ admitted' = [admitted EXCEPT ![i] = @ + 1]
        \/ /\ verdict' = [verdict EXCEPT ![r] = "429"]
           /\ UNCHANGED <<limiters, admitted>>
    BY <1>2 DEF Allow
  <2> HIDE DEF l, i, t
  <2>4. t >= 1 => [tokens |-> t - 1, last |-> clock] \in [tokens : 0..Burst, last : 0..clock]
    BY <2>2 DEF TypeOK
  <2>5. limiters' \in [1..made -> [tokens : 0..Burst, last : 0..clock]]
    BY <2>1, <2>3, <2>4 DEF TypeOK
  <2>6. admitted' \in [IP -> Nat]
    <3>1. admitted \in [IP -> Nat] /\ admitted[i] + 1 \in Nat
      BY <2>1 DEF TypeOK
    <3> QED
      BY <2>1, <2>3, <3>1
  <2>7. verdict' \in [Req -> {"none", "next", "429"}]
    BY <2>3 DEF TypeOK
  <2> QED
    BY <1>2, <2>5, <2>6, <2>7 DEF Allow, TypeOK
<1>3. CASE Sweep
  BY <1>3 DEF Sweep, TypeOK
<1>4. CASE Tick
  <2>1. clock' = clock + 1 /\ 0..clock \subseteq 0..clock' /\ clock' \in 0..MaxClock
    BY <1>4 DEF Tick, TypeOK
  <2>2. wake' \in Nat /\ ticked' \in BOOLEAN
    BY <1>4 DEF Tick, TypeOK
  <2> QED
    BY <1>4, <2>1, <2>2 DEF Tick, TypeOK
<1>5. CASE Observe
  BY <1>5 DEF Observe, TypeOK
<1>6. CASE UNCHANGED vars
  BY <1>6 DEF vars, TypeOK
<1> QED
  BY <1>1, <1>2, <1>3, <1>4, <1>5, <1>6 DEF Next

(* However requests, sweeps and the clock interleave, entries and handlers *)
(* hold limiters that were made, with tokens between none and the burst,   *)
(* last refilled no later than now (ratelimit.go visitor, rate.Limiter).   *)
THEOREM TypeCorrect == Spec => []TypeOK
  BY InitTypeOK, TypeOKStep, PTL DEF Spec

-----------------------------------------------------------------------------
(* The map stays small.                                                    *)

(* Until the sweeper has run, entries may date from one period earlier.    *)
SweepInv ==
  /\ clock < wake
  /\ wake - SweepEvery <= clock
  /\ ticked => clock = wake - SweepEvery
  /\ \A i \in IP : visitors[i] # None =>
       visitors[i].lastSeen + Idle >= wake - SweepEvery - (IF ticked THEN SweepEvery ELSE 0)

LEMMA SweepInvStep == TypeOK /\ SweepInv /\ [Next]_vars => SweepInv'
<1> SUFFICES ASSUME TypeOK, SweepInv, [Next]_vars PROVE SweepInv'
  OBVIOUS
<1> USE LimiterAssumption
<1>1. ASSUME NEW r \in Req, NEW i \in IP, Lookup(r, i) PROVE SweepInv'
  <2>1. UNCHANGED <<clock, wake, ticked>>
    BY <1>1 DEF Lookup
  <2>2. \A j \in IP : visitors'[j] = visitors[j] \/ visitors'[j].lastSeen = clock
    BY <1>1 DEF Lookup, TypeOK
  <2>3. ASSUME NEW j \in IP, visitors'[j].lastSeen = clock
        PROVE  visitors'[j].lastSeen + Idle
                 >= wake - SweepEvery - (IF ticked THEN SweepEvery ELSE 0)
    BY <2>3 DEF SweepInv, TypeOK
  <2> QED
    BY <2>1, <2>2, <2>3 DEF SweepInv
<1>2. ASSUME NEW r \in Req, Allow(r) PROVE SweepInv'
  BY <1>2 DEF Allow, SweepInv
<1>3. CASE Sweep
  <2>1. ticked /\ ticked' = FALSE /\ UNCHANGED <<clock, wake>>
    BY <1>3 DEF Sweep
  <2>2. \A i \in IP : visitors'[i] # None =>
          visitors'[i] = visitors[i] /\ clock - visitors[i].lastSeen <= Idle
    BY <1>3 DEF Sweep, Expired, TypeOK
  <2> QED
    BY <2>1, <2>2 DEF SweepInv, TypeOK
<1>4. CASE Tick
  <2>1. ~ticked /\ clock' = clock + 1 /\ visitors' = visitors
    BY <1>4 DEF Tick
  <2>2. CASE clock + 1 = wake
    <3>1. ticked' /\ wake' = wake + SweepEvery
      BY <1>4, <2>2 DEF Tick
    <3> QED
      BY <2>1, <2>2, <3>1 DEF SweepInv, TypeOK
  <2>3. CASE clock + 1 # wake
    <3>1. ~ticked' /\ wake' = wake
      BY <1>4, <2>3 DEF Tick
    <3> QED
      BY <2>1, <2>3, <3>1 DEF SweepInv, TypeOK
  <2> QED
    BY <2>2, <2>3
<1>5. CASE Observe
  BY <1>5 DEF Observe, SweepInv
<1>6. CASE UNCHANGED vars
  BY <1>6 DEF vars, SweepInv
<1> QED
  BY <1>1, <1>2, <1>3, <1>4, <1>5, <1>6 DEF Next

(* No entry of the map is ever older than an idle time and a sweep period. *)
THEOREM MapIsSwept == Spec => []EntriesAreRecent
<1>1. Init => TypeOK /\ SweepInv
  BY InitTypeOK, LimiterAssumption DEF Init, SweepInv
<1>2. TypeOK /\ SweepInv /\ [Next]_vars => TypeOK' /\ SweepInv'
  BY TypeOKStep, SweepInvStep
<1>3. TypeOK /\ SweepInv => EntriesAreRecent
  BY LimiterAssumption DEF TypeOK, SweepInv, EntriesAreRecent
<1> QED
  BY <1>1, <1>2, <1>3, PTL DEF Spec

-----------------------------------------------------------------------------
(* A swept visitor is forgotten only when that cannot be noticed.          *)

HeldInv ==
  \A r \in Req : held[r] # None =>
    /\ clock <= held[r].at + MaxStall
    /\ held[r].at <= visitors[held[r].ip].lastSeen

LimitersApart ==
  \A i, j \in IP :
    visitors[i] # None /\ visitors[j] # None /\ visitors[i].limiter = visitors[j].limiter => i = j

(* The last token was taken at most a stall after the last lookup.         *)
TakenSoon ==
  \A i \in IP : visitors[i] # None =>
    limiters[visitors[i].limiter].last <= visitors[i].lastSeen + MaxStall

MapInv == HeldIsCurrent /\ HeldInv /\ LimitersApart /\ TakenSoon

LEMMA LookupVisitor ==
  ASSUME TypeOK, NEW r \in Req, NEW i \in IP, Lookup(r, i)
  PROVE  /\ \A j \in IP \ {i} : visitors'[j] = visitors[j]
         /\ visitors'[i] # None /\ visitors'[i].lastSeen = clock
         /\ \A l \in 1..made : limiters'[l] = limiters[l]
         /\ held' = [held EXCEPT ![r] =
                       [ip |-> i, limiter |-> visitors'[i].limiter, at |-> clock]]
         /\ IF visitors[i] = None
            THEN /\ visitors'[i].limiter = made + 1
                 /\ limiters'[made + 1] = [tokens |-> Burst, last |-> clock]
            ELSE visitors'[i].limiter = visitors[i].limiter
<1> USE LimiterAssumption
<1>1. CASE visitors[i] = None
  <2>1. /\ made' = made + 1
        /\ limiters' = [l \in 1..made' |->
             IF l = made' THEN [tokens |-> Burst, last |-> clock] ELSE limiters[l]]
        /\ visitors' = [visitors EXCEPT ![i] = [limiter |-> made', lastSeen |-> clock]]
    BY <1>1 DEF Lookup
  <2>2. made + 1 \in 1..(made + 1) /\ \A l \in 1..made : l \in 1..(made + 1) /\ l # made + 1
    BY DEF TypeOK
  <2>3. visitors'[i] = [limiter |-> made', lastSeen |-> clock]
    BY <2>1 DEF TypeOK
  <2>4. visitors'[i] \in [limiter : 1..made', lastSeen : 0..clock']
    BY <2>1, <2>2, <2>3 DEF TypeOK, Lookup
  <2>5. None \notin [limiter : 1..made', lastSeen : 0..clock']
    BY LimiterAssumption
  <2> QED
    BY <1>1, <2>1, <2>2, <2>3, <2>4, <2>5 DEF Lookup, TypeOK
<1>2. CASE visitors[i] # None
  BY <1>2 DEF Lookup, TypeOK
<1> QED
  BY <1>1, <1>2

LEMMA MapInvStep ==
  ASSUME MaxStall <= Idle
  PROVE  TypeOK /\ MapInv /\ [Next]_vars => MapInv'
<1> SUFFICES ASSUME TypeOK, MapInv, [Next]_vars PROVE MapInv'
  OBVIOUS
<1> USE LimiterAssumption
<1>1. ASSUME NEW r \in Req, NEW i \in IP, Lookup(r, i) PROVE MapInv'
  <2> USE <1>1, LookupVisitor
  <2>1. HeldIsCurrent'
    <3>1. ASSUME NEW q \in Req, held'[q] # None
          PROVE  LET v == visitors'[held'[q].ip] IN v # None /\ v.limiter = held'[q].limiter
      <4>1. CASE q = r
        <5>1. held'[r] = [ip |-> i, limiter |-> visitors'[i].limiter, at |-> clock]
          BY DEF TypeOK
        <5> QED
          BY <4>1, <5>1
      <4>2. CASE q # r
        <5>1. held'[q] = held[q] /\ held[q] # None /\ held[q].ip \in IP
          BY <3>1, <4>2 DEF TypeOK
        <5>2. visitors[held[q].ip] # None /\ visitors[held[q].ip].limiter = held[q].limiter
          BY <5>1 DEF MapInv, HeldIsCurrent
        <5> QED
          BY <5>1, <5>2
      <4> QED
        BY <4>1, <4>2
    <3> QED
      BY <3>1 DEF HeldIsCurrent
  <2>2. HeldInv'
    <3>1. clock' = clock /\ \A j \in IP : visitors[j] # None => visitors[j].lastSeen <= clock
      BY DEF Lookup, TypeOK
    <3>2. ASSUME NEW q \in Req, held'[q] # None
          PROVE  clock <= held'[q].at + MaxStall /\ held'[q].at <= visitors'[held'[q].ip].lastSeen
      <4>1. CASE q = r
        <5>1. held'[r] = [ip |-> i, limiter |-> visitors'[i].limiter, at |-> clock]
          BY DEF TypeOK
        <5> QED
          BY <4>1, <5>1 DEF TypeOK
      <4>2. CASE q # r
        <5>1. held'[q] = held[q] /\ held[q] # None /\ held[q].ip \in IP /\ held[q].at <= clock
          BY <3>2, <4>2 DEF TypeOK
        <5>2. clock <= held[q].at + MaxStall /\ held[q].at <= visitors[held[q].ip].lastSeen
          BY <5>1 DEF MapInv, HeldInv
        <5> QED
          BY <5>1, <5>2
      <4> QED
        BY <4>1, <4>2
    <3> QED
      BY <3>1, <3>2 DEF HeldInv
  <2>3. LimitersApart'
    <3>1. \A j \in IP : visitors[j] # None => visitors[j].limiter # made + 1
      BY DEF TypeOK
    <3>2. ASSUME NEW j \in IP \ {i}, visitors'[j] # None PROVE visitors'[j].limiter # visitors'[i].limiter
      <4>1. visitors'[j] = visitors[j] /\ visitors[j] # None
        BY <3>2
      <4> QED
        BY <3>1, <4>1 DEF MapInv, LimitersApart
    <3>3. ASSUME NEW j \in IP \ {i}, NEW k \in IP \ {i}, visitors'[j] # None, visitors'[k] # None,
                 visitors'[j].limiter = visitors'[k].limiter
          PROVE  j = k
      BY <3>3 DEF MapInv, LimitersApart
    <3> QED
      BY <3>2, <3>3 DEF LimitersApart
  <2>4. TakenSoon'
    <3>1. ASSUME NEW j \in IP \ {i}, visitors'[j] # None
          PROVE  limiters'[visitors'[j].limiter].last <= visitors'[j].lastSeen + MaxStall
      <4>1. visitors'[j] = visitors[j] /\ visitors[j].limiter \in 1..made
        BY <3>1 DEF TypeOK
      <4> QED
        BY <3>1, <4>1 DEF MapInv, TakenSoon
    <3>2. limiters'[visitors'[i].limiter].last <= visitors'[i].lastSeen + MaxStall
      <4>1. limiters'[visitors'[i].limiter].last \in 0..clock
        <5>1. CASE visitors[i] = None
          BY <5>1 DEF TypeOK
        <5>2. CASE visitors[i] # None
          <6>1. visitors[i] \in [limiter : 1..made, lastSeen : 0..clock]
            BY <5>2 DEF TypeOK
          <6>2. visitors[i].limiter \in 1..made
            BY <6>1
          <6>3. limiters[visitors[i].limiter] \in [tokens : 0..Burst, last : 0..clock]
            BY <6>2 DEF TypeOK
          <6> QED
            BY <5>2, <6>2, <6>3
        <5> QED
          BY <5>1, <5>2
      <4> QED
        BY <4>1 DEF TypeOK
    <3> QED
      BY <3>1, <3>2 DEF TakenSoon
  <2> QED
    BY <2>1, <2>2, <2>3, <2>4 DEF MapInv
<1>2. ASSUME NEW r \in Req, Allow(r) PROVE MapInv'
  <2> DEFINE l == held[r].limiter
             i == held[r].ip
  <2>1. /\ held[r] # None /\ l \in 1..made /\ i \in IP
        /\ clock <= held[r].at + MaxStall
        /\ held[r].at <= visitors[i].lastSeen
        /\ visitors[i] # None /\ visitors[i].limiter = l
    BY <1>2 DEF Allow, TypeOK, MapInv, HeldIsCurrent, HeldInv
  <2>2. UNCHANGED <<clock, visitors>> /\ \A q \in Req : held'[q] # None => held'[q] = held[q]
    BY <1>2 DEF Allow, TypeOK
  <2>3. \A m \in 1..made : limiters'[m] = limiters[m] \/ (m = l /\ limiters'[m].last = clock)
    <3> DEFINE new == [tokens |-> Tokens(limiters[l], clock) - 1, last |-> clock]
    <3>1. UNCHANGED limiters \/ limiters' = [limiters EXCEPT ![l] = new]
      BY <1>2 DEF Allow
    <3>2. limiters \in [1..made -> [tokens : 0..Burst, last : 0..clock]] /\ l \in 1..made
      BY <2>1 DEF TypeOK
    <3>3. new.last = clock
      OBVIOUS
    <3> HIDE DEF new, l
    <3> QED
      BY <3>1, <3>2, <3>3
  <2>4. ASSUME NEW j \in IP, visitors[j] # None
        PROVE  limiters'[visitors[j].limiter].last <= visitors[j].lastSeen + MaxStall
    <3>1. visitors[j].limiter \in 1..made
      BY <2>4 DEF TypeOK
    <3>2. CASE limiters'[visitors[j].limiter] = limiters[visitors[j].limiter]
      BY <2>4, <3>2 DEF MapInv, TakenSoon
    <3>3. CASE visitors[j].limiter = l /\ limiters'[visitors[j].limiter].last = clock
      <4>1. j = i
        BY <2>1, <2>4, <3>3 DEF MapInv, LimitersApart
      <4>2. visitors[i].lastSeen \in Nat /\ held[r].at \in Nat
        BY <2>1 DEF TypeOK
      <4> QED
        BY <2>1, <3>3, <4>1, <4>2 DEF TypeOK
    <3> QED
      BY <2>3, <3>1, <3>2, <3>3
  <2> QED
    BY <2>2, <2>4 DEF MapInv, HeldIsCurrent, HeldInv, LimitersApart, TakenSoon
<1>3. CASE Sweep
  <2>1. \A j \in IP : visitors'[j] # None => visitors'[j] = visitors[j]
    BY <1>3 DEF Sweep, TypeOK
  <2>2. UNCHANGED <<clock, limiters, held>>
    BY <1>3 DEF Sweep
  <2>3. ASSUME NEW q \in Req, held[q] # None PROVE visitors'[held[q].ip] = visitors[held[q].ip]
    <3>1. /\ held[q].ip \in IP /\ held[q].at \in Nat /\ visitors[held[q].ip] # None
          /\ visitors[held[q].ip].lastSeen \in Nat
      BY <2>3 DEF TypeOK, MapInv, HeldIsCurrent
    <3>2. clock <= held[q].at + MaxStall /\ held[q].at <= visitors[held[q].ip].lastSeen
      BY <2>3 DEF MapInv, HeldInv
    <3>3. ~Expired(visitors[held[q].ip])
      BY <3>1, <3>2 DEF Expired, TypeOK
    <3> QED
      BY <1>3, <3>1, <3>3 DEF Sweep
  <2> QED
    BY <2>1, <2>2, <2>3 DEF MapInv, HeldIsCurrent, HeldInv, LimitersApart, TakenSoon
<1>4. CASE Tick
  <2>1. /\ clock' = clock + 1 /\ UNCHANGED <<visitors, limiters, held>>
        /\ \A q \in Req : held[q] # None => clock < held[q].at + MaxStall
    BY <1>4 DEF Tick
  <2>2. \A q \in Req : held[q] # None => held[q].at \in Nat
    BY DEF TypeOK
  <2> QED
    BY <2>1, <2>2 DEF MapInv, HeldIsCurrent, HeldInv, LimitersApart, TakenSoon, TypeOK
<1>5. CASE Observe
  BY <1>5 DEF Observe, MapInv, HeldIsCurrent, HeldInv, LimitersApart, TakenSoon
<1>6. CASE UNCHANGED vars
  BY <1>6 DEF vars, MapInv, HeldIsCurrent, HeldInv, LimitersApart, TakenSoon
<1> QED
  BY <1>1, <1>2, <1>3, <1>4, <1>5, <1>6 DEF Next

LEMMA InitMapInv == Init => MapInv
BY DEF Init, MapInv, HeldIsCurrent, HeldInv, LimitersApart, TakenSoon

(* A handler descheduled between Unlock and Allow still takes its token    *)
(* from the bucket of its address, if stalls are shorter than idle times.  *)
THEOREM HeldLimiterIsCurrent ==
  ASSUME MaxStall <= Idle
  PROVE  Spec => []HeldIsCurrent
<1>1. Init => TypeOK /\ MapInv
  BY InitTypeOK, InitMapInv
<1>2. TypeOK /\ MapInv /\ [Next]_vars => TypeOK' /\ MapInv'
  BY TypeOKStep, MapInvStep
<1>3. MapInv => HeldIsCurrent
  BY DEF MapInv
<1> QED
  BY <1>1, <1>2, <1>3, PTL DEF Spec

-----------------------------------------------------------------------------
(* The swept map implements buckets that are never forgotten.              *)

LEMMA AvailOfVisitor ==
  ASSUME TypeOK, NEW i \in IP, visitors[i] # None
  PROVE  /\ visitors[i].limiter \in 1..made
         /\ limiters[visitors[i].limiter] \in [tokens : 0..Burst, last : 0..clock]
         /\ Avail[i] = Tokens(limiters[visitors[i].limiter], clock)
<1>1. visitors[i] \in [limiter : 1..made, lastSeen : 0..clock]
  BY DEF TypeOK
<1>2. visitors[i].limiter \in 1..made
  BY <1>1
<1> QED
  BY <1>2 DEF TypeOK, Avail

LEMMA LookupArrives ==
  ASSUME TypeOK, NEW r \in Req, NEW i \in IP, Lookup(r, i)
  PROVE  Bucket!Arrive(r, i)
<1> USE LimiterAssumption
<1>1. UNCHANGED <<clock, since, admitted>> /\ held[r] = None
        /\ verdict' = [verdict EXCEPT ![r] = "none"]
  BY DEF Lookup
<1>2. \A j \in IP : Avail'[j] = Avail[j]
  <2>1. ASSUME NEW j \in IP \ {i} PROVE Avail'[j] = Avail[j]
    <3>1. visitors'[j] = visitors[j]
      BY LookupVisitor
    <3>2. CASE visitors[j] = None
      BY <3>1, <3>2 DEF Avail
    <3>3. CASE visitors[j] # None
      <4>1. visitors[j].limiter \in 1..made
        BY <3>3, AvailOfVisitor
      <4>2. limiters'[visitors'[j].limiter] = limiters[visitors[j].limiter]
        BY <3>1, <4>1, LookupVisitor
      <4> QED
        BY <1>1, <3>1, <3>3, <4>2 DEF Avail
    <3> QED
      BY <3>2, <3>3
  <2>2. Avail'[i] = Tokens(limiters'[visitors'[i].limiter], clock)
    BY <1>1, LookupVisitor DEF Avail
  <2>3. CASE visitors[i] = None
    <3>1. limiters'[visitors'[i].limiter] = [tokens |-> Burst, last |-> clock]
      BY <2>3, LookupVisitor
    <3>2. Tokens([tokens |-> Burst, last |-> clock], clock) = Burst
      BY TokensNow DEF TypeOK
    <3> QED
      BY <2>1, <2>2, <2>3, <3>1, <3>2 DEF Avail
  <2>4. CASE visitors[i] # None
    <3>1. visitors[i].limiter \in 1..made /\ Avail[i] = Tokens(limiters[visitors[i].limiter], clock)
      BY <2>4, AvailOfVisitor
    <3>2. limiters'[visitors'[i].limiter] = limiters[visitors[i].limiter]
      BY <2>4, <3>1, LookupVisitor
    <3> QED
      BY <2>1, <2>2, <3>1, <3>2
  <2> QED
    BY <2>3, <2>4
<1>3. Avail' = Avail
  BY <1>2 DEF Avail
<1>4. held' = [held EXCEPT ![r] = [ip |-> i, limiter |-> visitors'[i].limiter, at |-> clock]]
  BY LookupVisitor
<1>5. Waiting[r] = None /\ Waiting' = [Waiting EXCEPT ![r] = i]
  <2>1. held'[r] = [ip |-> i, limiter |-> visitors'[i].limiter, at |-> clock]
    BY <1>4 DEF TypeOK
  <2>2. visitors'[i].limiter \in Nat /\ clock \in Nat
    <3>1. CASE visitors[i] = None
      BY <3>1, LookupVisitor DEF TypeOK
    <3>2. CASE visitors[i] # None
      BY <3>2, LookupVisitor, AvailOfVisitor DEF TypeOK
    <3> QED
      BY <3>1, <3>2 DEF TypeOK
  <2>3. held'[r] # None /\ held'[r].ip = i
    BY <2>1, <2>2
  <2>4. \A q \in Req \ {r} : held'[q] = held[q]
    BY <1>4 DEF TypeOK
  <2>5. Waiting'[r] = i
    BY <2>3 DEF Waiting
  <2>6. \A q \in Req \ {r} : Waiting'[q] = Waiting[q]
    BY <2>4 DEF Waiting
  <2> QED
    BY <1>1, <2>5, <2>6 DEF Waiting
<1> QED
  BY <1>1, <1>3, <1>5 DEF Bucket!Arrive

LEMMA AllowDecides ==
  ASSUME TypeOK, MapInv, NEW r \in Req, Allow(r)
  PROVE  Bucket!Decide(r, held[r].ip)
<1> USE LimiterAssumption
<1> DEFINE l == held[r].limiter
           i == held[r].ip
           t == Tokens(limiters[l], clock)
<1>1. /\ held[r] # None /\ i \in IP
      /\ visitors[i] # None /\ visitors[i].limiter = l
  BY DEF Allow, TypeOK, MapInv, HeldIsCurrent
<1>2. l \in 1..made /\ Avail[i] = t /\ t \in 0..Burst
  <2>1. l \in 1..made /\ Avail[i] = t /\ limiters[l] \in [tokens : 0..Burst, last : 0..clock]
    BY <1>1, AvailOfVisitor
  <2>2. clock \in Nat
    BY DEF TypeOK
  <2> QED
    BY <2>1, <2>2, TokensType
<1>3. Waiting[r] = i /\ Waiting' = [Waiting EXCEPT ![r] = None]
  BY <1>1 DEF Allow, Waiting, TypeOK
<1>4. /\ UNCHANGED <<clock, since, visitors>>
      /\ \/ /\ t >= 1
            /\ limiters' = [limiters EXCEPT ![l] = [tokens |-> t - 1, last |-> clock]]
            /\ verdict' = [verdict EXCEPT ![r] = "next"]
            /\ admitted' = [admitted EXCEPT ![i] = @ + 1]
         \/ /\ ~(t >= 1)
            /\ verdict' = [verdict EXCEPT ![r] = "429"]
            /\ UNCHANGED <<limiters, admitted>>
  BY DEF Allow
<1>5. CASE t >= 1
  <2>1. limiters' = [limiters EXCEPT ![l] = [tokens |-> t - 1, last |-> clock]]
    BY <1>4, <1>5
  <2>2. limiters'[l] = [tokens |-> t - 1, last |-> clock]
    BY <1>2, <2>1 DEF TypeOK
  <2>3. Tokens(limiters'[l], clock) = t - 1
    BY <1>2, <1>5, <2>2, TokensNow DEF TypeOK
  <2> HIDE DEF t
  <2>4. Avail'[i] = t - 1
    BY <1>1, <1>4, <2>3 DEF Avail
  <2>5. ASSUME NEW j \in IP \ {i} PROVE Avail'[j] = Avail[j]
    <3>1. CASE visitors[j] = None
      BY <1>4, <3>1 DEF Avail
    <3>2. CASE visitors[j] # None
      <4>1. visitors[j].limiter # l
        BY <1>1, <3>2 DEF MapInv, LimitersApart
      <4>2. visitors[j].limiter \in 1..made
        BY <3>2, AvailOfVisitor
      <4>3. limiters'[visitors[j].limiter] = limiters[visitors[j].limiter]
        BY <2>1, <4>1, <4>2 DEF TypeOK
      <4> QED
        BY <1>4, <3>2, <4>3 DEF Avail
    <3> QED
      BY <3>1, <3>2
  <2>6. Avail' = [Avail EXCEPT ![i] = @ - 1]
    BY <1>2, <2>4, <2>5 DEF Avail
  <2> QED
    BY <1>2, <1>3, <1>4, <1>5, <2>6 DEF Bucket!Decide
<1>6. CASE ~(t >= 1)
  <2>1. Avail' = Avail
    BY <1>4, <1>6 DEF Avail
  <2> QED
    BY <1>2, <1>3, <1>4, <1>6, <2>1 DEF Bucket!Decide
<1> QED
  BY <1>5, <1>6

LEMMA SweepStutters ==
  ASSUME SweptWhenFull, TypeOK, MapInv, Sweep
  PROVE  UNCHANGED Bucket!vars
<1> USE LimiterAssumption
<1>1. /\ visitors' = [i \in IP |-> IF Expired(visitors[i]) THEN None ELSE visitors[i]]
      /\ UNCHANGED <<clock, limiters, held, verdict, since, admitted>>
  BY DEF Sweep
<1>2. ASSUME NEW i \in IP PROVE Avail'[i] = Avail[i]
  <2>1. CASE ~Expired(visitors[i])
    BY <1>1, <2>1 DEF Avail
  <2>2. CASE Expired(visitors[i])
    <3> DEFINE lim == limiters[visitors[i].limiter]
               d == Idle + 1 - MaxStall
    <3>1. visitors[i] # None /\ clock - visitors[i].lastSeen > Idle
      BY <2>2 DEF Expired
    <3>2. visitors[i].lastSeen \in Nat
      BY <3>1 DEF TypeOK
    <3>3. lim.last <= visitors[i].lastSeen + MaxStall
      BY <3>1 DEF MapInv, TakenSoon
    <3>4. lim \in [tokens : 0..Burst, last : 0..clock] /\ Avail[i] = Tokens(lim, clock)
      BY <3>1, AvailOfVisitor
    <3>5. clock \in Nat /\ d \in Nat /\ Burst <= Rate * d
      BY DEF TypeOK, SweptWhenFull
    <3>6. lim.last \in Nat
      BY <3>4
    <3>7. clock - lim.last >= d
      BY <3>1, <3>2, <3>3, <3>5, <3>6
    <3> HIDE DEF lim, d
    <3>8. Tokens(lim, clock) = Burst
      BY <3>4, <3>5, <3>7, FullAfter
    <3>9. Avail'[i] = Burst
      BY <1>1, <2>2 DEF Avail
    <3> QED
      BY <3>4, <3>8, <3>9
  <2> QED
    BY <2>1, <2>2
<1>3. Avail' = Avail
  BY <1>2 DEF Avail
<1>4. Waiting' = Waiting
  BY <1>1 DEF Waiting
<1> QED
  BY <1>1, <1>3, <1>4 DEF Bucket!vars

LEMMA TickRefills ==
  ASSUME TypeOK, Tick
  PROVE  Bucket!Refill
<1> USE LimiterAssumption
<1>1. clock' = clock + 1 /\ UNCHANGED <<visitors, limiters, held, verdict, since, admitted>>
  BY DEF Tick
<1>2. ASSUME NEW i \in IP PROVE Avail'[i] = Least(Burst, Avail[i] + Rate)
  <2>1. CASE visitors[i] = None
    BY <1>1, <2>1 DEF Avail, Least
  <2>2. CASE visitors[i] # None
    <3>1. limiters[visitors[i].limiter] \in [tokens : 0..Burst, last : 0..clock]
            /\ Avail[i] = Tokens(limiters[visitors[i].limiter], clock)
      BY <2>2, AvailOfVisitor
    <3>2. Avail'[i] = Tokens(limiters[visitors[i].limiter], clock + 1)
      BY <1>1, <2>2 DEF Avail
    <3>3. clock \in Nat
      BY DEF TypeOK
    <3> QED
      BY <3>1, <3>2, <3>3, TokensLater
  <2> QED
    BY <2>1, <2>2
<1>3. Avail' = [i \in IP |-> Least(Burst, Avail[i] + Rate)]
  BY <1>2 DEF Avail
<1>4. Waiting' = Waiting
  BY <1>1 DEF Waiting
<1> QED
  BY <1>1, <1>3, <1>4 DEF Bucket!Refill, Bucket!Least, Least

(* The in-memory map, swept while handlers run, limits every address like  *)
(* a bucket that is never forgotten - provided an idle bucket refills      *)
(* before it is swept, which the default 2 requests a second, burst 10 and *)
(* 10 minutes satisfy.                                                     *)
THEOREM SweepingIsInvisible ==
  ASSUME SweptWhenFull
  PROVE  Spec => NeverForgets
<1>1. Init => Bucket!Init
  BY DEF Init, Bucket!Init, Avail, Waiting
<1>2. Init => TypeOK /\ MapInv
  BY InitTypeOK, InitMapInv
<1>3. TypeOK /\ MapInv /\ [Next]_vars => TypeOK' /\ MapInv'
  BY TypeOKStep, MapInvStep DEF SweptWhenFull
<1>4. TypeOK /\ MapInv /\ [Next]_vars => [Bucket!Next]_(Bucket!vars)
  <2> SUFFICES ASSUME TypeOK, MapInv, [Next]_vars PROVE [Bucket!Next]_(Bucket!vars)
    OBVIOUS
  <2>1. ASSUME NEW r \in Req, NEW i \in IP, Lookup(r, i) PROVE Bucket!Next
    BY <2>1, LookupArrives DEF Bucket!Next
  <2>2. ASSUME NEW r \in Req, Allow(r) PROVE Bucket!Next
    <3>1. held[r].ip \in IP
      BY <2>2 DEF Allow, TypeOK
    <3> QED
      BY <2>2, <3>1, AllowDecides DEF Bucket!Next
  <2>3. CASE Sweep
    BY <2>3, SweepStutters
  <2>4. CASE Tick
    BY <2>4, TickRefills DEF Bucket!Next
  <2>5. CASE Observe
    BY <2>5 DEF Observe, Bucket!Observe, Bucket!Next, Avail, Waiting
  <2>6. CASE UNCHANGED vars
    BY <2>6 DEF vars, Bucket!vars, Avail, Waiting
  <2> QED
    BY <2>1, <2>2, <2>3, <2>4, <2>5, <2>6 DEF Next
<1> QED
  BY <1>1, <1>2, <1>3, <1>4, PTL DEF Spec, NeverForgets, Bucket!Spec

(* Whenever one starts to count, an address gets no more requests through  *)
(* than its burst and the refill since, however often its entry is swept.  *)
THEOREM RateIsLimited ==
  ASSUME SweptWhenFull
  PROVE  Spec => []WithinBudget
<1>1. Bucket!Instantiable
  BY LimiterAssumption DEF Bucket!Instantiable
<1>2. Bucket!Spec => []Bucket!WithinBudget
  BY <1>1, Bucket!BucketWithinBudget
<1>3. Bucket!WithinBudget <=> WithinBudget
  BY DEF Bucket!WithinBudget, WithinBudget
<1> QED
  BY <1>2, <1>3, SweepingIsInvisible, PTL DEF NeverForgets

=============================================================================
