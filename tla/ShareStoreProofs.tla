-------------------------- MODULE ShareStoreProofs --------------------------
(***************************************************************************)
(* What holds of shares for any number of handlers, ids and hours, however *)
(* often commands are lost, sent again or abandoned, and also when the     *)
(* TTL wraps; and that it holds across every stop and start of the server. *)
(***************************************************************************)
EXTENDS Server, TLAPS

(* What a handler has computed, and what Redis has stored, never promises  *)
(* a time after the one Redis forgets the key at.                          *)
SavesInTime ==
  \A h \in Handler : saves[h] # None =>
    saves[h].expiresAt <= IF saves[h].ttl = 0 THEN Forever ELSE now + saves[h].ttl

RecordsInTime == \A id \in Id : redis[id] # None => redis[id].expiresAt <= redis[id].until

IInv == TypeOK /\ SavesInTime /\ RecordsInTime /\ LinksLoad

(* A requested TTL is a number, wrapped or not.                            *)
LEMMA RequestedType == \A hours \in TTLHours : Requested(hours) \in Int
<1> SUFFICES ASSUME NEW hours \in TTLHours PROVE Requested(hours) \in Int
  OBVIOUS
<1>1. CASE hours = None
  BY <1>1, StoreAssumption DEF Requested
<1>2. CASE hours # None
  <2>1. hours * Hour \in Int
    BY <1>2, StoreAssumption
  <2>2. Wrap(hours * Hour) \in Int
    BY <2>1, StoreAssumption DEF Wrap
  <2> QED
    BY <1>2, <2>2, StoreAssumption DEF Requested
<1> QED
  BY <1>1, <1>2

(* Each step on the store keeps the invariant.                             *)
LEMMA InitIInv == Init => IInv
BY StoreAssumption DEF Init, IInv, TypeOK, SavesInTime, RecordsInTime, LinksLoad

LEMMA CreateShareIInv ==
  ASSUME IInv, NEW h \in Handler, NEW d \in Doc \cup {Broken}, NEW hours \in TTLHours,
         CreateShare(h, d, hours)
  PROVE  IInv'
<1> USE DEF IInv
<1>1. CASE saves' = [saves EXCEPT ![h] = None]
  <2>1. TypeOK'
    BY <1>1, StoreAssumption DEF TypeOK, CreateShare
  <2>2. SavesInTime'
    BY <1>1 DEF TypeOK, CreateShare, SavesInTime, Forever
  <2> QED
    BY <2>1, <2>2 DEF CreateShare, RecordsInTime, LinksLoad
<1>2. CASE saves' # [saves EXCEPT ![h] = None]
  <2> DEFINE s == [doc |-> d, ttl |-> Requested(hours), expiresAt |-> now + Requested(hours),
                   id |-> None, attempt |-> 0, sends |-> 0]
  <2>1. saves' = [saves EXCEPT ![h] = s] /\ d \in Doc
    BY <1>2 DEF CreateShare, Answered
  <2>2. now \in Int /\ now <= MaxNow
    BY StoreAssumption DEF TypeOK
  <2>3. s \in Save
    BY <2>1, <2>2, RequestedType, StoreAssumption DEF Save
  <2>4. TypeOK'
    BY <2>1, <2>3 DEF TypeOK, CreateShare
  <2>5. s.expiresAt <= IF s.ttl = 0 THEN Forever ELSE now + s.ttl
    BY <2>2, RequestedType, StoreAssumption DEF Forever
  <2> HIDE DEF s
  <2>6. SavesInTime'
    BY <2>1, <2>5 DEF TypeOK, CreateShare, SavesInTime, Forever
  <2> QED
    BY <2>4, <2>6 DEF CreateShare, RecordsInTime, LinksLoad
<1> QED
  BY <1>1, <1>2

LEMMA PickIdIInv ==
  ASSUME IInv, NEW h \in Handler, NEW id \in Id, PickId(h, id)
  PROVE  IInv'
<1> USE DEF IInv
<1>1. saves[h] \in Save /\ saves[h].attempt + 1 \in 0..MaxAttempts /\ 0 \in 0..(MaxSends - 1)
  BY StoreAssumption DEF PickId, TypeOK, Save
<1> DEFINE s == [saves[h] EXCEPT !.id = id, !.attempt = @ + 1, !.sends = 0]
<1>2. s \in Save /\ s.expiresAt = saves[h].expiresAt /\ s.ttl = saves[h].ttl
  BY <1>1 DEF Save
<1>3. saves' = [saves EXCEPT ![h] = s]
  BY DEF PickId, TypeOK
<1> HIDE DEF s
<1>4. TypeOK'
  BY <1>2, <1>3 DEF TypeOK, PickId
<1>5. SavesInTime'
  BY <1>2, <1>3 DEF TypeOK, PickId, SavesInTime, Forever
<1> QED
  BY <1>4, <1>5 DEF PickId, RecordsInTime, LinksLoad

(* A handler that leaves Save, however it does, leaves Redis consistent.   *)
LEMMA AnsweredIInv ==
  ASSUME IInv, NEW h \in Handler, Answered(h), UNCHANGED <<now, redis, issued>>, loaded' = None
  PROVE  IInv'
<1> USE DEF IInv
<1>1. TypeOK'
  BY DEF TypeOK, Answered
<1>2. SavesInTime'
  BY DEF TypeOK, Answered, SavesInTime, Forever
<1> QED
  BY <1>1, <1>2 DEF RecordsInTime, LinksLoad

LEMMA AbandonedIInv ==
  ASSUME IInv, NEW gone \in SUBSET Handler, Abandoned(gone)
  PROVE  IInv'
<1> USE DEF IInv
<1>1. TypeOK'
  BY DEF TypeOK, Abandoned
<1>2. SavesInTime'
  BY DEF TypeOK, Abandoned, SavesInTime, Forever
<1> QED
  BY <1>1, <1>2 DEF Abandoned, RecordsInTime, LinksLoad

(* The command on Redis itself: a key that is there stays, and a new one   *)
(* outlives what its handler will answer.                                  *)
LEMMA ExecutesSafely ==
  ASSUME IInv, NEW h \in Handler, Sending(h), Executes(h)
  PROVE  /\ redis' \in [Id -> Record \cup {None}]
         /\ \A id \in Id : redis'[id] # None => redis'[id].expiresAt <= redis'[id].until
         /\ \A id \in Id : redis[id] # None => redis'[id] = redis[id]
         /\ ~Refused(h) /\ ~Taken(saves[h].id) =>
              /\ redis'[saves[h].id] # None
              /\ redis'[saves[h].id].doc = saves[h].doc
              /\ redis'[saves[h].id].expiresAt = saves[h].expiresAt
<1> USE DEF IInv
<1>1. CASE UNCHANGED redis /\ (Refused(h) \/ Taken(saves[h].id))
  BY <1>1 DEF TypeOK, RecordsInTime
<1>2. CASE ~Refused(h) /\ ~Taken(saves[h].id) /\ Stored(h)
  <2> DEFINE u == IF saves[h].ttl = 0 THEN Forever ELSE now + saves[h].ttl
             r == [doc |-> saves[h].doc, expiresAt |-> saves[h].expiresAt, until |-> u]
  <2>1. saves[h] \in Save /\ saves[h].id \in Id
    BY DEF TypeOK, Sending, Save
  <2>2. saves[h].ttl \in Int /\ saves[h].ttl >= 0 /\ now \in Nat /\ Forever \in Nat
    BY <1>2, <2>1, StoreAssumption DEF Refused, Save, TypeOK, Forever
  <2>3. u \in Nat /\ saves[h].expiresAt <= u
    BY <2>2 DEF SavesInTime, Sending
  <2> HIDE DEF u
  <2>4. r \in Record /\ r # None /\ r.expiresAt <= r.until
        /\ r.doc = saves[h].doc /\ r.expiresAt = saves[h].expiresAt
    <3>1. r \in Record
      BY <2>1, <2>3 DEF Record, Save
    <3>2. r # None
      BY <3>1, NoneAssumption
    <3> QED
      BY <2>3, <3>1, <3>2
  <2>5. redis' = [redis EXCEPT ![saves[h].id] = r] /\ redis[saves[h].id] = None
    BY <1>2 DEF Stored, Taken, u
  <2> HIDE DEF r
  <2> QED
    BY <1>2, <2>1, <2>4, <2>5 DEF TypeOK, RecordsInTime
<1> QED
  BY <1>1, <1>2 DEF Executes

LEMMA SetNXIInv ==
  ASSUME IInv, NEW h \in Handler, SetNX(h)
  PROVE  IInv'
<1> USE DEF IInv
<1> DEFINE share == [id |-> saves[h].id, doc |-> saves[h].doc, expiresAt |-> saves[h].expiresAt]
<1>1. Sending(h) /\ Executes(h) /\ now' = now /\ loaded' = None
  BY DEF SetNX
<1>2. /\ redis' \in [Id -> Record \cup {None}]
      /\ RecordsInTime'
      /\ \A id \in Id : redis[id] # None => redis'[id] = redis[id]
  BY <1>1, ExecutesSafely DEF RecordsInTime
<1>3. saves[h] \in Save /\ saves[h].id \in Id
  BY <1>1 DEF TypeOK, Sending, Save
<1>4. \A i \in issued : i.id \in Id
  BY DEF TypeOK, Share
<1>5. saves' \in [Handler -> Save \cup {None}] /\ SavesInTime'
  <2>1. CASE saves' = [saves EXCEPT ![h] = None]
    BY <1>1, <2>1 DEF TypeOK, SavesInTime, Forever
  <2>2. CASE saves' = [saves EXCEPT ![h].id = None, ![h].sends = 0]
    <3> DEFINE s == [saves[h] EXCEPT !.id = None, !.sends = 0]
    <3>1. s \in Save /\ s.expiresAt = saves[h].expiresAt /\ s.ttl = saves[h].ttl
      <4>1. 0 \in 0..(MaxSends - 1)
        BY StoreAssumption
      <4> QED
        BY <1>3, <4>1 DEF Save
    <3>2. saves' = [saves EXCEPT ![h] = s]
      BY <2>2 DEF TypeOK
    <3> HIDE DEF s
    <3> QED
      BY <1>1, <3>1, <3>2 DEF TypeOK, SavesInTime, Forever, Sending
  <2> QED
    BY <2>1, <2>2 DEF SetNX, Answered
<1>6. CASE UNCHANGED issued
  BY <1>1, <1>2, <1>4, <1>5, <1>6 DEF TypeOK, LinksLoad
<1>7. CASE ~Refused(h) /\ ~Taken(saves[h].id) /\ issued' = issued \cup {share}
  <2>1. share \in Share /\ share.id = saves[h].id /\ share.doc = saves[h].doc
        /\ share.expiresAt = saves[h].expiresAt
    BY <1>3 DEF Share, Save
  <2> HIDE DEF share
  <2>2. /\ redis'[share.id] # None
        /\ redis'[share.id].doc = share.doc
        /\ redis'[share.id].expiresAt = share.expiresAt
    BY <1>1, <1>7, <2>1, ExecutesSafely
  <2>3. LinksLoad'
    BY <1>1, <1>2, <1>4, <1>7, <2>2 DEF LinksLoad
  <2> QED
    BY <1>1, <1>2, <1>5, <1>7, <2>1, <2>3 DEF TypeOK
<1> QED
  BY <1>6, <1>7 DEF SetNX

LEMMA LostIInv ==
  ASSUME IInv, NEW h \in Handler, NEW reached \in BOOLEAN, Lost(h, reached)
  PROVE  IInv'
<1> USE DEF IInv
<1>1. Sending(h) /\ now' = now /\ issued' = issued /\ loaded' = None
  BY DEF Lost
<1>2. /\ redis' \in [Id -> Record \cup {None}]
      /\ RecordsInTime'
      /\ \A id \in Id : redis[id] # None => redis'[id] = redis[id]
  <2>1. CASE reached
    BY <1>1, <2>1, ExecutesSafely DEF RecordsInTime, Lost
  <2>2. CASE ~reached
    BY <2>2 DEF Lost, TypeOK, RecordsInTime
  <2> QED
    BY <2>1, <2>2
<1>3. saves[h] \in Save
  BY <1>1 DEF TypeOK, Sending
<1>4. saves' \in [Handler -> Save \cup {None}] /\ SavesInTime'
  <2>1. CASE Answered(h)
    BY <1>1, <2>1 DEF TypeOK, SavesInTime, Forever, Answered
  <2>2. CASE saves[h].sends + 1 < MaxSends /\ saves' = [saves EXCEPT ![h].sends = @ + 1]
    <3> DEFINE s == [saves[h] EXCEPT !.sends = @ + 1]
    <3>1. saves[h].sends + 1 \in 0..(MaxSends - 1)
      BY <1>3, <2>2, StoreAssumption DEF Save
    <3>2. s \in Save /\ s.expiresAt = saves[h].expiresAt /\ s.ttl = saves[h].ttl
      BY <1>3, <3>1 DEF Save
    <3>3. saves' = [saves EXCEPT ![h] = s]
      BY <2>2 DEF TypeOK
    <3> HIDE DEF s
    <3> QED
      BY <1>1, <3>2, <3>3 DEF TypeOK, SavesInTime, Forever, Sending
  <2> QED
    BY <2>1, <2>2 DEF Lost
<1>5. LinksLoad'
  BY <1>1, <1>2 DEF LinksLoad, TypeOK, Share
<1> QED
  BY <1>1, <1>2, <1>4, <1>5 DEF TypeOK

LEMMA ReadIInv ==
  ASSUME IInv, NEW id \in Id, Read(id)
  PROVE  IInv'
<1> USE DEF IInv
<1>1. (IF Taken(id) THEN redis[id].doc ELSE None) \in Doc \cup {None}
  BY DEF TypeOK, Taken, Record
<1>2. TypeOK'
  BY <1>1 DEF TypeOK, Read
<1>3. SavesInTime'
  BY DEF SavesInTime, Read, Forever
<1> QED
  BY <1>2, <1>3 DEF Read, RecordsInTime, LinksLoad

(* Redis forgets a key only when the share handed out with it has expired. *)
LEMMA TickIInv ==
  ASSUME IInv, Tick
  PROVE  IInv'
<1> USE DEF IInv
<1>1. now \in Int /\ now' \in 0..MaxNow /\ now' = now + 1
  BY StoreAssumption DEF Tick, TypeOK
<1>2. redis' \in [Id -> Record \cup {None}]
  BY DEF Tick, TypeOK
<1>3. RecordsInTime'
  BY DEF Tick, RecordsInTime
<1>4. TypeOK'
  BY <1>1, <1>2 DEF Tick, TypeOK
<1>5. SavesInTime'
  <2> SUFFICES ASSUME NEW h \in Handler, saves[h] # None
               PROVE  saves[h].expiresAt <= IF saves[h].ttl = 0 THEN Forever ELSE now' + saves[h].ttl
    BY DEF Tick, SavesInTime, Forever
  <2>1. saves[h].expiresAt \in Int /\ saves[h].ttl \in Int /\ Forever \in Int
    BY StoreAssumption DEF TypeOK, Save, Forever
  <2> QED
    BY <1>1, <2>1 DEF SavesInTime
<1>6. LinksLoad'
  <2> SUFFICES ASSUME NEW s \in issued, now' < s.expiresAt
               PROVE  /\ redis'[s.id] # None
                      /\ redis'[s.id].doc = s.doc
                      /\ redis'[s.id].expiresAt = s.expiresAt
    BY DEF Tick, LinksLoad
  <2>1. s.id \in Id /\ s.expiresAt \in Int
    BY DEF TypeOK, Share
  <2>2. /\ redis[s.id] # None
        /\ redis[s.id].doc = s.doc
        /\ redis[s.id].expiresAt = s.expiresAt
    BY <1>1, <2>1 DEF LinksLoad
  <2>3. redis[s.id].until \in Int /\ s.expiresAt <= redis[s.id].until
    BY <2>1, <2>2 DEF TypeOK, Record, RecordsInTime
  <2> QED
    BY <1>1, <2>1, <2>2, <2>3 DEF Tick
<1> QED
  BY <1>3, <1>4, <1>5, <1>6

LEMMA NextIInv == IInv /\ [Next]_vars => IInv'
<1> SUFFICES ASSUME IInv, [Next]_vars PROVE IInv'
  OBVIOUS
<1>1. ASSUME NEW h \in Handler, NEW d \in Doc \cup {Broken}, NEW hours \in TTLHours,
             CreateShare(h, d, hours)
      PROVE  IInv'
  BY <1>1, CreateShareIInv
<1>2. ASSUME NEW h \in Handler, NEW id \in Id, PickId(h, id) PROVE IInv'
  BY <1>2, PickIdIInv
<1>3. ASSUME NEW h \in Handler, Exhausted(h) PROVE IInv'
  BY <1>3, AnsweredIInv DEF Exhausted
<1>4. ASSUME NEW h \in Handler, SetNX(h) PROVE IInv'
  BY <1>4, SetNXIInv
<1>5. ASSUME NEW h \in Handler, NEW reached \in BOOLEAN, Lost(h, reached) PROVE IInv'
  BY <1>5, LostIInv
<1>6. ASSUME NEW id \in Id, Read(id) PROVE IInv'
  BY <1>6, ReadIInv
<1>7. CASE Tick
  BY <1>7, TickIInv
<1>8. CASE UNCHANGED vars
  BY <1>8 DEF vars, IInv, TypeOK, SavesInTime, RecordsInTime, LinksLoad, Forever
<1>9. ASSUME NEW gone \in SUBSET Handler, Abandoned(gone) PROVE IInv'
  BY <1>9, AbandonedIInv
<1> QED
  BY <1>1, <1>2, <1>3, <1>4, <1>5, <1>6, <1>7, <1>8, <1>9 DEF Next, GetShare, ExportShare, ShareOG

LEMMA Inductive == Spec => []IInv
<1> QED
  BY InitIInv, NextIInv, PTL DEF Spec

(* Every handler's Save stays within its attempts and sends, and every     *)
(* record in Redis is whole.                                               *)
THEOREM TypeCorrect == Spec => []TypeOK
<1>1. IInv => TypeOK
  BY DEF IInv
<1> QED
  BY <1>1, Inductive, PTL

(* A link loads the documents it was handed out for until it expires.      *)
THEOREM LinksAlwaysLoad == Spec => []LinksLoad
<1>1. IInv => LinksLoad
  BY DEF IInv
<1> QED
  BY <1>1, Inductive, PTL

-----------------------------------------------------------------------------
(* Every step of the handlers and of Redis is a step of the registry.      *)
LEMMA StepsOfTheRegistry == IInv /\ [Next]_vars => [Registry!Next]_(Registry!vars)
<1> SUFFICES ASSUME IInv, [Next]_vars PROVE [Registry!Next]_(Registry!vars)
  OBVIOUS
<1> USE DEF Registry!vars, Registry!Next
<1>1. CASE UNCHANGED <<now, issued>> /\ loaded' = None
  BY <1>1 DEF Registry!Other
<1>2. ASSUME NEW h \in Handler, SetNX(h) PROVE [Registry!Next]_(Registry!vars)
  <2> DEFINE share == [id |-> saves[h].id, doc |-> saves[h].doc, expiresAt |-> saves[h].expiresAt]
  <2>1. CASE UNCHANGED issued
    BY <1>1, <1>2, <2>1 DEF SetNX
  <2>2. CASE ~Taken(saves[h].id) /\ issued' = issued \cup {share}
    <3>1. share \in Registry!Share /\ share.id \in Id /\ share.id = saves[h].id
      BY <1>2 DEF SetNX, Sending, IInv, TypeOK, Save, Registry!Share
    <3> HIDE DEF share
    <3>2. Registry!Unexpired(share.id) = {}
      BY <2>2, <3>1 DEF IInv, LinksLoad, Taken, Registry!Unexpired
    <3> QED
      BY <1>2, <2>2, <3>1, <3>2 DEF SetNX, Registry!Issue
  <2> QED
    BY <1>2, <2>1, <2>2 DEF SetNX
<1>3. ASSUME NEW id \in Id, Read(id) PROVE [Registry!Next]_(Registry!vars)
  <2> DEFINE d == IF Taken(id) THEN redis[id].doc ELSE None
  <2>1. d \in Doc \cup {None}
    BY DEF IInv, TypeOK, Taken, Record
  <2>2. \A s \in Registry!Unexpired(id) : d = s.doc
    BY DEF IInv, LinksLoad, Taken, Registry!Unexpired
  <2>3. loaded' = [id |-> id, doc |-> d] /\ UNCHANGED <<now, issued>>
    BY <1>3 DEF Read
  <2> HIDE DEF d
  <2> QED
    BY <2>1, <2>2, <2>3 DEF Registry!Load
<1>4. CASE Tick
  BY <1>4 DEF Tick, Registry!Pass
<1>5. CASE UNCHANGED vars
  BY <1>5 DEF vars
<1> QED
  BY <1>1, <1>2, <1>3, <1>4, <1>5
  DEF Next, GetShare, ExportShare, ShareOG, CreateShare, PickId, Exhausted, Abandoned, Lost

(* The handlers over Redis keep the promise of the share API: ids of       *)
(* unexpired shares are distinct and load what was saved.                  *)
THEOREM SharesKeepPromise == Spec => KeepsPromise
<1>1. Init => Registry!Init
  BY StoreAssumption DEF Init, Registry!Init
<1> QED
  BY <1>1, Inductive, StepsOfTheRegistry, PTL DEF Spec, KeepsPromise, Registry!Spec

-----------------------------------------------------------------------------
(* A step of one handler leaves the saves of the others alone, and ends    *)
(* its own save or brings it closer to its end.                            *)
LEMMA StepsComeCloser ==
  ASSUME TypeOK, [Next]_vars, NEW h \in Handler,
         saves[h] # None, saves'[h] # None, saves'[h] # saves[h]
  PROVE  Closer(saves'[h], saves[h])
<1>1. saves[h] \in Save /\ saves[h].attempt \in Int /\ saves[h].sends \in Int
  BY DEF TypeOK, Save
<1>2. ASSUME NEW g \in Handler, NEW d \in Doc \cup {Broken}, NEW hours \in TTLHours,
             CreateShare(g, d, hours)
      PROVE  FALSE
  <2>1. saves' = [saves EXCEPT ![g] = saves'[g]] /\ g # h
    BY <1>2 DEF CreateShare, Answered, TypeOK
  <2> QED
    BY <2>1 DEF TypeOK
<1>3. ASSUME NEW g \in Handler, NEW id \in Id, PickId(g, id) PROVE Closer(saves'[h], saves[h])
  <2>1. g = h
    BY <1>3 DEF PickId, TypeOK
  <2>2. saves'[h].attempt = saves[h].attempt + 1
    BY <1>1, <1>3, <2>1 DEF PickId, TypeOK, Save
  <2> QED
    BY <1>1, <2>2 DEF Closer
<1>4. /\ \A g \in Handler : ~Exhausted(g)
      /\ \A gone \in SUBSET Handler : ~Abandoned(gone)
  BY DEF Exhausted, Abandoned, Answered, TypeOK
<1>5. ASSUME NEW g \in Handler, SetNX(g) PROVE Closer(saves'[h], saves[h])
  <2>1. saves' = [saves EXCEPT ![g].id = None, ![g].sends = 0] /\ g = h /\ saves[h].id # None
    BY <1>5 DEF SetNX, Answered, Sending, TypeOK
  <2>2. saves'[h].id = None /\ saves'[h].attempt = saves[h].attempt
    BY <1>1, <2>1 DEF TypeOK, Save
  <2> QED
    BY <2>1, <2>2 DEF Closer
<1>6. ASSUME NEW g \in Handler, NEW reached \in BOOLEAN, Lost(g, reached)
      PROVE  Closer(saves'[h], saves[h])
  <2>1. saves' = [saves EXCEPT ![g].sends = @ + 1] /\ g = h /\ saves[h].id # None
    BY <1>6 DEF Lost, Answered, Sending, TypeOK
  <2>2. /\ saves'[h].id = saves[h].id /\ saves'[h].attempt = saves[h].attempt
        /\ saves'[h].sends = saves[h].sends + 1
    BY <1>1, <2>1 DEF TypeOK, Save
  <2> QED
    BY <1>1, <2>1, <2>2 DEF Closer
<1>7. ASSUME NEW id \in Id, Read(id) PROVE FALSE
  BY <1>7 DEF Read
<1>8. CASE Tick \/ UNCHANGED vars
  BY <1>8 DEF Tick, vars
<1> QED
  BY <1>2, <1>3, <1>4, <1>5, <1>6, <1>7, <1>8 DEF Next, GetShare, ExportShare, ShareOG

(* Whatever is lost or collides, no save goes on for ever.                 *)
THEOREM RetriesRunOut == Spec => SavesRunOut
<1>1. IInv /\ [Next]_vars =>
        [\A h \in Handler :
           saves[h] # None /\ saves'[h] \notin {None, saves[h]} => Closer(saves'[h], saves[h])]_vars
  BY StepsComeCloser DEF IInv
<1> QED
  BY <1>1, Inductive, PTL DEF Spec, SavesRunOut

-----------------------------------------------------------------------------
(* Hours that fit a time.Duration are not changed by it.                   *)
LEMMA WrapFits ==
  ASSUME NEW x \in Nat, x < Word \div 2
  PROVE  Wrap(x) = x
<1> DEFINE half == Word \div 2
<1>1. half \in Nat /\ 2 * half <= Word
  BY StoreAssumption
<1>2. x + half \in 0..(Word - 1)
  BY <1>1, StoreAssumption
<1>3. \A y \in 0..(Word - 1) : y % Word = y
  BY StoreAssumption
<1>4. (x + half) % Word = x + half
  BY <1>2, <1>3
<1> QED
  BY <1>1, <1>4 DEF Wrap

(* What the configuration and the callers must keep to: the default TTL is *)
(* not clamped (share_handler.go:31-41), and the product with an hour must *)
(* not overflow.                                                           *)
OrdinaryTTLs ==
  /\ ShareTTL <= MaxShareTTL
  /\ \A hours \in TTLHours \ {None} : hours * Hour < Word \div 2

LEMMA RequestedInRange ==
  ASSUME OrdinaryTTLs, NEW hours \in TTLHours, hours = None \/ hours > 0
  PROVE  Requested(hours) \in 1..MaxShareTTL
<1>1. CASE hours = None
  BY <1>1, StoreAssumption DEF OrdinaryTTLs, Requested
<1>2. CASE hours # None
  <2>1. hours \in Int /\ hours > 0
    BY <1>2, StoreAssumption
  <2>2. hours * Hour \in Nat \ {0}
    BY <2>1, StoreAssumption
  <2>3. Wrap(hours * Hour) = hours * Hour
    BY <1>2, <2>2, WrapFits DEF OrdinaryTTLs
  <2> HIDE DEF Wrap
  <2> QED
    BY <1>2, <2>2, <2>3, StoreAssumption DEF Requested
<1> QED
  BY <1>1, <1>2

(* Every save under way asks Redis for a TTL that ends, soon enough.       *)
SavesAreBrief == \A h \in Handler : saves[h] # None => saves[h].ttl \in 1..MaxShareTTL

BInv == IInv /\ SavesAreBrief /\ NothingIsForever

LEMMA StepsKeepTTL ==
  ASSUME OrdinaryTTLs, BInv, [Next]_vars
  PROVE  SavesAreBrief'
<1> USE DEF BInv, IInv
<1>1. ASSUME NEW h \in Handler, NEW d \in Doc \cup {Broken}, NEW hours \in TTLHours,
             CreateShare(h, d, hours)
      PROVE  SavesAreBrief'
  <2>1. CASE saves' = [saves EXCEPT ![h] = None]
    BY <2>1 DEF TypeOK, SavesAreBrief
  <2>2. CASE saves' # [saves EXCEPT ![h] = None]
    <3>1. hours = None \/ hours > 0
      BY <1>1, <2>2, StoreAssumption DEF CreateShare, Answered
    <3>2. saves' = [saves EXCEPT ![h] = [doc |-> d, ttl |-> Requested(hours),
            expiresAt |-> now + Requested(hours), id |-> None, attempt |-> 0, sends |-> 0]]
      BY <1>1, <2>2 DEF CreateShare, Answered
    <3> QED
      BY <3>1, <3>2, RequestedInRange DEF TypeOK, SavesAreBrief
  <2> QED
    BY <2>1, <2>2
<1>2. ASSUME NEW h \in Handler, saves[h] # None,
             \/ saves' = [saves EXCEPT ![h] = None]
             \/ saves'[h] \in Save /\ saves'[h].ttl = saves[h].ttl
                  /\ saves' = [saves EXCEPT ![h] = saves'[h]]
      PROVE  SavesAreBrief'
  BY <1>2 DEF TypeOK, SavesAreBrief
<1>3. ASSUME NEW h \in Handler, NEW id \in Id, PickId(h, id) PROVE SavesAreBrief'
  <2>1. saves[h] # None /\ saves[h] \in Save /\ TypeOK'
    BY <1>3, PickIdIInv DEF PickId, TypeOK
  <2>2. saves' = [saves EXCEPT ![h] = saves'[h]] /\ saves'[h].ttl = saves[h].ttl
    BY <1>3, <2>1 DEF PickId, TypeOK, Save
  <2> QED
    BY <2>1, <2>2 DEF TypeOK, SavesAreBrief
<1>4. ASSUME NEW h \in Handler, Exhausted(h) PROVE SavesAreBrief'
  BY <1>2, <1>4 DEF Exhausted, Answered
<1>5. ASSUME NEW h \in Handler, SetNX(h) PROVE SavesAreBrief'
  <2>1. saves[h] # None /\ saves[h] \in Save
    BY <1>5 DEF SetNX, Sending, TypeOK
  <2>2. CASE Answered(h)
    BY <1>2, <2>1, <2>2 DEF Answered
  <2>3. CASE saves' = [saves EXCEPT ![h].id = None, ![h].sends = 0]
    <3>1. saves' = [saves EXCEPT ![h] = saves'[h]] /\ saves'[h].ttl = saves[h].ttl
      BY <2>1, <2>3 DEF TypeOK, Save
    <3> QED
      BY <2>1, <3>1 DEF TypeOK, SavesAreBrief
  <2> QED
    BY <1>5, <2>2, <2>3 DEF SetNX
<1>6. ASSUME NEW h \in Handler, NEW reached \in BOOLEAN, Lost(h, reached) PROVE SavesAreBrief'
  <2>1. saves[h] # None /\ saves[h] \in Save
    BY <1>6 DEF Lost, Sending, TypeOK
  <2>2. CASE Answered(h)
    BY <1>2, <2>1, <2>2 DEF Answered
  <2>3. CASE saves' = [saves EXCEPT ![h].sends = @ + 1]
    <3>1. saves' = [saves EXCEPT ![h] = saves'[h]] /\ saves'[h].ttl = saves[h].ttl
      BY <2>1, <2>3 DEF TypeOK, Save
    <3> QED
      BY <2>1, <3>1 DEF TypeOK, SavesAreBrief
  <2> QED
    BY <1>6, <2>2, <2>3 DEF Lost
<1>7. CASE \/ Tick \/ UNCHANGED vars \/ \E id \in Id : Read(id)
           \/ \E gone \in SUBSET Handler : Abandoned(gone)
  BY <1>7 DEF Tick, vars, Read, Abandoned, SavesAreBrief
<1> QED
  BY <1>1, <1>3, <1>4, <1>5, <1>6, <1>7 DEF Next, GetShare, ExportShare, ShareOG

(* The command stores a record with the TTL of its save, or nothing.       *)
LEMMA ExecutesBriefly ==
  ASSUME BInv, NEW h \in Handler, Sending(h), Executes(h), now' = now
  PROVE  NothingIsForever'
<1> USE DEF BInv, IInv
<1>1. CASE UNCHANGED redis
  BY <1>1 DEF NothingIsForever
<1>2. CASE Stored(h)
  <2>1. saves[h] \in Save /\ saves[h].id \in Id /\ saves[h].ttl \in 1..MaxShareTTL
    BY DEF TypeOK, Sending, Save, SavesAreBrief
  <2> DEFINE r == [doc |-> saves[h].doc, expiresAt |-> saves[h].expiresAt,
                   until |-> now + saves[h].ttl]
  <2>2. redis' = [redis EXCEPT ![saves[h].id] = r]
    <3>1. saves[h].ttl # 0
      BY <2>1, StoreAssumption
    <3> QED
      BY <1>2, <3>1 DEF Stored
  <2>3. r.until <= now + MaxShareTTL
    BY <2>1, StoreAssumption DEF TypeOK
  <2> HIDE DEF r
  <2> QED
    BY <2>1, <2>2, <2>3 DEF TypeOK, NothingIsForever
<1> QED
  BY <1>1, <1>2 DEF Executes

LEMMA StepsStoreBriefly ==
  ASSUME BInv, [Next]_vars
  PROVE  NothingIsForever'
<1>1. CASE UNCHANGED <<now, redis>>
  BY <1>1 DEF BInv, NothingIsForever
<1>2. ASSUME NEW h \in Handler, SetNX(h) PROVE NothingIsForever'
  BY <1>2, ExecutesBriefly DEF SetNX
<1>3. ASSUME NEW h \in Handler, NEW reached \in BOOLEAN, Lost(h, reached)
      PROVE  NothingIsForever'
  <2>1. CASE reached
    BY <1>3, <2>1, ExecutesBriefly DEF Lost
  <2>2. CASE ~reached
    BY <1>1, <1>3, <2>2 DEF Lost
  <2> QED
    BY <2>1, <2>2
<1>4. CASE Tick
  <2>1. now \in Int /\ now' = now + 1 /\ MaxShareTTL \in Int
    BY <1>4, StoreAssumption DEF Tick, BInv, IInv, TypeOK
  <2>2. \A id \in Id : redis'[id] # None => redis[id] # None /\ redis'[id] = redis[id]
    BY <1>4 DEF Tick
  <2>3. \A id \in Id : redis[id] # None => redis[id].until \in Int
    BY DEF BInv, IInv, TypeOK, Record
  <2> QED
    BY <2>1, <2>2, <2>3 DEF BInv, NothingIsForever
<1> QED
  BY <1>1, <1>2, <1>3, <1>4 DEF Next, GetShare, ExportShare, ShareOG, CreateShare, PickId, Exhausted, Abandoned, Read, vars

(* With ordinary TTLs, Redis forgets every record within the longest TTL,  *)
(* the ones nobody got the id of included.                                 *)
THEOREM RecordsAreForgotten ==
  ASSUME OrdinaryTTLs
  PROVE  Spec => []NothingIsForever
<1>1. Init => BInv
  BY InitIInv DEF Init, BInv, SavesAreBrief, NothingIsForever
<1>2. BInv /\ [Next]_vars => BInv'
  BY OrdinaryTTLs, NextIInv, StepsKeepTTL, StepsStoreBriefly DEF BInv
<1>3. BInv => NothingIsForever
  BY DEF BInv
<1> QED
  BY <1>1, <1>2, <1>3, PTL DEF Spec

-----------------------------------------------------------------------------
(* The server.                                                             *)

(* A server that starts, stops, is killed and starts again does nothing to *)
(* its shares that handlers over one Redis may not do: every theorem above *)
(* about Spec is one about the server.                                     *)
THEOREM ServerRunsStore == ServerSpec => Spec
<1>1. ServerInit => Init
  BY DEF ServerInit
<1>2. [ServerNext]_serverVars => [Next]_vars
  <2> SUFFICES ASSUME [ServerNext]_serverVars PROVE [Next]_vars
    OBVIOUS
  <2>1. CASE Died
    <3>1. Saving \in SUBSET Handler
      BY DEF Saving
    <3> QED
      BY <2>1, <3>1 DEF Died, Next
  <2>2. ASSUME NEW h \in Handler, Abandoned({h}) PROVE Next
    BY <2>2 DEF Next
  <2>3. CASE \/ UNCHANGED serverVars
             \/ Start \/ \E ok \in BOOLEAN : Pinged(ok)
             \/ Signal \/ Drained
    BY <2>3 DEF serverVars, Start, Pinged, Signal, Drained
  <2> QED
    BY <2>1, <2>2, <2>3 DEF ServerNext, Handling, Next
<1> QED
  BY <1>1, <1>2, PTL DEF ServerSpec, Spec

(* The promise of the share API survives every restart of the server.      *)
THEOREM ServerKeepsPromise == ServerSpec => KeepsPromise
BY ServerRunsStore, SharesKeepPromise

(* Saves run only while the store they save to is open.                    *)
THEOREM ServerDrains == ServerSpec => []NoSaveOutlivesItsStore
<1>1. ServerInit => NoSaveOutlivesItsStore
  BY DEF ServerInit, Init, NoSaveOutlivesItsStore, Saving
<1>2. NoSaveOutlivesItsStore /\ [ServerNext]_serverVars => NoSaveOutlivesItsStore'
  <2> SUFFICES ASSUME NoSaveOutlivesItsStore, [ServerNext]_serverVars
               PROVE  NoSaveOutlivesItsStore'
    OBVIOUS
  <2>1. CASE UNCHANGED serverVars
    BY <2>1 DEF serverVars, vars, NoSaveOutlivesItsStore, Saving
  <2>2. CASE Start \/ Signal \/ (\E ok \in BOOLEAN : Pinged(ok)) \/ Drained
    BY <2>2 DEF Start, Signal, Pinged, Drained, vars, NoSaveOutlivesItsStore, Saving
  <2>3. CASE Died
    BY <2>3 DEF Died, Abandoned, NoSaveOutlivesItsStore, Saving
  <2>4. CASE phase \in {"serving", "draining"} /\ UNCHANGED phase
    BY <2>4 DEF NoSaveOutlivesItsStore
  <2>5. CASE Tick /\ UNCHANGED phase
    BY <2>5 DEF Tick, NoSaveOutlivesItsStore, Saving
  <2> QED
    BY <2>1, <2>2, <2>3, <2>4, <2>5 DEF ServerNext, Handling
<1> QED
  BY <1>1, <1>2, PTL DEF ServerSpec
=============================================================================
