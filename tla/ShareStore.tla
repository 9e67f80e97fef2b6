---------------------------- MODULE ShareStore ----------------------------
(***************************************************************************)
(* Shares on the server: handlers.CreateShare and GetShare, store.Save and *)
(* Get (internal/handlers/share_handler.go, internal/store/redis_store.go),*)
(* several handlers at once over one Redis.  A command to Redis can lose   *)
(* its request or its reply, and the client library then sends it again a  *)
(* few times; a caller can hang up.  The clock is in the unit the TTL is   *)
(* computed in, and a TTL wraps at Word like int64 nanoseconds.            *)
(***************************************************************************)
EXTENDS Integers

CONSTANTS
  Handler,         \* handlers that run at the same time
  Id,              \* the ids idgen can return
  Doc,             \* pairs of documents with their delta
  Broken,          \* a body that does not bind, or documents diff.Compare rejects
  None,
  TTLHours,        \* the ttl_hours sent; None when left out
  Hour,            \* time.Hour
  Word,            \* 2^64: the range of time.Duration
  ShareTTL,        \* Cfg.ShareTTL
  MaxShareTTL,     \* Cfg.MaxShareTTL
  MaxAttempts,     \* maxIDCollisionRetries
  MaxSends,        \* how often the client sends one command
  MaxNow           \* bound on the clock

Forever == MaxNow + Word

ASSUME StoreAssumption ==
  /\ Hour \in Nat \ {0} /\ Word \in Nat \ {0}
  /\ ShareTTL \in Nat \ {0} /\ MaxShareTTL \in Nat \ {0}
  /\ ShareTTL < Word /\ MaxShareTTL < Word
  /\ MaxAttempts \in Nat \ {0} /\ MaxSends \in Nat \ {0}
  /\ MaxNow \in Nat
  /\ TTLHours \subseteq Int \cup {None}
  /\ None \notin Doc \cup Id \cup Int /\ Broken \notin Doc

VARIABLES
  now,      \* the clock of the server and of Redis
  redis,    \* the value of every share key: [doc, expiresAt, until], or None
  saves,    \* the Save each handler is in, or None
  issued,   \* the shares answered with 201 that have not expired
  loaded    \* the id just looked up and what was found

vars == <<now, redis, saves, issued, loaded>>

Record == [doc : Doc, expiresAt : Int, until : Nat]
Save == [doc : Doc, ttl : Int, expiresAt : Int, id : Id \cup {None},
         attempt : 0..MaxAttempts, sends : 0..(MaxSends - 1)]
Share == [id : Id, doc : Doc, expiresAt : Int]

ASSUME NoneAssumption == None \notin Record \cup Save

TypeOK ==
  /\ now \in 0..MaxNow
  /\ redis \in [Id -> Record \cup {None}]
  /\ saves \in [Handler -> Save \cup {None}]
  /\ issued \in SUBSET Share
  /\ loaded \in [id : Id, doc : Doc \cup {None}] \cup {None}

Init ==
  /\ now = 0
  /\ redis = [i \in Id |-> None]
  /\ saves = [h \in Handler |-> None]
  /\ issued = {}
  /\ loaded = None

-----------------------------------------------------------------------------
(* The TTL of a share.                                                     *)

Wrap(x) == ((x + Word \div 2) % Word) - Word \div 2

(* Mutant of Requested: the maximum is not applied.                        *)
RequestedUnclamped(hours) == IF hours = None THEN ShareTTL ELSE Wrap(hours * Hour)

(* The product is a time.Duration before it is compared with the maximum.  *)
Requested(hours) ==
  IF hours = None THEN ShareTTL
  ELSE IF Wrap(hours * Hour) > MaxShareTTL THEN MaxShareTTL ELSE Wrap(hours * Hour)

-----------------------------------------------------------------------------
(* Creating a share.                                                       *)

(* The answers 201, 400 and 500 differ in what they leave behind only.     *)
Answered(h) == saves' = [saves EXCEPT ![h] = None]

(* Up to the call of Save and its first line, which fixes expiresAt.       *)
CreateShare(h, doc, hours) ==
  /\ saves[h] = None
  /\ IF doc = Broken \/ (hours # None /\ hours <= 0)
     THEN Answered(h)
     ELSE saves' = [saves EXCEPT ![h] =
            [doc |-> doc, ttl |-> Requested(hours), expiresAt |-> now + Requested(hours),
             id |-> None, attempt |-> 0, sends |-> 0]]
  /\ UNCHANGED <<now, redis, issued>> /\ loaded' = None

(* Mutant of PickId: a collision does not count as an attempt.             *)
PickIdUncounted(h, id) ==
  /\ saves[h] # None /\ saves[h].id = None
  /\ saves' = [saves EXCEPT ![h].id = id, ![h].attempt = 1, ![h].sends = 0]
  /\ UNCHANGED <<now, redis, issued>> /\ loaded' = None

(* idgen.New in the next round of the loop.                                *)
PickId(h, id) ==
  /\ saves[h] # None /\ saves[h].id = None /\ saves[h].attempt < MaxAttempts
  /\ saves' = [saves EXCEPT ![h].id = id, ![h].attempt = @ + 1, ![h].sends = 0]
  /\ UNCHANGED <<now, redis, issued>> /\ loaded' = None

Exhausted(h) ==
  /\ saves[h] # None /\ saves[h].id = None /\ saves[h].attempt = MaxAttempts
  /\ Answered(h)
  /\ UNCHANGED <<now, redis, issued>> /\ loaded' = None

Sending(h) == saves[h] # None /\ saves[h].id # None

(* Mutant of Taken: SET instead of SETNX.                                  *)
NeverTaken(id) == id = None

(* Redis: SETNX leaves a key alone that is there, a zero TTL never expires *)
(* and a negative one is an error.                                         *)
Taken(id) == redis[id] # None

Refused(h) == saves[h].ttl < 0

(* Mutant of Stored: the key lives for the default, not the chosen, TTL.   *)
StoredForDefault(h) ==
  redis' = [redis EXCEPT ![saves[h].id] =
    [doc |-> saves[h].doc, expiresAt |-> saves[h].expiresAt, until |-> now + ShareTTL]]

Stored(h) ==
  redis' = [redis EXCEPT ![saves[h].id] =
    [doc |-> saves[h].doc, expiresAt |-> saves[h].expiresAt,
     until |-> IF saves[h].ttl = 0 THEN Forever ELSE now + saves[h].ttl]]

Executes(h) == IF Refused(h) \/ Taken(saves[h].id) THEN UNCHANGED redis ELSE Stored(h)

(* SetNX reaches Redis and its reply reaches Save.                         *)
SetNX(h) ==
  /\ Sending(h)
  /\ Executes(h)
  /\ LET s == saves[h]
     IN  \/ /\ Refused(h)
            /\ Answered(h) /\ UNCHANGED issued
         \/ /\ ~Refused(h) /\ Taken(s.id)
            /\ saves' = [saves EXCEPT ![h].id = None, ![h].sends = 0]
            /\ UNCHANGED issued
         \/ /\ ~Refused(h) /\ ~Taken(s.id)
            /\ Answered(h)
            /\ issued' = issued \cup {[id |-> s.id, doc |-> s.doc, expiresAt |-> s.expiresAt]}
  /\ UNCHANGED now /\ loaded' = None

(* The request (reached = FALSE) or the reply is lost: the client sends    *)
(* the same command again, or gives up and Save returns the error.         *)
Lost(h, reached) ==
  /\ Sending(h)
  /\ IF reached THEN Executes(h) ELSE UNCHANGED redis
  /\ IF saves[h].sends + 1 < MaxSends
     THEN saves' = [saves EXCEPT ![h].sends = @ + 1]
     ELSE Answered(h)
  /\ UNCHANGED <<now, issued>> /\ loaded' = None

(* A caller hangs up and the request context ends, or the server dies with *)
(* every save it is in.                                                    *)
Abandoned(gone) ==
  /\ gone # {} /\ \A h \in gone : saves[h] # None
  /\ saves' = [h \in Handler |-> IF h \in gone THEN None ELSE saves[h]]
  /\ UNCHANGED <<now, redis, issued>> /\ loaded' = None

-----------------------------------------------------------------------------
(* Store.Get: None is ErrNotFound and a 404; the 500 of a failing Redis    *)
(* says nothing of the share.                                              *)
Read(id) ==
  /\ loaded' = [id |-> id, doc |-> IF Taken(id) THEN redis[id].doc ELSE None]
  /\ UNCHANGED <<now, redis, saves, issued>>

(* The share page, its exports and the previews of its link read a share;  *)
(* what they answer is a function of what they read.  A preview is asked   *)
(* for with an id of the right form, any other is refused unread           *)
(* (share_og.go:66); an export in another format reads as well.            *)
GetShare(id) == Read(id)
ExportShare(id) == Read(id)
ShareOG(id) == Read(id)

(* Time passes: Redis removes what expires, and an expired share is owed   *)
(* nothing any more.                                                       *)
Tick ==
  /\ now < MaxNow
  /\ now' = now + 1
  /\ redis' = [i \in Id |-> IF redis[i] # None /\ redis[i].until <= now' THEN None ELSE redis[i]]
  /\ issued' = {s \in issued : now' < s.expiresAt}
  /\ UNCHANGED saves /\ loaded' = None

Next ==
  \/ \E h \in Handler, d \in Doc \cup {Broken}, hours \in TTLHours : CreateShare(h, d, hours)
  \/ \E h \in Handler, id \in Id : PickId(h, id)
  \/ \E h \in Handler : Exhausted(h) \/ SetNX(h)
  \/ \E gone \in SUBSET Handler : Abandoned(gone)
  \/ \E h \in Handler, reached \in BOOLEAN : Lost(h, reached)
  \/ \E id \in Id : GetShare(id) \/ ExportShare(id) \/ ShareOG(id)
  \/ Tick

Spec == Init /\ [][Next]_vars

-----------------------------------------------------------------------------
Registry == INSTANCE ShareRegistry
KeepsPromise == Registry!Spec

(* A link that was handed out loads its own documents until the expiry it  *)
(* was handed out with, whatever ids other handlers draw, lose or retry.   *)
LinksLoad ==
  \A s \in issued : now < s.expiresAt =>
    redis[s.id] # None /\ redis[s.id].doc = s.doc /\ redis[s.id].expiresAt = s.expiresAt

(* No record, not even one whose reply was lost, outlives the longest TTL. *)
NothingIsForever ==
  \A id \in Id : redis[id] # None => redis[id].until <= now + MaxShareTTL

(* "ttl_hours (clamped to MAX_SHARE_TTL_HOURS)" (README.md:108): a share   *)
(* being saved expires as many hours ahead as asked, or the maximum.       *)
TTLIsClamped ==
  [][\A h \in Handler, hours \in TTLHours \ {None} :
       saves[h] = None /\ saves'[h] # None /\ CreateShare(h, saves'[h].doc, hours)
         => saves'[h].ttl = IF hours * Hour > MaxShareTTL THEN MaxShareTTL ELSE hours * Hour]_vars

(* Retries run out: whatever a save does, it ends or comes closer to its   *)
(* end, by a further attempt, or within one by a further send or by giving *)
(* up its id.  Attempts and sends are bounded, so no collision or lost     *)
(* reply keeps a POST /shares going for ever (redis_store.go:59-81).       *)
Closer(t, s) ==
  \/ t.attempt > s.attempt
  \/ /\ t.attempt = s.attempt /\ s.id # None
     /\ t.id = None \/ (t.id = s.id /\ t.sends > s.sends)

SavesRunOut ==
  [][\A h \in Handler :
       saves[h] # None /\ saves'[h] \notin {None, saves[h]} => Closer(saves'[h], saves[h])]_vars

=============================================================================
