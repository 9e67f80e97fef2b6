------------------------------- MODULE Server -------------------------------
(***************************************************************************)
(* The life of the server process (cmd/server/main.go) around the handlers *)
(* of ShareStore: a start that needs Redis, serving, a shutdown that waits *)
(* ten seconds for the requests in flight, and the exits that do not.  The *)
(* next process finds in Redis what the last one left there.               *)
(***************************************************************************)
EXTENDS ShareStore

VARIABLE phase  \* "down", "starting", "serving" or "draining"

serverVars == <<phase, vars>>

Saving == {h \in Handler : saves[h] # None}

ServerInit == phase = "down" /\ Init

-----------------------------------------------------------------------------
(* config.Load and store.New, which connects to nothing yet.               *)
Start ==
  /\ phase = "down"
  /\ phase' = "starting"
  /\ UNCHANGED vars

(* The ping: without Redis the process ends, with it the server listens.   *)
Pinged(ok) ==
  /\ phase = "starting"
  /\ phase' = IF ok THEN "serving" ELSE "down"
  /\ UNCHANGED vars

(* SIGINT or SIGTERM: the listener is closed and Shutdown waits.           *)
Signal ==
  /\ phase = "serving"
  /\ phase' = "draining"
  /\ UNCHANGED vars

(* Mutant of Drained: the store is closed under the requests in flight.    *)
DrainedEarly ==
  /\ phase = "draining"
  /\ phase' = "down"
  /\ UNCHANGED vars

(* Shutdown returns when no request is in flight; main returns and closes  *)
(* the store.                                                              *)
Drained ==
  /\ phase = "draining" /\ Saving = {}
  /\ phase' = "down"
  /\ UNCHANGED vars

(* Ten seconds are over, ListenAndServe fails or the process is killed:    *)
(* what is in flight ends wherever it is, and nothing is closed.  With     *)
(* nothing in flight, Signal and Drained do the same.                      *)
Died ==
  /\ phase \in {"serving", "draining"} /\ Saving # {}
  /\ phase' = "down"
  /\ Abandoned(Saving)

(* A request is handled by a process that listens, or that did when it     *)
(* came.                                                                   *)
Handling(act) == phase \in {"serving", "draining"} /\ act /\ UNCHANGED phase

ServerNext ==
  \/ Start
  \/ \E ok \in BOOLEAN : Pinged(ok)
  \/ Signal
  \/ Drained
  \/ Died
  \/ \E h \in Handler, d \in Doc \cup {Broken}, hours \in TTLHours :
       Handling(CreateShare(h, d, hours))
  \/ \E h \in Handler, id \in Id : Handling(PickId(h, id))
  \/ \E h \in Handler : Handling(Exhausted(h))
  \/ \E h \in Handler : Handling(SetNX(h))
  \/ \E h \in Handler : Handling(Abandoned({h}))
  \/ \E h \in Handler, reached \in BOOLEAN : Handling(Lost(h, reached))
  \/ \E id \in Id : Handling(GetShare(id) \/ ExportShare(id) \/ ShareOG(id))
  \/ Tick /\ UNCHANGED phase

ServerSpec == ServerInit /\ [][ServerNext]_serverVars

-----------------------------------------------------------------------------
(* A save runs in a process whose store is open: it never outlives its     *)
(* process, and a shutdown does not close the store under it               *)
(* (main.go:27, 67-78).                                                    *)
NoSaveOutlivesItsStore == Saving # {} => phase \in {"serving", "draining"}
=============================================================================
