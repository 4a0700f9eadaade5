------------------------- MODULE EngineClientProofs -------------------------
(***************************************************************************)
(* What holds of every instance of EngineClient: any finite set of callers *)
(* and of process ids, any number of calls, deaths, deadlines and stops.   *)
(***************************************************************************)
EXTENDS EngineClient, FiniteSetTheorems, TLAPS

-----------------------------------------------------------------------------
(* Types                                                                   *)

At == {"idle", "wait", "leave", "react", "judge", "verdict"} \cup Holding
Result == {"none", "ready", "stopped", "done", "rejected", "transient", "error"}
CallRec == [at : At, method : Method, current : BOOLEAN, dropped : BOOLEAN, result : Result]
CoreRec == [alive : BOOLEAN, cpu : BOOLEAN, forced : BOOLEAN,
            engine : {"none", "gpu", "cpu"}, well : BOOLEAN]

CallTyped == call \in [Caller -> CallRec]
SlotTyped == slot \in Pid \cup {0} /\ fresh \in Pid \cup {0} /\ switch \in Pid \cup {0}
CoreTyped == core \in [Pid -> CoreRec]
FlightTyped == flight \in [active : BOOLEAN, inference : BOOLEAN, cancelled : BOOLEAN]
RecoveryTyped ==
  recovery \in [stopped : BOOLEAN, failed : BOOLEAN, due : BOOLEAN, cpuLocked : BOOLEAN]
WitnessTyped == witness \in [calm : BOOLEAN, steady : BOOLEAN, condemned : BOOLEAN]
FlagsTyped ==
  /\ ready \in BOOLEAN /\ forceCpu \in BOOLEAN
  /\ stopping \in {"no", "exit", "restart", "exit_kill", "restart_kill", "restart_clear"}

Typed == /\ CallTyped /\ SlotTyped /\ CoreTyped /\ FlightTyped
         /\ RecoveryTyped /\ WitnessTyped /\ FlagsTyped

LEMMA TypedIsTypeOK ==
  ASSUME Typed, installs \in 0 .. Cardinality(Client)
  PROVE  ClientTypeOK
BY DEF Typed, CallTyped, SlotTyped, CoreTyped, FlightTyped, RecoveryTyped, WitnessTyped, FlagsTyped,
   ClientTypeOK, At, Result, CallRec, CoreRec

LEMMA IdleTyped == Idle \in CallRec
BY DEF Idle, CallRec, At, Result, Method

LEMMA DeadTyped == Dead \in CoreRec
BY DEF Dead, CoreRec

-----------------------------------------------------------------------------
(* What a step does to the calls                                           *)

\* Nothing but the currency of its generation changes for d.
Keeps(d) ==
  /\ call'[d].at = call[d].at /\ call'[d].method = call[d].method
  /\ call'[d].result = call[d].result /\ call'[d].dropped = call[d].dropped
  /\ call[d] = Idle => call'[d] = Idle

\* c's call returns with the result r; c's call goes on at a.
Returned(c, r) ==
  /\ \A d \in Caller \ {c} : Keeps(d)
  /\ call'[c].at = After(c)
  /\ After(c) = "idle" => call'[c] = Idle
  /\ After(c) # "idle" => /\ call'[c].method = call[c].method /\ call'[c].result = r
                          /\ call'[c].dropped = call[c].dropped
Onward(c, a) ==
  /\ \A d \in Caller \ {c} : Keeps(d)
  /\ call'[c].at = a /\ call'[c].method = call[c].method /\ call'[c].dropped = call[c].dropped

LEMMA StaleCalls ==
  ASSUME NEW calls \in [Caller -> CallRec]
  PROVE  /\ Stale(calls) \in [Caller -> CallRec]
         /\ \A d \in Caller :
              /\ Stale(calls)[d].at = calls[d].at /\ Stale(calls)[d].method = calls[d].method
              /\ Stale(calls)[d].result = calls[d].result /\ Stale(calls)[d].dropped = calls[d].dropped
              /\ calls[d] = Idle => Stale(calls)[d] = Idle
<1> SUFFICES ASSUME NEW d \in Caller
             PROVE  /\ [calls[d] EXCEPT !.current = FALSE] \in CallRec
                    /\ Stale(calls)[d] = [calls[d] EXCEPT !.current = FALSE]
                    /\ Stale(calls)[d].at = calls[d].at /\ Stale(calls)[d].method = calls[d].method
                    /\ Stale(calls)[d].result = calls[d].result /\ Stale(calls)[d].dropped = calls[d].dropped
                    /\ calls[d] = Idle => Stale(calls)[d] = Idle
  BY DEF Stale
<1>1. calls[d] \in CallRec
  OBVIOUS
<1>2. Stale(calls)[d] = [calls[d] EXCEPT !.current = FALSE]
  BY DEF Stale
<1>3. [calls[d] EXCEPT !.current = FALSE] \in CallRec
  BY <1>1 DEF CallRec
<1>4. calls[d] = Idle => [calls[d] EXCEPT !.current = FALSE] = Idle
  <2>1. [Idle EXCEPT !.current = FALSE] = [Idle EXCEPT !.current = Idle.current]
    BY DEF Idle
  <2>2. [Idle EXCEPT !.current = Idle.current] = Idle
    BY IdleTyped DEF CallRec
  <2> QED
    BY <2>1, <2>2
<1> QED
  BY <1>1, <1>2, <1>3, <1>4 DEF CallRec

LEMMA ReturnsCalls ==
  ASSUME CallTyped, NEW c \in Caller, NEW calls \in {call, Stale(call)}, NEW r \in Result,
         call' = Returns(calls, c, r)
  PROVE  CallTyped' /\ Returned(c, r)
<1>1. /\ calls \in [Caller -> CallRec]
      /\ \A d \in Caller :
           /\ calls[d].at = call[d].at /\ calls[d].method = call[d].method
           /\ calls[d].result = call[d].result /\ calls[d].dropped = call[d].dropped
           /\ call[d] = Idle => calls[d] = Idle
  BY StaleCalls DEF CallTyped
<1>2. \A d \in Caller \ {c} : call'[d] = calls[d]
  BY <1>1 DEF Returns
<1>3. call' = [calls EXCEPT ![c] = call'[c]]
  BY <1>1 DEF Returns
<1>4. call'[c] = IF After(c) = "idle" THEN Idle
                 ELSE [calls[c] EXCEPT !.at = After(c), !.result = r, !.current = FALSE]
  BY <1>1 DEF Returns
<1>5. calls[c] \in CallRec /\ After(c) \in At
  BY <1>1 DEF After, At
<1>6. [calls[c] EXCEPT !.at = After(c), !.result = r, !.current = FALSE] \in CallRec
  BY <1>5 DEF CallRec
<1>7. CallTyped'
  BY <1>1, <1>3, <1>4, <1>6, IdleTyped DEF CallTyped
<1>8. After(c) # "idle" => /\ call'[c].at = After(c) /\ call'[c].method = calls[c].method
                           /\ call'[c].result = r /\ call'[c].dropped = calls[c].dropped
  BY <1>4, <1>5 DEF CallRec
<1>9. After(c) = "idle" => call'[c] = Idle /\ call'[c].at = "idle"
  BY <1>4 DEF Idle
<1> QED
  BY <1>1, <1>2, <1>7, <1>8, <1>9 DEF Returned, Keeps

LEMMA OnwardCalls ==
  ASSUME CallTyped, NEW c \in Caller, NEW calls \in {call, Stale(call)}, NEW a \in At,
         NEW r \in Result, NEW b \in BOOLEAN,
         call' \in {[calls EXCEPT ![c].at = a], [calls EXCEPT ![c].at = a, ![c].result = r],
                    [calls EXCEPT ![c].at = a, ![c].current = b]}
  PROVE  CallTyped' /\ Onward(c, a)
<1>1. /\ calls \in [Caller -> CallRec]
      /\ \A d \in Caller :
           /\ calls[d].at = call[d].at /\ calls[d].method = call[d].method
           /\ calls[d].result = call[d].result /\ calls[d].dropped = call[d].dropped
           /\ call[d] = Idle => calls[d] = Idle
  BY StaleCalls DEF CallTyped
<1>2. call' = [calls EXCEPT ![c] = call'[c]]
  BY <1>1
<1>3. calls[c] \in CallRec
  BY <1>1
<1>4. call'[c] \in {[calls[c] EXCEPT !.at = a], [calls[c] EXCEPT !.at = a, !.result = r],
                    [calls[c] EXCEPT !.at = a, !.current = b]}
  BY <1>1
<1>5. /\ call'[c] \in CallRec /\ call'[c].at = a
      /\ call'[c].method = calls[c].method /\ call'[c].dropped = calls[c].dropped
  BY <1>3, <1>4 DEF CallRec
<1>6. CallTyped'
  BY <1>1, <1>2, <1>5 DEF CallTyped
<1>7. \A d \in Caller \ {c} : call'[d] = calls[d]
  BY <1>1, <1>2
<1> QED
  BY <1>1, <1>5, <1>6, <1>7 DEF Onward, Keeps
-----------------------------------------------------------------------------
(* The invariant                                                           *)

\* What a caller can be doing. Only the flight recovers, only clients install
\* and complete.
CallShape ==
  /\ \A c \in Client :
       /\ call[c].at \notin {"judge", "verdict"} /\ call[c].method # "recoverInference"
       /\ call[c].at = "leave" => call[c].method = "install"
       /\ call[c].at = "react" => call[c].method = "complete"
  /\ call[Flight].at \notin {"leave", "react"}
  /\ call[Flight].method \in {"status", "ready", "recoverInference"}
  /\ \A c \in Caller : call[c].at = "idle" => call[c] = Idle

\* The worker of the flight runs while the flight is active; cutting off a
\* check has locked the CPU.
FlightShape ==
  /\ flight.active <=> call[Flight].at # "idle"
  /\ flight.active => (flight.inference <=> call[Flight].method = "recoverInference")
  /\ ~flight.active => flight = NoFlight
  /\ flight.cancelled /\ flight.inference => recovery.cpuLocked

\* One caller has the slot; what is alive is in it or being started, and is
\* named by the kill switch from its registration on.
SlotInv ==
  /\ \A c, d \in Caller : call[c].at \in Holding /\ call[d].at \in Holding => c = d
  /\ \A c \in Caller : call[c].at \in {"register", "hello"} => fresh \in Pid /\ slot = 0
  /\ \A c \in Caller : call[c].at \in {"sent", "restarting", "answered"} => slot \in Pid
  /\ (\A c \in Caller : call[c].at \notin {"register", "hello"}) => fresh = 0
  /\ Alive \subseteq {slot, fresh}
  /\ slot \in Alive => switch = slot
  /\ \A c \in Caller : call[c].at = "hello" /\ fresh \in Alive => switch = fresh

Installing == {c \in Client : call[c].method = "install" /\ call[c].at # "idle"}
InstallInv == installs = Cardinality(Installing) /\ (installs > 0 => ~ready)

\* After a stop that nobody has interfered with: only a cancelled flight is
\* left, and what it leaves alive is a process it has not registered yet.
Quiet == NobodyAsks /\ recovery.stopped /\ (call[Flight].at # "idle" => flight.cancelled)
Leftover(p) == p = fresh /\ call[Flight].at = "register" /\ flight.cancelled
StopInv ==
  /\ witness.calm => Quiet /\ stopping \in {"no", "exit", "exit_kill"}
  /\ witness.calm /\ stopping = "no" => \A p \in Alive : Leftover(p)
  /\ witness.steady /\ stopping \in {"restart", "restart_kill", "restart_clear"} => Quiet
  /\ witness.steady /\ stopping \notin {"restart", "restart_kill"} =>
       \A p \in Alive : core[p].forced = forceCpu \/ Leftover(p)

\* A condemned engine is locked out by now, or by the verdict that is due.
CheckInv ==
  witness.condemned /\ ~recovery.cpuLocked =>
     /\ flight.active /\ flight.inference /\ call[Flight].at \in {"judge", "verdict"}
     /\ call[Flight].result \in {"error", "transient"}

IInv == Typed /\ CallShape /\ FlightShape /\ SlotInv /\ InstallInv /\ StopInv /\ CheckInv

-----------------------------------------------------------------------------
(* The kinds of step of a call                                             *)

\* What was alive and of which configuration.
Shrinks == \A q \in Pid : core'[q].alive => core[q].alive /\ core'[q].forced = core[q].forced

SlotStays == slot' = slot /\ fresh' = fresh /\ switch' = switch /\ Shrinks
Cleared == /\ slot' = 0 /\ switch' = 0 /\ fresh' = fresh
           /\ Shrinks /\ (slot \in Pid => ~core'[slot].alive)
Abandoned == /\ fresh' = 0 /\ switch' = 0 /\ slot' = slot
             /\ Shrinks /\ (fresh \in Pid => ~core'[fresh].alive)
Spawned ==
  /\ slot' = 0 /\ fresh' \in Pid \ {slot} /\ fresh' \notin Alive
  /\ core'[fresh'].forced = forceCpu
  /\ \A q \in Pid \ {fresh'} : core'[q].alive => core[q].alive /\ core'[q].forced = core[q].forced
Registered == switch' = fresh /\ slot' = slot /\ fresh' = fresh /\ Shrinks
Entered == slot' = fresh /\ fresh' = 0 /\ switch' = switch /\ Shrinks /\ fresh \in Alive

Returning(c) == \E r \in Result : Returned(c, r)

WorkKind(c) ==
  \/ Returning(c) /\ SlotStays /\ call[c].at \in {"wait", "sent", "restarting", "answered"}
  \/ Returning(c) /\ Cleared /\ call[c].at \in {"sent", "restarting"}
  \/ Returning(c) /\ Abandoned /\ call[c].at \in {"register", "hello"}
  \/ /\ Onward(c, "sent") /\ call[c].at = "wait" /\ SlotFree /\ ~Cancelled(c)
     /\ slot \in Alive /\ SlotStays
  \/ /\ Onward(c, "register") /\ call[c].at = "wait" /\ SlotFree /\ ~Cancelled(c)
     /\ slot \notin Alive /\ Spawned
  \/ Onward(c, "hello") /\ call[c].at = "register" /\ ~Cancelled(c) /\ Registered
  \/ (Onward(c, "sent") \/ Returned(c, "error")) /\ call[c].at = "hello" /\ Entered
  \/ \E a \in {"restarting", "answered"} :
       Onward(c, a) /\ call[c].at \in {"sent", "restarting"} /\ SlotStays

\* What no step of a call does.
WorkFrame(c) ==
  /\ installs' = installs /\ (ready' => ready \/ installs = 0)
  /\ flight' = flight /\ forceCpu' = forceCpu /\ stopping' = stopping
  /\ recovery'.stopped = recovery.stopped /\ (recovery.cpuLocked => recovery'.cpuLocked)
  /\ witness'.calm = witness.calm /\ witness'.steady = witness.steady
  /\ witness'.condemned /\ ~witness.condemned =>
       /\ c = Flight /\ call[c].method = "recoverInference"
       /\ \E r \in {"error", "transient"} : Returned(c, r)

LEMMA CoreDies ==
  ASSUME CoreTyped, NEW p, core' = [core EXCEPT ![p] = Dead]
  PROVE  CoreTyped' /\ Shrinks /\ (p \in Pid => ~core'[p].alive)
<1>1. CoreTyped'
  BY DeadTyped DEF CoreTyped
<1>2. \A q \in Pid : core'[q] = IF q = p THEN Dead ELSE core[q]
  BY DEF CoreTyped
<1>3. ~Dead.alive
  BY DEF Dead
<1>4. Shrinks
  BY <1>2, <1>3 DEF Shrinks
<1> QED
  BY <1>1, <1>2, <1>3, <1>4

LEMMA CoreChanges ==
  ASSUME CoreTyped, NEW p \in Pid, NEW x \in CoreRec, core' = [core EXCEPT ![p] = x],
         x.alive = core[p].alive, x.forced = core[p].forced
  PROVE  CoreTyped' /\ Shrinks
BY DEF CoreTyped, Shrinks

LEMMA CoreServes ==
  ASSUME CoreTyped, NEW p \in Pid, NEW e \in {"none", "gpu", "cpu"}, core' = Serving(p, e)
  PROVE  CoreTyped' /\ Shrinks
<1> DEFINE b == e # "none"
<1>1. core[p] \in CoreRec /\ b \in BOOLEAN
  BY DEF CoreTyped
<1> HIDE DEF b
<1>2. [core[p] EXCEPT !.engine = e, !.well = b] \in CoreRec
  BY <1>1 DEF CoreRec
<1>3. core' = [core EXCEPT ![p] = [core[p] EXCEPT !.engine = e, !.well = b]]
  BY DEF Serving, CoreTyped, b
<1>4. /\ [core[p] EXCEPT !.engine = e, !.well = b].alive = core[p].alive
      /\ [core[p] EXCEPT !.engine = e, !.well = b].forced = core[p].forced
  BY <1>1 DEF CoreRec
<1> QED
  BY <1>2, <1>3, <1>4, CoreChanges

LEMMA CoreToCpu ==
  ASSUME CoreTyped, NEW p \in Pid,
         core' = [core EXCEPT ![p] = [@ EXCEPT !.cpu = TRUE, !.engine = "none", !.well = FALSE]]
  PROVE  CoreTyped' /\ Shrinks
<1> DEFINE x == [core[p] EXCEPT !.cpu = TRUE, !.engine = "none", !.well = FALSE]
<1>1. core[p] \in CoreRec
  BY DEF CoreTyped
<1>2. x \in CoreRec /\ x.alive = core[p].alive /\ x.forced = core[p].forced
  BY <1>1 DEF CoreRec
<1>3. core' = [core EXCEPT ![p] = x]
  BY DEF CoreTyped
<1> QED
  BY <1>2, <1>3, CoreChanges

LEMMA EngineTyped == ASSUME CoreTyped, NEW p \in Pid PROVE Engine(p) \in {"none", "gpu", "cpu"}
BY DEF CoreTyped, Engine, CoreRec

LEMMA FailingTyped ==
  ASSUME WitnessTyped, NEW c, witness' \in {witness, Failing(c)}
  PROVE  /\ WitnessTyped'
         /\ witness'.calm = witness.calm /\ witness'.steady = witness.steady
         /\ witness'.condemned /\ ~witness.condemned =>
              c = Flight /\ call[c].method = "recoverInference"
BY DEF WitnessTyped, Failing

LEMMA CpuLockTyped ==
  ASSUME RecoveryTyped, NEW x \in BOOLEAN, recovery' = [recovery EXCEPT !.cpuLocked = x],
         recovery.cpuLocked => x
  PROVE  /\ RecoveryTyped' /\ recovery'.stopped = recovery.stopped
         /\ recovery.cpuLocked => recovery'.cpuLocked
BY DEF RecoveryTyped

\* The calls that give up before they have a process of their own.
LEMMA ErrsKind ==
  ASSUME Typed, NEW c \in Caller, Errs(c), UNCHANGED Others, call[c].at = "wait"
  PROVE  Typed' /\ WorkKind(c) /\ WorkFrame(c)
<1>1. CallTyped' /\ Returned(c, "error")
  BY ReturnsCalls DEF Typed, Errs, Result
<1>2. WitnessTyped' /\ witness'.calm = witness.calm /\ witness'.steady = witness.steady
  BY FailingTyped DEF Typed, Errs
<1>3. WorkFrame(c)
  BY <1>1, FailingTyped DEF Typed, Errs, WorkFrame, Others
<1>4. SlotStays /\ CoreTyped' /\ SlotTyped' /\ ready' = ready /\ UNCHANGED Others
  BY DEF Errs, SlotStays, Shrinks, Typed, CoreTyped, SlotTyped
<1>5. Typed'
  BY <1>1, <1>2, <1>4 DEF Typed, Others, FlightTyped, RecoveryTyped, FlagsTyped
<1>6. Returning(c)
  BY <1>1 DEF Returning, Result
<1> QED
  BY <1>3, <1>4, <1>5, <1>6 DEF WorkKind

LEMMA ClearsKind ==
  ASSUME Typed, NEW c \in Caller, ClearsAndErrs(c, "transient"), UNCHANGED Others,
         call[c].at \in {"sent", "restarting"}
  PROVE  Typed' /\ WorkKind(c) /\ WorkFrame(c)
<1>1. CallTyped' /\ Returned(c, "transient")
  BY ReturnsCalls DEF Typed, ClearsAndErrs, Result
<1>2. WitnessTyped'
  BY FailingTyped DEF Typed, ClearsAndErrs
<1>3. WorkFrame(c)
  BY <1>1, FailingTyped DEF Typed, ClearsAndErrs, WorkFrame, Others
<1>4. CoreTyped' /\ Cleared
  BY CoreDies DEF Typed, ClearsAndErrs, Cleared
<1>5. SlotTyped' /\ ready' \in BOOLEAN
  BY DEF ClearsAndErrs, Typed, SlotTyped
<1>6. Typed'
  BY <1>1, <1>2, <1>4, <1>5 DEF Typed, Others, FlightTyped, RecoveryTyped, FlagsTyped
<1>7. Returning(c)
  BY <1>1 DEF Returning, Result
<1> QED
  BY <1>3, <1>4, <1>6, <1>7 DEF WorkKind

LEMMA AbandonsKind ==
  ASSUME Typed, NEW c \in Caller, Abandons(c), UNCHANGED Others,
         call[c].at \in {"register", "hello"}
  PROVE  Typed' /\ WorkKind(c) /\ WorkFrame(c)
<1>1. CallTyped' /\ Returned(c, "error")
  BY ReturnsCalls DEF Typed, Abandons, Result
<1>2. WitnessTyped'
  BY FailingTyped DEF Typed, Abandons
<1>3. WorkFrame(c)
  BY <1>1, FailingTyped DEF Typed, Abandons, WorkFrame, Others
<1>4. CoreTyped' /\ Abandoned
  BY CoreDies DEF Typed, Abandons, Abandoned
<1>5. SlotTyped' /\ ready' = ready
  BY DEF Abandons, Typed, SlotTyped
<1>6. Typed'
  BY <1>1, <1>2, <1>4, <1>5 DEF Typed, Others, FlightTyped, RecoveryTyped, FlagsTyped
<1>7. Returning(c)
  BY <1>1 DEF Returning, Result
<1> QED
  BY <1>3, <1>4, <1>6, <1>7 DEF WorkKind

LEMMA RemoteErrorKind ==
  ASSUME Typed, NEW c \in Caller, NEW r \in {"error", "transient"}, RemoteError(c, r),
         CoreTyped', Shrinks, RecoveryTyped', recovery'.stopped = recovery.stopped,
         recovery.cpuLocked => recovery'.cpuLocked, call[c].at \in {"sent", "restarting"}
  PROVE  Typed' /\ WorkKind(c) /\ WorkFrame(c)
<1>1. CallTyped' /\ Returned(c, r) /\ r \in Result
  BY ReturnsCalls DEF Typed, RemoteError, Result
<1>2. WitnessTyped'
  BY FailingTyped DEF Typed, RemoteError
<1>0. ready' => ready
  BY DEF RemoteError
<1>00. /\ installs' = installs /\ flight' = flight /\ forceCpu' = forceCpu /\ stopping' = stopping
       /\ witness' = Failing(c)
  BY DEF RemoteError
<1>3. WorkFrame(c)
  BY <1>0, <1>00, <1>1, FailingTyped DEF Typed, WorkFrame
<1>4. SlotStays /\ SlotTyped' /\ ready' \in BOOLEAN
  BY DEF RemoteError, SlotStays, Typed, SlotTyped, FlagsTyped
<1>5. Typed'
  BY <1>1, <1>2, <1>4 DEF Typed, RemoteError, FlightTyped, FlagsTyped
<1>6. Returning(c)
  BY <1>1 DEF Returning
<1> QED
  BY <1>3, <1>4, <1>5, <1>6 DEF WorkKind

LEMMA AnswersKind ==
  ASSUME Typed, NEW c \in Caller, NEW a \in {"answered", "restarting"}, CallTyped', Onward(c, a),
         UNCHANGED <<ready, CoreOnly>>,
         CoreTyped', Shrinks, RecoveryTyped', recovery'.stopped = recovery.stopped,
         recovery.cpuLocked => recovery'.cpuLocked, call[c].at \in {"sent", "restarting"}
  PROVE  Typed' /\ WorkKind(c) /\ WorkFrame(c)
<1>1. WorkFrame(c)
  BY DEF CoreOnly, WorkFrame
<1>2. SlotStays /\ SlotTyped'
  BY DEF CoreOnly, SlotStays, Typed, SlotTyped
<1>3. Typed'
  BY <1>2 DEF Typed, CoreOnly, FlightTyped, FlagsTyped, WitnessTyped
<1> QED
  BY <1>1, <1>2, <1>3 DEF WorkKind
\* The caller that has a process in the slot has one that is a process.
LEMMA SlotOfHolder ==
  ASSUME SlotInv, NEW c \in Caller, call[c].at \in {"sent", "restarting", "answered"}
  PROVE  slot \in Pid
BY DEF SlotInv

LEMMA CallLockedKind ==
  ASSUME Typed, SlotInv, NEW c \in Caller, CallLocked(c)
  PROVE  Typed' /\ WorkKind(c) /\ WorkFrame(c)
<1>1. CASE Refused(c) /\ Errs(c)
  BY <1>1, ErrsKind DEF CallLocked
<1>2. CASE ~Refused(c) /\ slot \in Alive
  <2>1. /\ call[c].at = "wait" /\ SlotFree /\ ~Cancelled(c) /\ UNCHANGED Others
        /\ call' = SentOn(call, c)
        /\ UNCHANGED <<slot, fresh, switch, core, ready, installs, witness>>
    BY <1>2 DEF CallLocked, Refused, Errs
  <2>2. CallTyped' /\ Onward(c, "sent")
    <3>1. call' = [call EXCEPT ![c].at = "sent", ![c].current = TRUE]
      BY <2>1 DEF SentOn
    <3> QED
      BY <3>1, OnwardCalls DEF Typed, At, Holding, Result
  <2>3. SlotStays
    BY <2>1 DEF SlotStays, Shrinks
  <2>4. Typed'
    BY <2>1, <2>2 DEF Typed, Others, SlotTyped, CoreTyped, FlightTyped, RecoveryTyped, WitnessTyped, FlagsTyped
  <2>5. WorkFrame(c)
    BY <2>1 DEF WorkFrame, Others
  <2> QED
    BY <1>2, <2>1, <2>2, <2>3, <2>4, <2>5 DEF WorkKind
<1>3. CASE ~Refused(c) /\ slot \notin Alive
  <2>0. \E p \in Pid \ (Alive \cup {slot}) : TRUE
    <3>1. fresh = 0
      BY DEF SlotInv, CallLocked, SlotFree, Holding
    <3>2. Alive = {}
      BY <1>3, <3>1, ClientAssumption DEF SlotInv, Alive
    <3> QED
      BY <3>2, ClientAssumption
  <2>1. /\ call[c].at = "wait" /\ SlotFree /\ ~Cancelled(c) /\ UNCHANGED Others
        /\ fresh' = CHOOSE p \in Pid \ (Alive \cup {slot}) : TRUE
        /\ core' = [core EXCEPT ![fresh'] = [Dead EXCEPT !.alive = TRUE, !.forced = forceCpu]]
        /\ UNCHANGED <<installs, witness>>
        /\ IF slot = 0 THEN UNCHANGED <<slot, switch, ready>>
           ELSE slot' = 0 /\ switch' = 0 /\ ready' = FALSE
        /\ call' = [(IF slot = 0 THEN call ELSE Stale(call)) EXCEPT ![c].at = "register"]
    BY <1>3 DEF CallLocked, Refused, Errs, SpawnCommand
  <2>2. CallTyped' /\ Onward(c, "register")
    BY <2>1, OnwardCalls DEF Typed, At, Holding, Result
  <2>3. fresh' \in Pid \ (Alive \cup {slot})
    BY <2>0, <2>1
  <2>4. [Dead EXCEPT !.alive = TRUE, !.forced = forceCpu] \in CoreRec
    BY DeadTyped DEF CoreRec, Typed, FlagsTyped
  <2>5. CoreTyped' /\ core'[fresh'] = [Dead EXCEPT !.alive = TRUE, !.forced = forceCpu]
        /\ \A q \in Pid \ {fresh'} : core'[q] = core[q]
    BY <2>1, <2>3, <2>4 DEF Typed, CoreTyped
  <2>6. slot' = 0 /\ (ready' => ready) /\ ready' \in BOOLEAN
    BY <2>1 DEF Typed, FlagsTyped
  <2>7. [Dead EXCEPT !.alive = TRUE, !.forced = forceCpu].forced = forceCpu
    BY DeadTyped DEF CoreRec
  <2>8. Spawned
    BY <2>3, <2>5, <2>6, <2>7 DEF Spawned
  <2>9. SlotTyped'
    BY <2>1, <2>3 DEF Typed, SlotTyped
  <2>10. Typed'
    BY <2>1, <2>2, <2>5, <2>6, <2>9 DEF Typed, Others, FlightTyped, RecoveryTyped, WitnessTyped, FlagsTyped
  <2>11. WorkFrame(c)
    BY <2>1, <2>6 DEF WorkFrame, Others
  <2> QED
    BY <1>3, <2>1, <2>2, <2>8, <2>10, <2>11 DEF WorkKind
<1> QED
  BY <1>1, <1>2, <1>3 DEF CallLocked

LEMMA RegisterKind ==
  ASSUME Typed, SlotInv, NEW c \in Caller, Register(c)
  PROVE  Typed' /\ WorkKind(c) /\ WorkFrame(c)
<1>1. CASE Cancelled(c)
  BY <1>1, AbandonsKind DEF Register
<1>2. CASE ~Cancelled(c)
  <2>1. /\ call[c].at = "register" /\ UNCHANGED Others /\ switch' = fresh
        /\ core' = [core EXCEPT ![fresh].cpu = core[fresh].forced \/ recovery.cpuLocked]
        /\ call' = [call EXCEPT ![c].at = "hello"]
        /\ UNCHANGED <<slot, fresh, ready, installs, witness>>
    BY <1>2 DEF Register
  <2>2. fresh \in Pid
    BY <2>1 DEF SlotInv
  <2> DEFINE b == core[fresh].forced \/ recovery.cpuLocked
  <2>3. b \in BOOLEAN /\ core[fresh] \in CoreRec
    BY <2>2 DEF Typed, CoreTyped
  <2> HIDE DEF b
  <2>4. [core[fresh] EXCEPT !.cpu = b] \in CoreRec /\ [core[fresh] EXCEPT !.cpu = b].alive = core[fresh].alive
        /\ [core[fresh] EXCEPT !.cpu = b].forced = core[fresh].forced
    BY <2>3 DEF CoreRec
  <2>5. core' = [core EXCEPT ![fresh] = [core[fresh] EXCEPT !.cpu = b]]
    BY <2>1, <2>2 DEF Typed, CoreTyped, b
  <2>6. CoreTyped' /\ Shrinks
    BY <2>2, <2>4, <2>5, CoreChanges DEF Typed
  <2>7. CallTyped' /\ Onward(c, "hello")
    BY <2>1, OnwardCalls DEF Typed, At, Holding, Result
  <2>8. Registered /\ SlotTyped'
    BY <2>1, <2>6 DEF Registered, Typed, SlotTyped
  <2>9. Typed'
    BY <2>1, <2>6, <2>7, <2>8 DEF Typed, Others, FlightTyped, RecoveryTyped, WitnessTyped, FlagsTyped
  <2>10. WorkFrame(c)
    BY <2>1 DEF WorkFrame, Others
  <2> QED
    BY <1>2, <2>1, <2>7, <2>8, <2>9, <2>10 DEF WorkKind
<1> QED
  BY <1>1, <1>2

LEMMA HelloKind ==
  ASSUME Typed, SlotInv, NEW c \in Caller, Hello(c)
  PROVE  Typed' /\ WorkKind(c) /\ WorkFrame(c)
<1>1. CASE Abandons(c)
  BY <1>1, AbandonsKind DEF Hello
<1>2. CASE ~Abandons(c)
  <2>1. /\ call[c].at = "hello" /\ UNCHANGED Others /\ fresh \in Alive
        /\ slot' = fresh /\ fresh' = 0 /\ call' = SentOn(call, c)
        /\ witness' = (IF Cancelled(c) THEN Failing(c) ELSE witness)
        /\ UNCHANGED <<switch, core, ready, installs>>
    BY <1>2 DEF Hello
  <2>2. CASE Cancelled(c)
    <3>1. CallTyped' /\ Returned(c, "error")
      BY <2>1, <2>2, ReturnsCalls DEF Typed, SentOn, Result
    <3>2. WitnessTyped'
      BY <2>1, FailingTyped DEF Typed
    <3>3. WorkFrame(c)
      BY <2>1, <3>1, FailingTyped DEF Typed, WorkFrame, Others
    <3>4. Entered /\ SlotTyped'
      BY <2>1 DEF Entered, Typed, SlotTyped, Shrinks
    <3>5. Typed'
      BY <2>1, <3>1, <3>2, <3>4 DEF Typed, Others, FlightTyped, RecoveryTyped, CoreTyped, FlagsTyped
    <3> QED
      BY <2>1, <3>1, <3>3, <3>4, <3>5 DEF WorkKind
  <2>3. CASE ~Cancelled(c)
    <3>0. call' = [call EXCEPT ![c].at = "sent", ![c].current = TRUE] /\ UNCHANGED witness
      BY <2>1, <2>3 DEF SentOn
    <3>1. CallTyped' /\ Onward(c, "sent")
      BY <3>0, OnwardCalls DEF Typed, At, Holding, Result
    <3>3. WorkFrame(c)
      BY <2>1, <3>0 DEF WorkFrame, Others
    <3>4. Entered /\ SlotTyped'
      BY <2>1 DEF Entered, Typed, SlotTyped, Shrinks
    <3>5. Typed'
      BY <2>1, <3>0, <3>1, <3>4 DEF Typed, Others, FlightTyped, RecoveryTyped, CoreTyped, WitnessTyped, FlagsTyped
    <3> QED
      BY <2>1, <3>1, <3>3, <3>4, <3>5 DEF WorkKind
  <2> QED
    BY <2>2, <2>3
<1> QED
  BY <1>1, <1>2

LEMMA AnsweredKind ==
  ASSUME Typed, SlotInv, NEW c \in Caller, Answered(c)
  PROVE  Typed' /\ WorkKind(c) /\ WorkFrame(c)
<1>1. /\ call[c].at = "answered" /\ call[c] \in CallRec /\ call[c].result \in Result
      /\ UNCHANGED <<slot, fresh, switch, core, installs, flight, forceCpu, stopping, witness>>
  BY DEF Answered, Typed, CallTyped, CallRec
<1>2. PICK r \in Result : call' = Returns(call, c, r)
  <2>1. "stopped" \in Result
    BY DEF Result
  <2>2. call' = Returns(call, c, call[c].result) \/ call' = Returns(call, c, "stopped")
    BY DEF Answered
  <2> QED
    BY <1>1, <2>1, <2>2
<1>3. CallTyped' /\ Returning(c)
  BY <1>2, ReturnsCalls DEF Typed, Returning
<1>4. RecoveryTyped' /\ recovery'.stopped = recovery.stopped /\ (recovery.cpuLocked => recovery'.cpuLocked)
  <2>1. CASE call[c].method = "complete"
    BY <2>1 DEF Answered, Typed, RecoveryTyped
  <2>2. CASE call[c].method # "complete"
    <3>0. slot \in Pid /\ core[slot] \in CoreRec
      BY <1>1, SlotOfHolder DEF Typed, CoreTyped
    <3> DEFINE x == recovery.cpuLocked \/ (core[slot].cpu /\ ~core[slot].forced)
    <3>1. x \in BOOLEAN /\ (recovery.cpuLocked => x)
      OBVIOUS
    <3>2. recovery' = [recovery EXCEPT !.cpuLocked = x]
      BY <2>2 DEF Answered, Typed, RecoveryTyped
    <3> HIDE DEF x
    <3> QED
      BY <3>1, <3>2, CpuLockTyped DEF Typed
  <2> QED
    BY <2>1, <2>2
<1>5. (ready' => ready \/ installs = 0) /\ ready' \in BOOLEAN
  <2>1. ready' = ready \/ (ready' = (call[c].result = "ready") /\ installs = 0)
    BY DEF Answered, RecordStatus
  <2>2. CASE ready' = ready
    BY <2>2 DEF Typed, FlagsTyped
  <2>3. CASE ready' = (call[c].result = "ready") /\ installs = 0
    BY <2>3
  <2> QED
    BY <2>1, <2>2, <2>3
<1>6. SlotStays /\ SlotTyped'
  BY <1>1 DEF SlotStays, Shrinks, Typed, SlotTyped
<1>7. Typed'
  BY <1>1, <1>3, <1>4, <1>5, <1>6 DEF Typed, CoreTyped, FlightTyped, WitnessTyped, FlagsTyped
<1>8. WorkFrame(c)
  BY <1>1, <1>4, <1>5 DEF WorkFrame
<1> QED
  BY <1>1, <1>3, <1>6, <1>7, <1>8 DEF WorkKind
LEMMA CoreAnswersKind ==
  ASSUME Typed, SlotInv, NEW c \in Caller, CoreAnswers(c)
  PROVE  Typed' /\ WorkKind(c) /\ WorkFrame(c)
<1>0. call[c].at \in {"sent", "restarting"} /\ slot \in Pid /\ CoreTyped /\ CallTyped
  <2>1. call[c].at \in {"sent", "restarting"}
    BY DEF CoreAnswers, CoreStatus, CoreReady, CoreReadyFails, CoreOnCpu, CoreInstall, CoreComplete, CoreRecover
  <2> QED
    BY <2>1, SlotOfHolder DEF Typed
<1>a. ASSUME NEW r \in Result, Answers(c, r) PROVE CallTyped' /\ Onward(c, "answered")
  BY <1>0, <1>a, OnwardCalls DEF Answers, At, Holding
<1>r. ASSUME call' = [call EXCEPT ![c].at = "restarting"] PROVE CallTyped' /\ Onward(c, "restarting")
  BY <1>0, <1>r, OnwardCalls DEF At, Holding, Result
<1>s. ASSUME NEW e \in {"none", "gpu", "cpu"}, core' = Serving(slot, e) PROVE CoreTyped' /\ Shrinks
  BY <1>0, <1>s, CoreServes
<1>k. ASSUME core' = core PROVE CoreTyped' /\ Shrinks
  BY <1>0, <1>k DEF CoreTyped, Shrinks
<1>v. ASSUME recovery' = recovery
      PROVE  /\ RecoveryTyped' /\ recovery'.stopped = recovery.stopped
             /\ (recovery.cpuLocked => recovery'.cpuLocked)
  BY <1>v DEF Typed, RecoveryTyped
<1>e. Engine(slot) \in {"none", "gpu", "cpu"}
  BY <1>0, EngineTyped
<1>n. {"ready", "stopped", "done", "rejected"} \subseteq Result
  BY DEF Result
<1>1. CASE CoreStatus(c)
  <2>1. core' = Serving(slot, Engine(slot)) /\ UNCHANGED <<ready, CoreOnly>> /\ recovery' = recovery
    BY <1>1 DEF CoreStatus
  <2>2. PICK r \in Result : Answers(c, r)
    BY <1>1, <1>n DEF CoreStatus
  <2> QED
    BY <1>0, <1>a, <1>e, <1>s, <1>v, <2>1, <2>2, AnswersKind
<1>2. CASE CoreReady(c)
  <2>0. UNCHANGED <<ready, CoreOnly>>
    BY <1>2 DEF CoreReady
  <2>1. CASE Answers(c, "ready")
    <3>1. UNCHANGED recovery /\ (core' = core \/ core' = Serving(slot, "cpu") \/ core' = Serving(slot, "gpu"))
      <4>1. ~(call' = [call EXCEPT ![c].at = "restarting"])
        BY <1>0, <1>a, <1>r, <1>n, <2>1 DEF Onward
      <4> QED
        BY <1>2, <4>1 DEF CoreReady
    <3> QED
      BY <1>0, <1>a, <1>k, <1>s, <1>v, <1>n, <2>0, <2>1, <3>1, AnswersKind
  <2>2. CASE ~Answers(c, "ready")
    <3>1. /\ core' = [core EXCEPT ![slot] = [@ EXCEPT !.cpu = TRUE, !.engine = "none", !.well = FALSE]]
          /\ recovery' = [recovery EXCEPT !.cpuLocked = TRUE]
          /\ call' = [call EXCEPT ![c].at = "restarting"]
      BY <1>2, <2>2 DEF CoreReady
    <3>2. CoreTyped' /\ Shrinks
      BY <1>0, <3>1, CoreToCpu
    <3>3. /\ RecoveryTyped' /\ recovery'.stopped = recovery.stopped
          /\ (recovery.cpuLocked => recovery'.cpuLocked)
      BY <3>1, CpuLockTyped DEF Typed
    <3> QED
      BY <1>0, <1>r, <2>0, <3>1, <3>2, <3>3, AnswersKind
  <2> QED
    BY <2>1, <2>2
<1>3. CASE CoreReadyFails(c)
  <2>1. core' = Serving(slot, "none") /\ RemoteError(c, "error") /\ recovery' = recovery
    BY <1>3 DEF CoreReadyFails
  <2> QED
    BY <1>0, <1>s, <1>v, <2>1, RemoteErrorKind
<1>4. CASE CoreOnCpu(c)
  <2>1. core' = Serving(slot, "cpu") /\ Answers(c, "ready") /\ UNCHANGED <<ready, recovery, CoreOnly>>
    BY <1>4 DEF CoreOnCpu
  <2> QED
    BY <1>0, <1>a, <1>n, <1>s, <1>v, <2>1, AnswersKind
<1>5. CASE CoreInstall(c)
  <2>1. core' = Serving(slot, "none") /\ recovery' = recovery
    BY <1>5 DEF CoreInstall
  <2>2. CASE Answers(c, "stopped") /\ UNCHANGED <<ready, CoreOnly>>
    BY <1>0, <1>a, <1>n, <1>s, <1>v, <2>1, <2>2, AnswersKind
  <2>3. CASE RemoteError(c, "error")
    BY <1>0, <1>s, <1>v, <2>1, <2>3, RemoteErrorKind
  <2> QED
    BY <1>5, <2>2, <2>3 DEF CoreInstall
<1>6. CASE CoreComplete(c)
  <2>1. recovery' = recovery
    BY <1>6 DEF CoreComplete
  <2>2. CASE RemoteError(c, "transient")
    <3>1. core' = core \/ core' = Serving(slot, "none")
      BY <1>6 DEF CoreComplete
    <3> QED
      BY <1>0, <1>k, <1>s, <1>v, <2>1, <2>2, <3>1, RemoteErrorKind
  <2>3. CASE ~RemoteError(c, "transient")
    <3>1. PICK r \in Result : Answers(c, r) /\ core' = core /\ UNCHANGED <<ready, CoreOnly>>
      BY <1>6, <1>n, <2>3 DEF CoreComplete
    <3> QED
      BY <1>0, <1>a, <1>k, <1>v, <2>1, <3>1, AnswersKind
  <2> QED
    BY <2>2, <2>3
<1>7. CASE CoreRecover(c)
  <2>1. CASE /\ core' = Serving(slot, Engine(slot)) /\ UNCHANGED <<ready, recovery, CoreOnly>>
             /\ Answers(c, IF Engine(slot) = "none" THEN "stopped" ELSE "ready")
    <3>1. PICK r \in Result : Answers(c, r)
      BY <1>n, <2>1
    <3> QED
      BY <1>0, <1>a, <1>e, <1>s, <1>v, <2>1, <3>1, AnswersKind
  <2>2. CASE /\ recovery' = [recovery EXCEPT !.cpuLocked = @ \/ ~core[slot].forced]
             /\ core' = [core EXCEPT ![slot] = [@ EXCEPT !.cpu = TRUE, !.engine = "none", !.well = FALSE]]
             /\ IF core[slot].engine = "gpu"
                THEN call' = [call EXCEPT ![c].at = "restarting"] /\ UNCHANGED <<ready, CoreOnly>>
                ELSE RemoteError(c, "error")
    <3> DEFINE x == recovery.cpuLocked \/ ~core[slot].forced
    <3>1. x \in BOOLEAN /\ (recovery.cpuLocked => x)
      OBVIOUS
    <3>2. recovery' = [recovery EXCEPT !.cpuLocked = x]
      BY <2>2 DEF Typed, RecoveryTyped
    <3> HIDE DEF x
    <3>3. /\ RecoveryTyped' /\ recovery'.stopped = recovery.stopped
          /\ (recovery.cpuLocked => recovery'.cpuLocked)
      BY <3>1, <3>2, CpuLockTyped DEF Typed
    <3>4. CoreTyped' /\ Shrinks
      BY <1>0, <2>2, CoreToCpu
    <3>5. CASE core[slot].engine = "gpu"
      BY <1>0, <1>r, <2>2, <3>3, <3>4, <3>5, AnswersKind
    <3>6. CASE core[slot].engine # "gpu"
      BY <1>0, <2>2, <3>3, <3>4, <3>6, RemoteErrorKind
    <3> QED
      BY <3>5, <3>6
  <2> QED
    BY <1>7, <2>1, <2>2 DEF CoreRecover
<1> QED
  BY <1>1, <1>2, <1>3, <1>4, <1>5, <1>6, <1>7 DEF CoreAnswers

LEMMA SlotTimeoutKind ==
  ASSUME Typed, NEW c \in Caller, SlotTimeout(c)
  PROVE  Typed' /\ WorkKind(c) /\ WorkFrame(c)
<1>1. PICK r \in {"error", "transient"} : call' = Returns(call, c, r)
  BY DEF SlotTimeout
<1>2. CallTyped' /\ Returned(c, r) /\ r \in Result
  BY <1>1, ReturnsCalls DEF Typed, Result
<1>3. /\ UNCHANGED <<slot, fresh, switch, core, ready, installs, Others>>
      /\ witness' = Failing(c) /\ call[c].at = "wait"
  BY DEF SlotTimeout
<1>4. WitnessTyped'
  BY <1>3, FailingTyped DEF Typed
<1>5. SlotStays
  BY <1>3 DEF SlotStays, Shrinks
<1>6. WorkFrame(c)
  BY <1>2, <1>3, FailingTyped DEF Typed, WorkFrame, Others
<1>7. Typed'
  BY <1>2, <1>3, <1>4 DEF Typed, Others, SlotTyped, CoreTyped, FlightTyped, RecoveryTyped, FlagsTyped
<1> QED
  BY <1>2, <1>3, <1>5, <1>6, <1>7 DEF WorkKind, Returning

LEMMA WorksKind ==
  ASSUME Typed, SlotInv, NEW c \in Caller, Works(c) \/ HelloFails(c) \/ RequestTimeout(c)
  PROVE  Typed' /\ WorkKind(c) /\ WorkFrame(c)
<1>1. CASE HelloFails(c)
  BY <1>1, AbandonsKind DEF HelloFails
<1>2. CASE RequestTimeout(c)
  BY <1>2, ClearsKind DEF RequestTimeout
<1>3. CASE RequestDies(c)
  BY <1>3, ClearsKind DEF RequestDies
<1> QED
  BY <1>1, <1>2, <1>3, SlotTimeoutKind, CallLockedKind, RegisterKind, HelloKind, AnsweredKind, CoreAnswersKind
  DEF Works
-----------------------------------------------------------------------------
(* The invariant is kept by the calls                                      *)

Busy == {"wait"} \cup Holding

LEMMA KindsOfWork ==
  ASSUME NEW c \in Caller, WorkKind(c)
  PROVE  /\ call[c].at \in Busy
         /\ \/ Returning(c)
            \/ \E a \in Holding : Onward(c, a)
BY DEF WorkKind, Returning, Result, Busy, Holding

\* The shape of one call.
Shape(c) ==
  /\ c \in Client => /\ call[c].at \notin {"judge", "verdict"} /\ call[c].method # "recoverInference"
                     /\ call[c].at = "leave" => call[c].method = "install"
                     /\ call[c].at = "react" => call[c].method = "complete"
  /\ c = Flight => /\ call[c].at \notin {"leave", "react"}
                   /\ call[c].method \in {"status", "ready", "recoverInference"}
  /\ call[c].at = "idle" => call[c] = Idle

LEMMA ShapeOfCalls == (CallShape <=> \A c \in Caller : Shape(c))
                      /\ (CallShape' <=> \A c \in Caller : Shape(c)')
BY ClientAssumption DEF CallShape, Shape, Caller

LEMMA KeepsShape ==
  ASSUME CallShape, NEW d \in Caller, Keeps(d)
  PROVE  Shape(d)'
<1>1. Shape(d)
  BY ShapeOfCalls
<1> QED
  BY <1>1 DEF Keeps, Shape

LEMMA WorkShape ==
  ASSUME CallShape, NEW c \in Caller, WorkKind(c)
  PROVE  CallShape'
<1>1. \A d \in Caller \ {c} : Keeps(d)
  BY KindsOfWork DEF Returning, Returned, Onward
<1>2. \A d \in Caller \ {c} : Shape(d)'
  BY <1>1, KeepsShape
<1>3. call[c].at \in Busy
  BY KindsOfWork
<1>4. CASE Returning(c)
  <2>1. /\ call'[c].at = After(c) /\ (After(c) = "idle" => call'[c] = Idle)
        /\ After(c) # "idle" => call'[c].method = call[c].method
    BY <1>4 DEF Returning, Returned
  <2>2. c = Flight => call'[c].at = "judge" /\ call'[c].method = call[c].method
    BY <2>1 DEF After
  <2>3. c # Flight => \/ call'[c].at = "leave" /\ call[c].method = "install" /\ call'[c].method = "install"
                      \/ call'[c].at = "react" /\ call[c].method = "complete" /\ call'[c].method = "complete"
                      \/ call'[c] = Idle /\ call'[c].at = "idle" /\ call'[c].method = "status"
    BY <2>1 DEF After, Idle
  <2>4. c = Flight => Shape(c)'
    BY <1>3, <2>2, ClientAssumption DEF CallShape, Shape
  <2>5. c # Flight => Shape(c)'
    BY <2>3 DEF Shape
  <2> QED
    BY <1>2, <2>4, <2>5, ShapeOfCalls
<1>5. CASE \E a \in Holding : Onward(c, a)
  <2>1. call'[c].at \in Holding /\ call'[c].method = call[c].method
    BY <1>5 DEF Onward
  <2>2. Shape(c)'
    BY <2>1 DEF CallShape, Shape, Caller, Holding
  <2> QED
    BY <1>2, <2>2, ShapeOfCalls
<1> QED
  BY <1>4, <1>5, KindsOfWork

LEMMA WorkFlight ==
  ASSUME CallShape, FlightShape, NEW c \in Caller, WorkKind(c), WorkFrame(c)
  PROVE  FlightShape'
<1>1. flight' = flight /\ (recovery.cpuLocked => recovery'.cpuLocked)
  BY DEF WorkFrame
<1>2. (call'[Flight].at # "idle" <=> call[Flight].at # "idle") /\ call'[Flight].method = call[Flight].method
  <2>1. CASE c = Flight
    <3>1. call[c].at # "idle"
      BY KindsOfWork DEF Busy, Holding
    <3>2. CASE Returning(c)
      BY <2>1, <3>1, <3>2 DEF Returning, Returned, After
    <3>3. CASE \E a \in Holding : Onward(c, a)
      BY <2>1, <3>1, <3>3 DEF Onward, Holding
    <3> QED
      BY <3>2, <3>3, KindsOfWork
  <2>2. CASE c # Flight
    <3>1. Keeps(Flight)
      BY <2>2, KindsOfWork DEF Returning, Returned, Onward, Caller
    <3> QED
      BY <3>1 DEF Keeps
  <2> QED
    BY <2>1, <2>2
<1> QED
  BY <1>1, <1>2 DEF FlightShape

LEMMA WorkSlot ==
  ASSUME Typed, SlotInv, NEW c \in Caller, WorkKind(c)
  PROVE  SlotInv'
<1> DEFINE Others1 == \A d \in Caller \ {c} : call'[d].at = call[d].at
<1>0. Others1
  BY KindsOfWork DEF Returning, Returned, Onward, Keeps
<1>00. /\ \A p \in Pid : p \in Alive <=> core[p].alive
       /\ \A p \in Pid : p \in Alive' <=> core'[p].alive
       /\ Alive \subseteq Pid /\ Alive' \subseteq Pid /\ 0 \notin Pid
  BY ClientAssumption DEF Alive
<1>r. ASSUME Returning(c) PROVE call'[c].at \notin Holding
  BY <1>r DEF Returning, Returned, After, Holding
<1>s. Shrinks => Alive' \subseteq Alive
  BY <1>00 DEF Shrinks
<1>1. CASE Returning(c) /\ SlotStays /\ call[c].at \in {"wait", "sent", "restarting", "answered"}
  BY <1>0, <1>00, <1>1, <1>r, <1>s DEF SlotStays, SlotInv, Holding
<1>2. CASE Returning(c) /\ Cleared /\ call[c].at \in {"sent", "restarting"}
  <2>1. \A d \in Caller : call'[d].at \notin Holding
    BY <1>0, <1>2, <1>r DEF SlotInv, Holding
  <2>2. fresh' = 0 /\ slot' = 0 /\ switch' = 0 /\ slot \in Pid
    BY <1>2, <2>1 DEF Cleared, SlotInv, Holding
  <2>3. Alive' = {}
    BY <1>2, <1>00, <1>s, <2>2 DEF Cleared, SlotInv
  <2> QED
    BY <2>1, <2>2, <2>3 DEF SlotInv, Holding
<1>3. CASE Returning(c) /\ Abandoned /\ call[c].at \in {"register", "hello"}
  <2>1. \A d \in Caller : call'[d].at \notin Holding
    BY <1>0, <1>3, <1>r DEF SlotInv, Holding
  <2>2. fresh' = 0 /\ slot' = 0 /\ switch' = 0 /\ fresh \in Pid /\ slot = 0
    BY <1>3 DEF Abandoned, SlotInv
  <2>3. Alive' = {}
    BY <1>3, <1>00, <1>s, <2>2 DEF Abandoned, SlotInv
  <2> QED
    BY <2>1, <2>2, <2>3 DEF SlotInv, Holding
<1>4. CASE Onward(c, "sent") /\ call[c].at = "wait" /\ SlotFree /\ slot \in Alive /\ SlotStays
  BY <1>0, <1>00, <1>4, <1>s DEF Onward, SlotStays, SlotInv, SlotFree, Holding
<1>5. CASE Onward(c, "register") /\ call[c].at = "wait" /\ SlotFree /\ slot \notin Alive /\ Spawned
  <2>1. fresh = 0 /\ Alive = {}
    BY <1>00, <1>5 DEF SlotFree, SlotInv, Holding
  <2>2. Alive' \subseteq {fresh'}
    BY <1>00, <1>5, <2>1 DEF Spawned
  <2> QED
    BY <1>0, <1>00, <1>5, <2>2 DEF Onward, Spawned, SlotInv, SlotFree, Holding
<1>6. CASE Onward(c, "hello") /\ call[c].at = "register" /\ Registered
  BY <1>0, <1>00, <1>6, <1>s DEF Onward, Registered, SlotInv, Holding
<1>7. CASE Onward(c, "sent") /\ call[c].at = "hello" /\ Entered
  BY <1>0, <1>00, <1>7, <1>s DEF Onward, Entered, SlotInv, Holding
<1>8. CASE Returned(c, "error") /\ call[c].at = "hello" /\ Entered
  <2>1. Returning(c)
    BY <1>8 DEF Returning, Result
  <2> QED
    BY <1>0, <1>00, <1>8, <1>r, <1>s, <2>1 DEF Entered, SlotInv, Holding
<1>9. CASE \E a \in {"restarting", "answered"} :
             Onward(c, a) /\ call[c].at \in {"sent", "restarting"} /\ SlotStays
  BY <1>0, <1>00, <1>9, <1>s DEF Onward, SlotStays, SlotInv, Holding
<1> QED
  BY <1>1, <1>2, <1>3, <1>4, <1>5, <1>6, <1>7, <1>8, <1>9 DEF WorkKind

LEMMA WorkInstall ==
  ASSUME CallShape, InstallInv, NEW c \in Caller, WorkKind(c), WorkFrame(c)
  PROVE  InstallInv'
<1>1. \A d \in Caller \ {c} : call'[d].at = call[d].at /\ call'[d].method = call[d].method
  BY KindsOfWork DEF Returning, Returned, Onward, Keeps
<1>2. c \in Client => (c \in Installing <=> c \in Installing')
  <2> SUFFICES ASSUME c \in Client PROVE c \in Installing <=> c \in Installing'
    OBVIOUS
  <2>0. call[c].at # "idle" /\ c # Flight
    BY KindsOfWork, ClientAssumption DEF Busy, Holding
  <2>1. CASE Returning(c)
    BY <2>0, <2>1 DEF Returning, Returned, After, Installing, Idle
  <2>2. CASE \E a \in Holding : Onward(c, a)
    BY <2>0, <2>2 DEF Onward, Installing, Holding
  <2> QED
    BY <2>1, <2>2, KindsOfWork
<1>3. Installing' = Installing
  BY <1>1, <1>2 DEF Installing, Caller
<1> QED
  BY <1>3 DEF InstallInv, WorkFrame

LEMMA QuietMeansFlight ==
  ASSUME Quiet, NEW c \in Caller, WorkKind(c)
  PROVE  c = Flight /\ flight.cancelled /\ Cancelled(c)
<1>1. call[c].at # "idle"
  BY KindsOfWork DEF Busy, Holding
<1>2. c = Flight
  BY <1>1 DEF Quiet, NobodyAsks, Caller, Idle
<1> QED
  BY <1>1, <1>2 DEF Quiet, Cancelled

LEMMA WorkStop ==
  ASSUME Typed, CallShape, SlotInv, StopInv, NEW c \in Caller, WorkKind(c), WorkFrame(c)
  PROVE  StopInv'
<1>0. /\ witness'.calm = witness.calm /\ witness'.steady = witness.steady /\ stopping' = stopping
      /\ flight' = flight /\ forceCpu' = forceCpu /\ recovery'.stopped = recovery.stopped
  BY DEF WorkFrame
<1>00. /\ \A p : p \in Alive <=> p \in Pid /\ core[p].alive
       /\ \A p : p \in Alive' <=> p \in Pid /\ core'[p].alive
  BY DEF Alive
<1>1. Quiet => Quiet'
  <2> SUFFICES ASSUME Quiet PROVE Quiet'
    OBVIOUS
  <2>1. c = Flight /\ flight.cancelled
    BY QuietMeansFlight
  <2>2. \A d \in Client : Keeps(d)
    BY <2>1, KindsOfWork, ClientAssumption DEF Returning, Returned, Onward, Caller
  <2>3. NobodyAsks'
    BY <2>2 DEF Quiet, NobodyAsks, Keeps
  <2> QED
    BY <1>0, <2>1, <2>3 DEF Quiet
<1>2. ASSUME NEW p \in Alive', p \in Alive, Leftover(p) PROVE Leftover(p)'
  <2>1. p = fresh /\ call[Flight].at = "register" /\ flight.cancelled /\ fresh \in Pid /\ core'[p].alive
    BY <1>00, <1>2 DEF Leftover
  <2>2. CASE c = Flight
    BY <2>1, <2>2 DEF WorkKind, Abandoned, Cancelled, Returning
  <2>3. CASE c # Flight
    <3>1. call[c].at \notin Holding /\ ~SlotFree
      BY <2>1, <2>3 DEF SlotInv, Caller, Holding, SlotFree
    <3>2. Returning(c) /\ SlotStays
      BY <3>1 DEF WorkKind, Holding
    <3>3. call'[Flight].at = call[Flight].at
      BY <2>3, <3>2 DEF Returning, Returned, Keeps, Caller
    <3> QED
      BY <1>0, <2>1, <3>2, <3>3 DEF Leftover, SlotStays
  <2> QED
    BY <2>2, <2>3
<1>3. \A p \in Alive' : (p \in Alive /\ core'[p].forced = core[p].forced)
                        \/ (Spawned /\ ~Cancelled(c) /\ core'[p].forced = forceCpu)
  BY <1>00 DEF WorkKind, SlotStays, Cleared, Abandoned, Spawned, Registered, Entered, Shrinks
<1>4. witness'.calm /\ stopping' = "no" => \A p \in Alive' : Leftover(p)'
  <2> SUFFICES ASSUME witness.calm, stopping = "no", NEW p \in Alive' PROVE Leftover(p)'
    BY <1>0
  <2>1. Quiet /\ Cancelled(c)
    BY QuietMeansFlight DEF StopInv
  <2>2. p \in Alive /\ Leftover(p)
    BY <1>3, <2>1 DEF StopInv
  <2> QED
    BY <1>2, <2>2
<1>5. witness'.steady /\ stopping' \notin {"restart", "restart_kill"} =>
        \A p \in Alive' : core'[p].forced = forceCpu' \/ Leftover(p)'
  <2> SUFFICES ASSUME witness.steady, stopping \notin {"restart", "restart_kill"}, NEW p \in Alive'
               PROVE  core'[p].forced = forceCpu \/ Leftover(p)'
    BY <1>0
  <2> QED
    BY <1>2, <1>3 DEF StopInv
<1> QED
  BY <1>0, <1>1, <1>4, <1>5 DEF StopInv

LEMMA WorkCheck ==
  ASSUME FlightShape, CheckInv, NEW c \in Caller, WorkKind(c), WorkFrame(c)
  PROVE  CheckInv'
<1> SUFFICES ASSUME witness'.condemned, ~recovery'.cpuLocked
             PROVE  /\ flight'.active /\ flight'.inference /\ call'[Flight].at \in {"judge", "verdict"}
                    /\ call'[Flight].result \in {"error", "transient"}
  BY DEF CheckInv
<1>0. flight' = flight /\ ~recovery.cpuLocked
  BY DEF WorkFrame
<1>1. CASE witness.condemned
  <2>1. /\ flight.active /\ flight.inference /\ call[Flight].at \in {"judge", "verdict"}
        /\ call[Flight].result \in {"error", "transient"}
    BY <1>0, <1>1 DEF CheckInv
  <2>2. c # Flight
    BY <2>1, KindsOfWork DEF Busy, Holding
  <2>3. Keeps(Flight)
    BY <2>2, KindsOfWork DEF Returning, Returned, Onward, Caller
  <2> QED
    BY <1>0, <2>1, <2>3 DEF Keeps
<1>2. CASE ~witness.condemned
  <2>1. PICK r \in {"error", "transient"} : Returned(c, r)
    BY <1>2 DEF WorkFrame
  <2>2. c = Flight /\ call[c].method = "recoverInference" /\ call[c].at # "idle"
    BY <1>2, KindsOfWork DEF WorkFrame, Busy, Holding
  <2> QED
    BY <1>0, <2>1, <2>2 DEF FlightShape, Returned, After
<1> QED
  BY <1>1, <1>2
-----------------------------------------------------------------------------
(* Steps that leave the processes alone                                    *)

LEMMA SlotUntouched ==
  ASSUME SlotInv, UNCHANGED <<slot, fresh, switch, core>>,
         \A d \in Caller : call'[d].at = call[d].at \/ (call[d].at \notin Holding /\ call'[d].at \notin Holding)
  PROVE  SlotInv'
<1>1. Alive' = Alive
  BY DEF Alive
<1>2. \A d \in Caller : call[d].at \in Holding => call'[d].at = call[d].at
  OBVIOUS
<1>3. \A d \in Caller : call'[d].at \in Holding => call'[d].at = call[d].at
  OBVIOUS
<1> QED
  BY <1>1, <1>2, <1>3 DEF SlotInv, Holding

\* A step that is not of the flight's own call.
LEMMA FlightUntouched ==
  ASSUME Keeps(Flight), flight' = flight, recovery.cpuLocked => recovery'.cpuLocked,
         witness'.condemned => witness.condemned, FlightShape, CheckInv
  PROVE  FlightShape' /\ CheckInv'
BY DEF Keeps, FlightShape, CheckInv

LEMMA LeftoverStays ==
  ASSUME Keeps(Flight), flight' = flight, fresh' = fresh, core' = core, forceCpu' = forceCpu
  PROVE  /\ Alive' = Alive
         /\ \A p : Leftover(p) => Leftover(p)'
         /\ \A p : core'[p].forced = core[p].forced
BY DEF Keeps, Leftover, Alive

\* A client asks: it waits for the slot, with a method of its own.
Asked1(c, m) ==
  /\ \A d \in Caller \ {c} : Keeps(d)
  /\ call[c] = Idle /\ call'[c].at = "wait" /\ call'[c].method = m

LEMMA AskCalls ==
  ASSUME CallTyped, NEW c \in Caller, NEW m \in Method, NEW calls \in {call, Stale(call)}, call[c] = Idle,
         call' = [calls EXCEPT ![c].at = "wait", ![c].method = m]
  PROVE  CallTyped' /\ Asked1(c, m)
<1>1. /\ calls \in [Caller -> CallRec]
      /\ \A d \in Caller :
           /\ calls[d].at = call[d].at /\ calls[d].method = call[d].method
           /\ calls[d].result = call[d].result /\ calls[d].dropped = call[d].dropped
           /\ call[d] = Idle => calls[d] = Idle
  BY StaleCalls DEF CallTyped
<1>2. call' = [calls EXCEPT ![c] = call'[c]] /\ \A d \in Caller \ {c} : call'[d] = calls[d]
  BY <1>1
<1>3. call'[c] = [calls[c] EXCEPT !.at = "wait", !.method = m] /\ calls[c] \in CallRec
  BY <1>1
<1>4. call'[c] \in CallRec /\ call'[c].at = "wait" /\ call'[c].method = m
  BY ZenonT(40), <1>3 DEF CallRec, At
<1> QED
  BY <1>1, <1>2, <1>4 DEF CallTyped, Asked1, Keeps

LEMMA AskedWitness ==
  ASSUME WitnessTyped, Asked
  PROVE  /\ WitnessTyped' /\ ~witness'.calm /\ witness'.condemned = witness.condemned
         /\ witness'.steady => witness.steady /\ stopping = "no"
BY DEF WitnessTyped, Asked

LEMMA AskStops ==
  ASSUME StopInv, Asked, WitnessTyped, Keeps(Flight),
         UNCHANGED <<slot, fresh, switch, core, flight, forceCpu, stopping>>
  PROVE  StopInv'
<1>1. ~witness'.calm /\ (witness'.steady => witness.steady /\ stopping = "no") /\ stopping' = stopping
  BY AskedWitness
<1>2. witness'.steady => \A p \in Alive' : core'[p].forced = forceCpu' \/ Leftover(p)'
  BY <1>1, LeftoverStays DEF StopInv
<1> QED
  BY <1>1, <1>2 DEF StopInv

LEMMA AsksStep ==
  ASSUME IInv, NEW c \in Client, Asks(c)
  PROVE  IInv'
<1>0. c \in Caller /\ c # Flight /\ Flight \in Caller /\ CallTyped
  BY ClientAssumption DEF Caller, IInv, Typed
<1>1. /\ Asked /\ UNCHANGED <<slot, fresh, switch, core, flight, forceCpu, stopping>> /\ call[c] = Idle
      /\ RecoveryTyped' /\ recovery'.cpuLocked = recovery.cpuLocked
  BY DEF Asks, PollStatus, AskReady, AskInstall, AskComplete, IInv, Typed, RecoveryTyped
<1>2. \/ \E m \in {"status", "ready", "complete"} :
            /\ call' = [call EXCEPT ![c].at = "wait", ![c].method = m]
            /\ UNCHANGED <<ready, installs>>
      \/ UNCHANGED <<call, ready, installs>>
      \/ /\ call' = [Stale(call) EXCEPT ![c].at = "wait", ![c].method = "install"]
         /\ installs' = installs + 1 /\ ready' = FALSE
  <2>1. CASE PollStatus(c)
    <3>1. call' = [call EXCEPT ![c].at = "wait"] /\ UNCHANGED <<ready, installs>>
      BY <2>1 DEF PollStatus
    <3>2. [call EXCEPT ![c].at = "wait"] = [call EXCEPT ![c].at = "wait", ![c].method = "status"]
      <4>1. call[c].method = "status"
        BY <1>1 DEF Idle
      <4>0. call[c] \in CallRec
        BY <1>0 DEF CallTyped
      <4>2. [call[c] EXCEPT !.at = "wait"] = [call[c] EXCEPT !.at = "wait", !.method = "status"]
        BY <4>0, <4>1 DEF CallRec
      <4> QED
        BY <1>0, <4>2 DEF CallTyped
    <3> QED
      BY <3>1, <3>2
  <2>2. CASE AskReady(c)
    BY <2>2 DEF AskReady
  <2>3. CASE AskInstall(c)
    BY <2>3 DEF AskInstall
  <2>4. CASE AskComplete(c)
    BY <2>4 DEF AskComplete
  <2> QED
    BY <2>1, <2>2, <2>3, <2>4 DEF Asks
<1>3. /\ CallTyped'
      /\ \/ \E m \in {"status", "ready", "complete"} : Asked1(c, m) /\ UNCHANGED <<ready, installs>>
         \/ UNCHANGED <<call, ready, installs>>
         \/ Asked1(c, "install") /\ installs' = installs + 1 /\ ready' = FALSE
  <2>1. CASE \E m \in {"status", "ready", "complete"} :
            call' = [call EXCEPT ![c].at = "wait", ![c].method = m] /\ UNCHANGED <<ready, installs>>
    BY <1>0, <1>1, <2>1, AskCalls DEF Method
  <2>2. CASE UNCHANGED <<call, ready, installs>>
    BY <1>0, <2>2 DEF CallTyped
  <2>3. CASE call' = [Stale(call) EXCEPT ![c].at = "wait", ![c].method = "install"]
             /\ installs' = installs + 1 /\ ready' = FALSE
    BY <1>0, <1>1, <2>3, AskCalls DEF Method
  <2> QED
    BY <1>2, <2>1, <2>2, <2>3
<1>4. \A d \in Caller \ {c} : Keeps(d)
  BY <1>3 DEF Asked1, Keeps
<1>5. \/ call'[c] = call[c]
      \/ call'[c].at = "wait" /\ call'[c].method \in {"status", "ready", "complete", "install"}
  BY <1>3 DEF Asked1
<1>6. Typed'
  <2>1. WitnessTyped'
    BY <1>1, AskedWitness DEF IInv, Typed
  <2>2. ready' \in BOOLEAN
    BY <1>3 DEF IInv, Typed, FlagsTyped
  <2> QED
    BY <1>1, <1>3, <2>1, <2>2 DEF IInv, Typed, SlotTyped, CoreTyped, FlightTyped, FlagsTyped
<1>7. CallShape'
  <2>1. Shape(c)'
    BY <1>0, <1>1, <1>5 DEF Shape, Idle
  <2> QED
    BY <1>4, <2>1, KeepsShape, ShapeOfCalls DEF IInv
<1>8. FlightShape' /\ CheckInv'
  <2>1. witness'.condemned = witness.condemned
    BY <1>1, AskedWitness DEF IInv, Typed
  <2> QED
    BY <1>0, <1>1, <1>4, <2>1, FlightUntouched DEF IInv
<1>9. SlotInv'
  <2>1. call[c].at = "idle"
    BY <1>1 DEF Idle
  <2>2. \A d \in Caller : call'[d].at = call[d].at \/ (call[d].at \notin Holding /\ call'[d].at \notin Holding)
    BY <1>4, <1>5, <2>1 DEF Keeps, Holding
  <2> QED
    BY <1>1, <2>2, SlotUntouched DEF IInv
<1>10. InstallInv'
  <2>1. \A d \in Client \ {c} : d \in Installing <=> d \in Installing'
    BY <1>4 DEF Installing, Keeps, Caller
  <2>2. c \notin Installing
    BY <1>1 DEF Installing, Idle
  <2>3. CASE \/ \E m \in {"status", "ready", "complete"} : Asked1(c, m) /\ UNCHANGED <<ready, installs>>
             \/ UNCHANGED <<call, ready, installs>>
    <3>1. c \notin Installing'
      BY <2>2, <2>3 DEF Installing, Asked1
    <3>2. Installing' = Installing
      BY <2>1, <2>2, <3>1 DEF Installing
    <3> QED
      BY <2>3, <3>2 DEF InstallInv, IInv
  <2>4. CASE Asked1(c, "install") /\ installs' = installs + 1 /\ ready' = FALSE
    <3>1. c \in Installing'
      BY <2>4 DEF Installing, Asked1
    <3>2. Installing' = Installing \cup {c}
      BY <2>1, <2>2, <3>1 DEF Installing
    <3>3. Cardinality(Installing') = Cardinality(Installing) + 1
      <4>1. IsFiniteSet(Installing)
        BY ClientAssumption, FS_Subset DEF Installing
      <4> QED
        BY <2>2, <3>2, <4>1, FS_AddElement
    <3> QED
      BY <2>4, <3>3 DEF InstallInv, IInv
  <2> QED
    BY <1>3, <2>3, <2>4
<1>11. StopInv'
  BY <1>0, <1>1, <1>4, AskStops DEF IInv, Typed
<1> QED
  BY <1>6, <1>7, <1>8, <1>9, <1>10, <1>11 DEF IInv
\* The future of a call is dropped.
LEMMA DropStep ==
  ASSUME IInv, NEW c \in Client, DropCaller(c)
  PROVE  IInv'
<1>0. c \in Caller /\ c # Flight /\ Flight \in Caller /\ call \in [Caller -> CallRec]
  BY ClientAssumption DEF Caller, IInv, Typed, CallTyped
<1>1. /\ call' = [call EXCEPT ![c].dropped = TRUE] /\ call[c].at # "idle"
      /\ UNCHANGED <<slot, fresh, switch, core, ready, installs, flight, recovery, forceCpu, stopping, witness>>
  BY DEF DropCaller
<1>2. /\ call' \in [Caller -> CallRec]
      /\ call'[c].at = call[c].at /\ call'[c].method = call[c].method
      /\ \A d \in Caller \ {c} : call'[d] = call[d]
  <2>1. [call[c] EXCEPT !.dropped = TRUE] \in CallRec
    BY <1>0 DEF CallRec
  <2>2. call' = [call EXCEPT ![c] = [call[c] EXCEPT !.dropped = TRUE]]
    BY <1>0, <1>1
  <2>3. call'[c] = [call[c] EXCEPT !.dropped = TRUE] /\ \A d \in Caller \ {c} : call'[d] = call[d]
    BY <1>0, <2>2
  <2>4. call'[c].at = call[c].at /\ call'[c].method = call[c].method
    BY <1>0, <2>3 DEF CallRec
  <2> QED
    BY <1>0, <2>1, <2>2, <2>3, <2>4
<1>3. \A d \in Caller \ {c} : Keeps(d)
  BY <1>2 DEF Keeps
<1>4. Typed'
  BY <1>1, <1>2 DEF IInv, Typed, CallTyped, SlotTyped, CoreTyped, FlightTyped, RecoveryTyped, WitnessTyped, FlagsTyped
<1>5. CallShape'
  <2>1. Shape(c)'
    BY <1>0, <1>1, <1>2, ShapeOfCalls DEF IInv, Shape
  <2> QED
    BY <1>3, <2>1, KeepsShape, ShapeOfCalls DEF IInv
<1>6. FlightShape' /\ CheckInv'
  BY <1>0, <1>1, <1>3, FlightUntouched DEF IInv
<1>7. SlotInv'
  <2>1. \A d \in Caller : call'[d].at = call[d].at
    BY <1>2, <1>3 DEF Keeps
  <2> QED
    BY <1>1, <2>1, SlotUntouched DEF IInv
<1>8. InstallInv'
  <2>1. Installing' = Installing
    BY <1>0, <1>2 DEF Installing, Caller
  <2> QED
    BY <1>1, <2>1 DEF IInv, InstallInv
<1>9. StopInv'
  <2>1. ~NobodyAsks
    BY <1>1 DEF NobodyAsks, Idle
  <2>2. ~Quiet
    BY <2>1 DEF Quiet
  <2> QED
    BY <1>0, <1>1, <1>3, <2>2, LeftoverStays DEF IInv, StopInv
<1> QED
  BY <1>4, <1>5, <1>6, <1>7, <1>8, <1>9 DEF IInv

\* An installation is over.
LEMMA LeaveStep ==
  ASSUME IInv, NEW c \in Client, LeaveInstall(c)
  PROVE  IInv'
<1>0. c \in Caller /\ c # Flight /\ Flight \in Caller /\ call \in [Caller -> CallRec]
  BY ClientAssumption DEF Caller, IInv, Typed, CallTyped
<1>1. /\ call' = [Stale(call) EXCEPT ![c] = Idle] /\ call[c].at = "leave" /\ call[c].method = "install"
      /\ installs' = installs - 1 /\ ready' = FALSE
      /\ UNCHANGED <<slot, fresh, switch, core, flight, recovery, forceCpu, stopping, witness>>
  BY DEF LeaveInstall, Others, IInv, CallShape
<1>2. CallTyped' /\ call'[c] = Idle /\ call'[c].at = "idle" /\ \A d \in Caller \ {c} : Keeps(d)
  <2>1. /\ Stale(call) \in [Caller -> CallRec]
        /\ \A d \in Caller :
             /\ Stale(call)[d].at = call[d].at /\ Stale(call)[d].method = call[d].method
             /\ Stale(call)[d].result = call[d].result /\ Stale(call)[d].dropped = call[d].dropped
             /\ call[d] = Idle => Stale(call)[d] = Idle
    BY <1>0, StaleCalls
  <2>2. CallTyped' /\ call'[c] = Idle /\ \A d \in Caller \ {c} : call'[d] = Stale(call)[d]
    BY <1>0, <1>1, <2>1, IdleTyped DEF CallTyped
  <2>3. \A d \in Caller \ {c} : Keeps(d)
    BY <2>1, <2>2 DEF Keeps
  <2>4. call'[c].at = "idle"
    BY <2>2 DEF Idle
  <2> QED
    BY <2>2, <2>3, <2>4
<1>3. Typed'
  <2>1. FlagsTyped'
    BY <1>1 DEF IInv, Typed, FlagsTyped
  <2> QED
    BY <1>1, <1>2, <2>1 DEF IInv, Typed, SlotTyped, CoreTyped, FlightTyped, RecoveryTyped, WitnessTyped, FlagsTyped
<1>4. CallShape'
  <2>1. Shape(c)'
    BY <1>0, <1>2 DEF Shape, Idle
  <2> QED
    BY <1>2, <2>1, KeepsShape, ShapeOfCalls DEF IInv
<1>5. FlightShape' /\ CheckInv'
  BY <1>0, <1>1, <1>2, FlightUntouched DEF IInv
<1>6. SlotInv'
  <2>1. \A d \in Caller : call'[d].at = call[d].at \/ (call[d].at \notin Holding /\ call'[d].at \notin Holding)
    BY <1>1, <1>2 DEF Keeps, Holding
  <2> QED
    BY <1>1, <2>1, SlotUntouched DEF IInv
<1>7. InstallInv'
  <2>1. \A d \in Client \ {c} : d \in Installing <=> d \in Installing'
    BY <1>2 DEF Installing, Keeps, Caller
  <2>2. c \in Installing /\ c \notin Installing'
    BY <1>1, <1>2 DEF Installing
  <2>3. Installing' = Installing \ {c}
    BY <2>1, <2>2 DEF Installing
  <2>4. IsFiniteSet(Installing)
    BY ClientAssumption, FS_Subset DEF Installing
  <2>5. Cardinality(Installing') = Cardinality(Installing) - 1
    BY <2>2, <2>3, <2>4, FS_RemoveElement
  <2> QED
    BY <1>1, <2>5 DEF InstallInv, IInv
<1>8. StopInv'
  <2>1. ~NobodyAsks
    BY <1>1 DEF NobodyAsks, Idle
  <2>2. ~Quiet
    BY <2>1 DEF Quiet
  <2> QED
    BY <1>0, <1>1, <1>2, <2>2, LeftoverStays DEF IInv, StopInv
<1> QED
  BY <1>3, <1>4, <1>5, <1>6, <1>7, <1>8 DEF IInv

\* A flight begins, from the calls of which one may just have ended.
LEMMA StartFlightStep ==
  ASSUME IInv, NEW calls \in [Caller -> CallRec], NEW inference \in BOOLEAN,
         \A d \in Caller : \/ calls[d] = call[d]
                           \/ d \in Client /\ call[d].at = "react" /\ calls[d] = Idle,
         \/ StartFlight(calls, inference)
         \/ call' = calls /\ UNCHANGED <<flight, ready>>,
         UNCHANGED <<slot, fresh, switch, core, installs, recovery, forceCpu, stopping, witness>>
  PROVE  IInv'
<1>0. Flight \in Caller /\ Flight \notin Client /\ call \in [Caller -> CallRec] /\ Client \subseteq Caller
      /\ calls[Flight] = call[Flight]
  BY ClientAssumption DEF Caller, IInv, Typed, CallTyped
<1>1. \A d \in Caller : \/ calls[d] = call[d]
                        \/ d \in Client /\ call[d].method = "complete" /\ call[d].at = "react"
                           /\ calls[d] = Idle /\ calls[d].at = "idle"
  BY DEF IInv, CallShape, Idle
<1>2. CASE call' = calls /\ UNCHANGED <<flight, ready>>
  <2>1. Keeps(Flight)
    BY <1>0, <1>2 DEF Keeps
  <2>2. Typed'
    BY <1>2 DEF IInv, Typed, CallTyped, SlotTyped, CoreTyped, FlightTyped, RecoveryTyped, WitnessTyped, FlagsTyped
  <2>3. CallShape'
    <3>1. \A d \in Caller : Shape(d)'
      BY <1>0, <1>1, <1>2, ShapeOfCalls DEF IInv, Shape, Idle
    <3> QED
      BY <3>1, ShapeOfCalls
  <2>4. FlightShape' /\ CheckInv'
    BY <1>2, <2>1, FlightUntouched DEF IInv
  <2>5. SlotInv'
    <3>1. \A d \in Caller : call'[d].at = call[d].at \/ (call[d].at \notin Holding /\ call'[d].at \notin Holding)
      BY <1>1, <1>2 DEF Holding
    <3> QED
      BY <3>1, SlotUntouched DEF IInv
  <2>6. InstallInv'
    <3>1. Installing' = Installing
      BY <1>0, <1>1, <1>2 DEF Installing
    <3> QED
      BY <1>2, <3>1 DEF IInv, InstallInv
  <2>7. StopInv'
    <3>1. Quiet => Quiet'
      BY <1>0, <1>1, <1>2 DEF Quiet, NobodyAsks
    <3> QED
      BY <1>2, <2>1, <3>1, LeftoverStays DEF IInv, StopInv
  <2> QED
    BY <2>2, <2>3, <2>4, <2>5, <2>6, <2>7 DEF IInv
<1>3. CASE /\ ~flight.active /\ ~recovery.stopped
           /\ flight' = [active |-> TRUE, inference |-> inference, cancelled |-> FALSE]
           /\ ready' = FALSE
           /\ call' = [Stale(calls) EXCEPT ![Flight] =
                [Idle EXCEPT !.at = "wait", !.method = IF inference THEN "recoverInference" ELSE "ready"]]
  <2>0. call[Flight].at = "idle"
    BY <1>3 DEF IInv, FlightShape
  <2> DEFINE m == IF inference THEN "recoverInference" ELSE "ready"
             f == [Idle EXCEPT !.at = "wait", !.method = m]
  <2>1. m \in Method /\ (m = "recoverInference" <=> inference) /\ m \in {"ready", "recoverInference"}
    BY DEF Method
  <2> HIDE DEF m
  <2>2. f \in CallRec /\ f.at = "wait" /\ f.method = m
    BY <2>1, IdleTyped DEF CallRec, At
  <2>3. call' = [Stale(calls) EXCEPT ![Flight] = f]
    BY <1>3 DEF m
  <2> HIDE DEF f
  <2>4. /\ Stale(calls) \in [Caller -> CallRec]
        /\ \A d \in Caller :
             /\ Stale(calls)[d].at = calls[d].at /\ Stale(calls)[d].method = calls[d].method
             /\ calls[d] = Idle => Stale(calls)[d] = Idle
    BY StaleCalls
  <2>5. CallTyped' /\ call'[Flight] = f
    BY <1>0, <2>2, <2>3, <2>4 DEF CallTyped
  <2>6. \A d \in Client : /\ call'[d].at = calls[d].at /\ call'[d].method = calls[d].method
                          /\ calls[d] = Idle => call'[d] = Idle
    <3>1. \A d \in Client : call'[d] = Stale(calls)[d]
      BY <1>0, <2>3, <2>4
    <3> QED
      BY <1>0, <2>4, <3>1
  <2>7. FlightTyped'
    BY <1>3 DEF FlightTyped
  <2>15. FlagsTyped'
    BY <1>3 DEF IInv, Typed, FlagsTyped
  <2>8. Typed'
    BY <1>3, <2>5, <2>7, <2>15 DEF IInv, Typed, SlotTyped, CoreTyped, RecoveryTyped, WitnessTyped, FlagsTyped
  <2>9. CallShape'
    <3>1. Shape(Flight)'
      BY <1>0, <2>1, <2>2, <2>5 DEF Shape
    <3>2. \A d \in Client : Shape(d)
      BY <1>0, ShapeOfCalls DEF IInv
    <3>3. ASSUME NEW d \in Client PROVE Shape(d)'
      <4>1. CASE calls[d] = Idle
        BY <1>0, <2>6, <4>1 DEF Shape, Idle
      <4>2. CASE calls[d] = call[d]
        BY <1>0, <2>6, <3>2, <4>2 DEF Shape
      <4> QED
        BY <1>0, <1>1, <4>1, <4>2
    <3> QED
      BY <3>1, <3>3, ShapeOfCalls DEF Caller
  <2>10. FlightShape'
    BY <1>3, <2>1, <2>2, <2>5 DEF FlightShape
  <2>11. CheckInv'
    BY <1>3 DEF IInv, CheckInv
  <2>12. SlotInv'
    <3>1. \A d \in Caller : call'[d].at = call[d].at \/ (call[d].at \notin Holding /\ call'[d].at \notin Holding)
      BY <1>0, <1>1, <2>0, <2>2, <2>5, <2>6 DEF Holding, Caller
    <3> QED
      BY <3>1, SlotUntouched DEF IInv
  <2>13. InstallInv'
    <3>1. Installing' = Installing
      BY <1>0, <1>1, <2>6 DEF Installing
    <3> QED
      BY <1>3, <3>1 DEF IInv, InstallInv
  <2>14. StopInv'
    <3>1. ~Quiet /\ \A p : ~Leftover(p)
      BY <1>3, <2>0 DEF Quiet, Leftover
    <3>2. Alive' = Alive
      BY DEF Alive
    <3> QED
      BY <3>1, <3>2 DEF IInv, StopInv
  <2> QED
    BY <2>8, <2>9, <2>10, <2>11, <2>12, <2>13, <2>14 DEF IInv
<1> QED
  BY <1>2, <1>3 DEF StartFlight
-----------------------------------------------------------------------------
(* Each action preserves the invariant                                     *)

LEMMA WorkStep ==
  ASSUME IInv, NEW c \in Caller, Works(c) \/ HelloFails(c) \/ RequestTimeout(c)
  PROVE  IInv'
<1>1. Typed' /\ WorkKind(c) /\ WorkFrame(c)
  BY WorksKind DEF IInv
<1> QED
  BY <1>1, WorkShape, WorkFlight, WorkSlot, WorkInstall, WorkStop, WorkCheck DEF IInv

LEMMA ReactStep ==
  ASSUME IInv, NEW c \in Client, React(c)
  PROVE  IInv'
<1> DEFINE left == [call EXCEPT ![c] = Idle]
<1>1. c \in Caller /\ call \in [Caller -> CallRec] /\ call[c].at = "react"
  BY DEF Caller, IInv, Typed, CallTyped, React
<1>2. left \in [Caller -> CallRec]
  BY <1>1, IdleTyped
<1>3. \A d \in Caller : \/ left[d] = call[d]
                        \/ d \in Client /\ call[d].at = "react" /\ left[d] = Idle
  BY <1>1
<1>4. UNCHANGED <<slot, fresh, switch, core, installs, recovery, forceCpu, stopping, witness>>
  BY DEF React
<1>5. \/ StartFlight(left, TRUE)
      \/ StartFlight(left, FALSE)
      \/ call' = left /\ UNCHANGED <<flight, ready>>
  BY DEF React
<1> HIDE DEF left
<1>6. \E i \in BOOLEAN : StartFlight(left, i) \/ (call' = left /\ UNCHANGED <<flight, ready>>)
  BY <1>5
<1> QED
  BY <1>2, <1>3, <1>4, <1>6, StartFlightStep

LEMMA SessionRestartsStep ==
  ASSUME IInv, SessionRestarts
  PROVE  IInv'
<1>1. call \in [Caller -> CallRec]
  BY DEF IInv, Typed, CallTyped
<1>2. /\ StartFlight(call, FALSE)
      /\ UNCHANGED <<slot, fresh, switch, core, installs, recovery, forceCpu, stopping, witness>>
  BY DEF SessionRestarts
<1> QED
  BY <1>1, <1>2, StartFlightStep

\* Every call goes on as it was.
LEMMA CallsGoOn ==
  ASSUME IInv, \A d \in Caller : Keeps(d), installs' = installs, ready' => ready
  PROVE  CallShape' /\ InstallInv'
<1>1. CallShape'
  BY KeepsShape, ShapeOfCalls DEF IInv
<1>2. Installing' = Installing
  BY DEF Installing, Keeps, Caller
<1> QED
  BY <1>1, <1>2 DEF IInv, InstallInv

LEMMA AllKept ==
  ASSUME CallTyped, call' = call \/ call' = Stale(call)
  PROVE  CallTyped' /\ \A d \in Caller : Keeps(d)
<1>1. CASE call' = call
  BY <1>1 DEF CallTyped, Keeps
<1>2. CASE call' = Stale(call)
  <2>1. call \in [Caller -> CallRec]
    BY DEF CallTyped
  <2>2. /\ Stale(call) \in [Caller -> CallRec]
        /\ \A d \in Caller :
             /\ Stale(call)[d].at = call[d].at /\ Stale(call)[d].method = call[d].method
             /\ Stale(call)[d].result = call[d].result /\ Stale(call)[d].dropped = call[d].dropped
             /\ call[d] = Idle => Stale(call)[d] = Idle
    BY <2>1, StaleCalls
  <2> QED
    BY <1>2, <2>2 DEF CallTyped, Keeps
<1> QED
  BY <1>1, <1>2

LEMMA RetryWaitStep ==
  ASSUME IInv, RetryWaitOver
  PROVE  IInv'
<1>1. /\ UNCHANGED <<call, slot, fresh, switch, core, ready, installs, flight, forceCpu, stopping, witness>>
      /\ RecoveryTyped' /\ recovery'.stopped = recovery.stopped /\ recovery'.cpuLocked = recovery.cpuLocked
  BY DEF RetryWaitOver, IInv, Typed, RecoveryTyped
<1>2. CallTyped' /\ \A d \in Caller : Keeps(d)
  BY <1>1, AllKept DEF IInv, Typed
<1>3. Typed'
  BY <1>1, <1>2 DEF IInv, Typed, SlotTyped, CoreTyped, FlightTyped, WitnessTyped, FlagsTyped
<1>4. CallShape' /\ InstallInv'
  BY <1>1, <1>2, CallsGoOn
<1>5. FlightShape' /\ CheckInv'
  BY <1>1, <1>2, FlightUntouched DEF IInv, Caller
<1>6. SlotInv'
  BY <1>1, SlotUntouched DEF IInv
<1>7. StopInv'
  <2>1. Quiet => Quiet'
    BY <1>1 DEF Quiet, NobodyAsks
  <2> QED
    BY <1>1, <1>2, <2>1, LeftoverStays DEF IInv, StopInv, Caller
<1> QED
  BY <1>3, <1>4, <1>5, <1>6, <1>7 DEF IInv

\* What a process leaves when it or its engine dies.
LEMMA ShrinkStep ==
  ASSUME IInv, CoreTyped', Shrinks,
         UNCHANGED <<call, slot, fresh, switch, ready, installs, flight, recovery,
                     forceCpu, stopping, witness>>
  PROVE  IInv'
<1>1. /\ Alive' \subseteq Alive
      /\ \A p \in Alive' : core'[p].forced = core[p].forced
  BY DEF Alive, Shrinks
<1>2. CallTyped' /\ \A d \in Caller : Keeps(d)
  BY AllKept DEF IInv, Typed
<1>3. Typed'
  BY <1>2 DEF IInv, Typed, SlotTyped, FlightTyped, RecoveryTyped, WitnessTyped, FlagsTyped
<1>4. CallShape' /\ InstallInv'
  BY <1>2, CallsGoOn
<1>5. FlightShape' /\ CheckInv'
  BY <1>2, FlightUntouched DEF IInv, Caller
<1>6. SlotInv'
  BY <1>1 DEF IInv, SlotInv, Holding
<1>7. StopInv'
  <2>1. (Quiet => Quiet') /\ \A p : Leftover(p) => Leftover(p)'
    BY DEF Quiet, NobodyAsks, Leftover
  <2> QED
    BY <1>1, <2>1 DEF IInv, StopInv
<1> QED
  BY <1>3, <1>4, <1>5, <1>6, <1>7 DEF IInv

LEMMA ProcessDiesStep ==
  ASSUME IInv, NEW p \in Pid, ProcessDies(p)
  PROVE  IInv'
<1>1. UNCHANGED <<call, slot, fresh, switch, ready, installs, flight, recovery,
                  forceCpu, stopping, witness>>
  BY DEF ProcessDies
<1>2. CASE core' = [core EXCEPT ![p] = Dead]
  BY <1>1, <1>2, CoreDies, ShrinkStep DEF IInv, Typed
<1>3. CASE core' = [core EXCEPT ![p].well = FALSE]
  <2> DEFINE x == [core[p] EXCEPT !.well = FALSE]
  <2>1. core[p] \in CoreRec
    BY DEF IInv, Typed, CoreTyped
  <2>2. x \in CoreRec /\ x.alive = core[p].alive /\ x.forced = core[p].forced
    BY <2>1 DEF CoreRec
  <2>3. core' = [core EXCEPT ![p] = x]
    BY <1>3 DEF IInv, Typed, CoreTyped
  <2> HIDE DEF x
  <2>4. CoreTyped' /\ Shrinks
    BY <2>2, <2>3, CoreChanges DEF IInv, Typed
  <2> QED
    BY <1>1, <2>4, ShrinkStep
<1> QED
  BY <1>2, <1>3 DEF ProcessDies

\* The flight's worker goes on after its call, and ends.
LEMMA FlightMoves ==
  ASSUME IInv, call[Flight].at \in {"judge", "verdict"}, \A d \in Client : Keeps(d),
         \/ call'[Flight] = Idle /\ flight' = NoFlight
         \/ /\ call'[Flight].at = "verdict" /\ call'[Flight].method = call[Flight].method
            /\ flight' = flight,
         UNCHANGED <<slot, fresh, switch, core, installs, forceCpu, stopping, witness>>,
         recovery'.stopped = recovery.stopped, ready' => ready
  PROVE  CallShape' /\ SlotInv' /\ InstallInv' /\ StopInv'
<1>0. Flight \in Caller /\ Flight \notin Client /\ Client \subseteq Caller
      /\ \A d \in Caller : d \in Client \/ d = Flight
  BY ClientAssumption DEF Caller
<1>1. Idle.at = "idle" /\ Idle.method = "status"
  BY DEF Idle
<1>2. CallShape'
  <2>1. Shape(Flight)
    BY <1>0, ShapeOfCalls DEF IInv
  <2>2. Shape(Flight)'
    BY <1>0, <1>1, <2>1 DEF Shape
  <2>3. \A d \in Client : Shape(d)'
    BY <1>0, KeepsShape DEF IInv
  <2> QED
    BY <1>0, <2>2, <2>3, ShapeOfCalls
<1>3. SlotInv'
  <2>1. \A d \in Caller : call'[d].at = call[d].at \/ (call[d].at \notin Holding /\ call'[d].at \notin Holding)
    BY <1>0, <1>1 DEF Keeps, Holding
  <2> QED
    BY <2>1, SlotUntouched DEF IInv
<1>4. InstallInv'
  <2>1. Installing' = Installing
    BY DEF Installing, Keeps
  <2> QED
    BY <2>1 DEF IInv, InstallInv
<1>5. StopInv'
  <2>1. \A p : ~Leftover(p)
    BY DEF Leftover
  <2>2. Alive' = Alive
    BY DEF Alive
  <2>3. NobodyAsks => NobodyAsks'
    BY DEF NobodyAsks, Keeps
  <2>4. Quiet => Quiet'
    BY <1>1, <2>3 DEF Quiet
  <2> QED
    BY <2>1, <2>2, <2>4 DEF IInv, StopInv
<1> QED
  BY <1>2, <1>3, <1>4, <1>5
LEMMA JudgeStep ==
  ASSUME IInv, JudgeFlight
  PROVE  IInv'
<1>0. Flight \in Caller /\ Flight \notin Client /\ call \in [Caller -> CallRec] /\ Client \subseteq Caller
      /\ call[Flight].at = "judge"
      /\ UNCHANGED <<slot, fresh, switch, core, ready, installs, recovery, forceCpu, stopping, witness>>
  BY ClientAssumption DEF Caller, IInv, Typed, CallTyped, JudgeFlight
<1>1. flight.active /\ (flight.inference <=> call[Flight].method = "recoverInference")
      /\ (flight.cancelled /\ flight.inference => recovery.cpuLocked)
  BY <1>0 DEF IInv, FlightShape
<1>2. CASE flight.cancelled
  <2>1. call' = [call EXCEPT ![Flight] = Idle] /\ flight' = NoFlight
    BY <1>2 DEF JudgeFlight
  <2>2. CallTyped' /\ call'[Flight] = Idle /\ call'[Flight].at = "idle" /\ \A d \in Client : Keeps(d)
    BY <1>0, <2>1, IdleTyped DEF CallTyped, Keeps, Idle
  <2>3. FlightTyped' /\ ~flight'.active /\ ~flight'.cancelled
    BY <2>1 DEF FlightTyped, NoFlight
  <2>4. Typed'
    BY <1>0, <2>2, <2>3 DEF IInv, Typed, SlotTyped, CoreTyped, RecoveryTyped, WitnessTyped, FlagsTyped
  <2>5. CallShape' /\ SlotInv' /\ InstallInv' /\ StopInv'
    BY <1>0, <2>1, <2>2, FlightMoves
  <2>6. FlightShape'
    BY <2>1, <2>2, <2>3 DEF FlightShape
  <2>7. CheckInv'
    BY <1>0, <1>1, <1>2 DEF IInv, CheckInv
  <2> QED
    BY <2>4, <2>5, <2>6, <2>7 DEF IInv
<1>3. CASE ~flight.cancelled
  <2>1. call' = [call EXCEPT ![Flight].at = "verdict"] /\ flight' = flight
    BY <1>3 DEF JudgeFlight
  <2>2. /\ CallTyped'
        /\ call'[Flight].at = "verdict" /\ call'[Flight].method = call[Flight].method
        /\ call'[Flight].result = call[Flight].result
        /\ \A d \in Client : Keeps(d)
    <3>1. call' = [call EXCEPT ![Flight] = [call[Flight] EXCEPT !.at = "verdict"]]
      BY <1>0, <2>1
    <3>2. call[Flight] \in CallRec
      BY <1>0
    <3>3. [call[Flight] EXCEPT !.at = "verdict"] \in CallRec
      BY <3>2 DEF CallRec, At
    <3>4. CallTyped' /\ call'[Flight] = [call[Flight] EXCEPT !.at = "verdict"]
          /\ \A d \in Client : call'[d] = call[d]
      BY <1>0, <3>1, <3>3 DEF CallTyped
    <3> QED
      BY <3>2, <3>4 DEF CallRec, Keeps
  <2>3. Typed'
    BY <1>0, <2>1, <2>2 DEF IInv, Typed, SlotTyped, CoreTyped, FlightTyped, RecoveryTyped, WitnessTyped, FlagsTyped
  <2>4. CallShape' /\ SlotInv' /\ InstallInv' /\ StopInv'
    BY <1>0, <2>1, <2>2, FlightMoves
  <2>5. FlightShape'
    BY <1>0, <1>1, <2>1, <2>2 DEF FlightShape
  <2>6. CheckInv'
    BY <1>0, <2>1, <2>2 DEF IInv, CheckInv
  <2> QED
    BY <2>3, <2>4, <2>5, <2>6 DEF IInv
<1> QED
  BY <1>2, <1>3

LEMMA VerdictStep ==
  ASSUME IInv, Verdict
  PROVE  IInv'
<1> DEFINE result == call[Flight].result
           err == result \notin {"ready", "stopped"}
           calls == IF err THEN Stale(call) ELSE call
           failed == result # "ready"
           due == result = "ready"
           locked == recovery.cpuLocked \/ (err /\ call[Flight].method = "recoverInference")
<1>0. Flight \in Caller /\ Flight \notin Client /\ call \in [Caller -> CallRec] /\ Client \subseteq Caller
      /\ call[Flight].at = "verdict" /\ flight' = NoFlight
      /\ UNCHANGED <<slot, fresh, switch, core, installs, forceCpu, stopping, witness>>
  BY ClientAssumption DEF Caller, IInv, Typed, CallTyped, Verdict
<1>1. /\ recovery' = [recovery EXCEPT !.failed = failed, !.due = due, !.cpuLocked = locked]
      /\ ready' = (ready /\ ~err)
      /\ call' = [calls EXCEPT ![Flight] = Idle]
  BY DEF Verdict
<1>2. failed \in BOOLEAN /\ due \in BOOLEAN /\ locked \in BOOLEAN /\ err \in BOOLEAN
  BY DEF IInv, Typed, RecoveryTyped
<1>3. recovery.cpuLocked => locked
  OBVIOUS
<1>4. err /\ call[Flight].method = "recoverInference" => locked
  OBVIOUS
<1>5. call[Flight].result \in {"error", "transient"} => err
  OBVIOUS
<1>6. /\ calls \in [Caller -> CallRec]
      /\ \A d \in Caller :
           /\ calls[d].at = call[d].at /\ calls[d].method = call[d].method
           /\ calls[d].result = call[d].result /\ calls[d].dropped = call[d].dropped
           /\ call[d] = Idle => calls[d] = Idle
  BY <1>0, StaleCalls
<1> HIDE DEF failed, due, locked, calls, err, result
<1>7. RecoveryTyped' /\ recovery'.stopped = recovery.stopped /\ recovery'.cpuLocked = locked
  BY <1>1, <1>2 DEF IInv, Typed, RecoveryTyped
<1>8. (ready' => ready) /\ ready' \in BOOLEAN
  BY <1>1
<1>9. CallTyped' /\ call'[Flight] = Idle /\ \A d \in Client : call'[d] = calls[d]
  BY <1>0, <1>1, <1>6, IdleTyped DEF CallTyped
<1>10. \A d \in Client : Keeps(d)
  BY <1>0, <1>6, <1>9 DEF Keeps
<1>11. Idle.at = "idle"
  BY DEF Idle
<1>12. FlightTyped' /\ ~flight'.active /\ ~flight'.cancelled
  BY <1>0 DEF FlightTyped, NoFlight
<1>13. FlagsTyped'
  BY <1>0, <1>8 DEF IInv, Typed, FlagsTyped
<1>14. Typed'
  BY <1>0, <1>7, <1>9, <1>12, <1>13 DEF IInv, Typed, SlotTyped, CoreTyped, WitnessTyped
<1>15. CallShape' /\ SlotInv' /\ InstallInv' /\ StopInv'
  BY <1>0, <1>7, <1>8, <1>9, <1>10, FlightMoves
<1>16. FlightShape'
  BY <1>0, <1>9, <1>11, <1>12 DEF FlightShape
<1>17. CheckInv'
  <2>1. witness.condemned => recovery.cpuLocked \/
          (flight.active /\ flight.inference /\ call[Flight].result \in {"error", "transient"})
    BY DEF IInv, CheckInv
  <2>2. flight.active /\ flight.inference => call[Flight].method = "recoverInference"
    BY DEF IInv, FlightShape
  <2>3. witness.condemned => recovery'.cpuLocked
    BY <1>3, <1>4, <1>5, <1>7, <2>1, <2>2
  <2> QED
    BY <1>0, <2>3 DEF CheckInv
<1> QED
  BY <1>14, <1>15, <1>16, <1>17 DEF IInv

LEMMA CancelStep ==
  ASSUME IInv, NEW kind \in {"exit", "restart"}, CancelRecovery(kind)
  PROVE  IInv'
<1> DEFINE locked == recovery.cpuLocked \/ flight.inference
           calm == kind = "exit" /\ NobodyAsks
           steady == IF kind = "exit" THEN witness.steady ELSE NobodyAsks
           condemned == witness.condemned \/ flight.inference
<1>1. /\ UNCHANGED <<call, slot, fresh, switch, core, ready, installs>>
      /\ stopping = "no" /\ stopping' = kind
      /\ recovery' = [recovery EXCEPT !.stopped = TRUE, !.cpuLocked = locked]
      /\ flight' = [flight EXCEPT !.cancelled = flight.active]
      /\ forceCpu' = IF kind = "restart" THEN ~forceCpu ELSE forceCpu
      /\ witness' = [calm |-> calm, steady |-> steady, condemned |-> condemned]
  BY DEF CancelRecovery, Stopped
<1>2. locked \in BOOLEAN /\ calm \in BOOLEAN /\ steady \in BOOLEAN /\ condemned \in BOOLEAN
  BY DEF IInv, Typed, RecoveryTyped, FlightTyped, WitnessTyped, NobodyAsks
<1>3. /\ (locked <=> recovery.cpuLocked \/ flight.inference)
      /\ (condemned <=> witness.condemned \/ flight.inference)
  OBVIOUS
<1>4. (calm => kind = "exit" /\ NobodyAsks) /\ (steady /\ kind = "restart" => NobodyAsks)
      /\ (steady /\ kind = "exit" => witness.steady)
  OBVIOUS
<1> HIDE DEF locked, calm, steady, condemned
<1>5. RecoveryTyped' /\ recovery'.stopped /\ recovery'.cpuLocked = locked
  BY <1>1, <1>2 DEF IInv, Typed, RecoveryTyped
<1>6. WitnessTyped' /\ witness'.calm = calm /\ witness'.steady = steady /\ witness'.condemned = condemned
  BY <1>1, <1>2 DEF WitnessTyped
<1>7. /\ FlightTyped' /\ flight'.active = flight.active /\ flight'.inference = flight.inference
      /\ flight'.cancelled = flight.active
  BY <1>1 DEF IInv, Typed, FlightTyped
<1>8. ~flight.active => flight' = NoFlight
  <2> SUFFICES ASSUME ~flight.active PROVE flight' = NoFlight
    OBVIOUS
  <2>1. flight = NoFlight /\ flight.active = FALSE
    BY DEF IInv, FlightShape, NoFlight
  <2>2. flight' = [NoFlight EXCEPT !.cancelled = FALSE]
    BY <1>1, <2>1
  <2> QED
    BY <2>2 DEF NoFlight
<1>9. FlagsTyped'
  BY <1>1 DEF IInv, Typed, FlagsTyped
<1>10. CallTyped' /\ \A d \in Caller : Keeps(d)
  BY <1>1, AllKept DEF IInv, Typed
<1>11. Typed'
  BY <1>1, <1>5, <1>6, <1>7, <1>9, <1>10 DEF IInv, Typed, SlotTyped, CoreTyped
<1>12. CallShape' /\ InstallInv'
  BY <1>1, <1>10, CallsGoOn
<1>13. SlotInv'
  BY <1>1, SlotUntouched DEF IInv
<1>14. FlightShape'
  BY <1>1, <1>3, <1>5, <1>7, <1>8 DEF IInv, FlightShape
<1>15. CheckInv'
  BY <1>1, <1>3, <1>5, <1>6, <1>7 DEF IInv, CheckInv
<1>16. StopInv'
  <2>1. NobodyAsks => Quiet'
    BY <1>1, <1>5, <1>7 DEF Quiet, NobodyAsks, IInv, FlightShape
  <2>2. ASSUME NEW p, Leftover(p) PROVE Leftover(p)'
    <3>1. flight.active
      BY <2>2 DEF IInv, FlightShape, Leftover
    <3> QED
      BY <1>1, <1>7, <2>2, <3>1 DEF Leftover
  <2>3. Alive' = Alive
    BY <1>1 DEF Alive
  <2>4. kind = "exit" /\ witness.steady => \A p \in Alive' : core'[p].forced = forceCpu' \/ Leftover(p)'
    BY <1>1, <2>2, <2>3 DEF IInv, StopInv
  <2> QED
    BY <1>1, <1>4, <1>6, <2>1, <2>4 DEF StopInv
<1> QED
  BY <1>11, <1>12, <1>13, <1>14, <1>15, <1>16 DEF IInv

LEMMA ForgetStep ==
  ASSUME IInv, ForgetReadiness
  PROVE  IInv'
<1>1. /\ UNCHANGED <<slot, fresh, switch, core, installs, flight, recovery, forceCpu, witness>>
      /\ ~ready' /\ ready' \in BOOLEAN /\ call' = Stale(call)
      /\ \/ stopping = "exit" /\ stopping' = "exit_kill"
         \/ stopping = "restart" /\ stopping' = "restart_kill"
  BY DEF ForgetReadiness
<1>2. CallTyped' /\ \A d \in Caller : Keeps(d)
  BY <1>1, AllKept DEF IInv, Typed
<1>3. FlagsTyped'
  BY <1>1 DEF IInv, Typed, FlagsTyped
<1>4. Typed'
  BY <1>1, <1>2, <1>3 DEF IInv, Typed, SlotTyped, CoreTyped, FlightTyped, RecoveryTyped, WitnessTyped
<1>5. CallShape' /\ InstallInv'
  BY <1>1, <1>2, CallsGoOn
<1>6. FlightShape' /\ CheckInv'
  BY <1>1, <1>2, FlightUntouched DEF IInv, Caller
<1>7. SlotInv'
  <2>1. \A d \in Caller : call'[d].at = call[d].at
    BY <1>2 DEF Keeps
  <2> QED
    BY <1>1, <2>1, SlotUntouched DEF IInv
<1>8. StopInv'
  <2>1. Keeps(Flight)
    BY <1>2 DEF Caller
  <2>2. Quiet => Quiet'
    BY <1>1, <1>2, <2>1 DEF Quiet, NobodyAsks, Keeps, Caller
  <2> QED
    BY <1>1, <2>1, <2>2, LeftoverStays DEF IInv, StopInv
<1> QED
  BY <1>4, <1>5, <1>6, <1>7, <1>8 DEF IInv
\* Whoever a stop does not reach has not been registered yet.
LEMMA KilledOrLeftover ==
  ASSUME IInv, Quiet, NEW p \in Alive, p # switch
  PROVE  Leftover(p)
<1>1. p \in Pid /\ p \in {slot, fresh} /\ (slot \in Alive => switch = slot)
  BY DEF IInv, SlotInv, Alive
<1>2. p = fresh /\ fresh # 0
  BY <1>1, ClientAssumption
<1>3. PICK c \in Caller : call[c].at \in {"register", "hello"}
  BY <1>2 DEF IInv, SlotInv
<1>4. c = Flight
  BY <1>3 DEF Quiet, NobodyAsks, Idle, Caller
<1>5. call[Flight].at = "register"
  BY <1>1, <1>2, <1>3, <1>4 DEF IInv, SlotInv
<1> QED
  BY <1>2, <1>5 DEF Quiet, Leftover

LEMMA ShutdownSlotStep ==
  ASSUME IInv, ShutdownSlot
  PROVE  IInv'
<1>1. /\ UNCHANGED <<call, fresh, ready, installs, flight, recovery, forceCpu, witness>>
      /\ \/ stopping = "exit_kill" /\ stopping' = "no"
         \/ stopping = "restart_kill" /\ stopping' = "restart_clear"
  BY DEF ShutdownSlot
<1>2. PICK k : core' = [p \in Pid |-> IF p = k THEN Dead ELSE core[p]]
  BY DEF ShutdownSlot
<1>3. CoreTyped' /\ Shrinks /\ (k \in Pid => ~core'[k].alive)
  <2>1. ~Dead.alive
    BY DEF Dead
  <2>2. CoreTyped'
    BY <1>2, DeadTyped DEF IInv, Typed, CoreTyped
  <2> QED
    BY <1>2, <2>1, <2>2 DEF Shrinks
<1>4. /\ Alive' \subseteq Alive
      /\ \A p \in Alive' : core'[p].forced = core[p].forced
  BY <1>3 DEF Alive, Shrinks
<1>5. \/ /\ SlotFree /\ slot' = 0 /\ switch' = 0 /\ fresh = 0 /\ Alive' = {}
      \/ /\ ~SlotFree /\ slot' = slot /\ switch' = switch /\ Alive' \subseteq Alive \ {switch}
  <2>1. CASE SlotFree
    <3>1. slot' = 0 /\ switch' = 0 /\ core' = [p \in Pid |-> IF p = slot THEN Dead ELSE core[p]]
      BY <2>1 DEF ShutdownSlot
    <3>2. fresh = 0
      BY <2>1 DEF IInv, SlotInv, SlotFree, Holding
    <3>3. Alive \subseteq {slot, 0} /\ 0 \notin Alive
      BY <3>2, ClientAssumption DEF IInv, SlotInv, Alive
    <3>4. slot \notin Alive'
      BY <3>1 DEF Alive, Dead
    <3> QED
      BY <1>4, <2>1, <3>1, <3>2, <3>3, <3>4
  <2>2. CASE ~SlotFree
    <3>1. slot' = slot /\ switch' = switch /\ core' = [p \in Pid |-> IF p = switch THEN Dead ELSE core[p]]
      BY <2>2 DEF ShutdownSlot
    <3>2. switch \notin Alive'
      BY <3>1 DEF Alive, Dead
    <3> QED
      BY <1>4, <2>2, <3>1, <3>2
  <2> QED
    BY <2>1, <2>2
<1>6. CallTyped' /\ \A d \in Caller : Keeps(d)
  BY <1>1, AllKept DEF IInv, Typed
<1>7. FlagsTyped' /\ SlotTyped'
  BY <1>1, <1>5 DEF IInv, Typed, FlagsTyped, SlotTyped
<1>8. Typed'
  BY <1>1, <1>3, <1>6, <1>7 DEF IInv, Typed, FlightTyped, RecoveryTyped, WitnessTyped
<1>9. CallShape' /\ InstallInv'
  BY <1>1, <1>6, CallsGoOn
<1>10. FlightShape' /\ CheckInv'
  BY <1>1, <1>6, FlightUntouched DEF IInv, Caller
<1>11. SlotInv'
  <2>1. CASE SlotFree /\ slot' = 0 /\ switch' = 0 /\ fresh = 0 /\ Alive' = {}
    BY <1>1, <2>1 DEF IInv, SlotInv, SlotFree, Holding
  <2>2. CASE slot' = slot /\ switch' = switch
    BY <1>1, <1>4, <2>2 DEF IInv, SlotInv, Holding
  <2> QED
    BY <1>5, <2>1, <2>2
<1>12. StopInv'
  <2>1. (Quiet <=> Quiet') /\ \A p : Leftover(p) <=> Leftover(p)'
    BY <1>1 DEF Quiet, NobodyAsks, Leftover
  <2>2. Quiet => \A p \in Alive' : Leftover(p)'
    BY <1>5, <2>1, KilledOrLeftover
  <2>3. stopping = "exit_kill" /\ witness.steady => \A p \in Alive' : core'[p].forced = forceCpu' \/ Leftover(p)'
    BY <1>1, <1>4, <2>1 DEF IInv, StopInv
  <2> QED
    BY <1>1, <2>1, <2>2, <2>3 DEF IInv, StopInv
<1> QED
  BY <1>8, <1>9, <1>10, <1>11, <1>12 DEF IInv

LEMMA RestartClearsStep ==
  ASSUME IInv, RestartClears
  PROVE  IInv'
<1>1. /\ UNCHANGED <<call, slot, fresh, switch, core, ready, installs, flight, forceCpu, witness>>
      /\ RecoveryTyped' /\ recovery'.cpuLocked = recovery.cpuLocked
      /\ stopping = "restart_clear" /\ stopping' = "no"
  BY DEF RestartClears, IInv, Typed, RecoveryTyped
<1>2. CallTyped' /\ \A d \in Caller : Keeps(d)
  BY <1>1, AllKept DEF IInv, Typed
<1>3. FlagsTyped'
  BY <1>1 DEF IInv, Typed, FlagsTyped
<1>4. Typed'
  BY <1>1, <1>2, <1>3 DEF IInv, Typed, SlotTyped, CoreTyped, FlightTyped, WitnessTyped
<1>5. CallShape' /\ InstallInv'
  BY <1>1, <1>2, CallsGoOn
<1>6. FlightShape' /\ CheckInv'
  BY <1>1, <1>2, FlightUntouched DEF IInv, Caller
<1>7. SlotInv'
  BY <1>1, SlotUntouched DEF IInv
<1>8. StopInv'
  <2>1. ~witness.calm
    BY <1>1 DEF IInv, StopInv
  <2> QED
    BY <1>1, <1>2, <2>1, LeftoverStays DEF IInv, StopInv, Caller
<1> QED
  BY <1>4, <1>5, <1>6, <1>7, <1>8 DEF IInv

-----------------------------------------------------------------------------
(* The inductive invariant                                                 *)

LEMMA InitIInv == ClientInit => IInv
<1> SUFFICES ASSUME ClientInit PROVE IInv
  OBVIOUS
<1>0. Flight \in Caller
  BY DEF Caller
<1>1. call \in [Caller -> CallRec] /\ \A c \in Caller : call[c] = Idle
  BY IdleTyped DEF ClientInit
<1>2. Idle.at = "idle" /\ Idle.method = "status"
  BY DEF Idle
<1>3. Alive = {}
  BY DEF ClientInit, Alive, Dead
<1>4. Typed
  <2>1. CoreTyped
    BY DeadTyped DEF ClientInit, CoreTyped
  <2>2. FlightTyped /\ RecoveryTyped /\ WitnessTyped
    BY DEF ClientInit, NoFlight, FlightTyped, RecoveryTyped, WitnessTyped
  <2>3. FlagsTyped /\ SlotTyped
    BY ClientAssumption DEF ClientInit, FlagsTyped, SlotTyped
  <2> QED
    BY <1>1, <2>1, <2>2, <2>3 DEF Typed, CallTyped
<1>5. CallShape
  BY <1>0, <1>1, <1>2 DEF CallShape, Caller
<1>6. FlightShape
  BY <1>0, <1>1, <1>2 DEF FlightShape, ClientInit, NoFlight
<1>7. SlotInv
  BY <1>1, <1>2, <1>3 DEF SlotInv, Holding, ClientInit
<1>8. InstallInv
  <2>1. Installing = {}
    BY <1>1, <1>2 DEF Installing, Caller
  <2> QED
    BY <2>1, FS_EmptySet DEF InstallInv, ClientInit
<1>9. StopInv /\ CheckInv
  BY <1>3 DEF StopInv, CheckInv, ClientInit
<1> QED
  BY <1>4, <1>5, <1>6, <1>7, <1>8, <1>9 DEF IInv

LEMMA StutterIInv ==
  ASSUME IInv, UNCHANGED clientVars
  PROVE  IInv'
<1>1. UNCHANGED <<call, slot, fresh, switch, core, ready, installs, flight, recovery,
                  forceCpu, stopping, witness>>
  BY DEF clientVars
<1>2. CoreTyped' /\ Shrinks
  BY <1>1 DEF IInv, Typed, CoreTyped, Shrinks
<1> QED
  BY <1>1, <1>2, ShrinkStep

LEMMA NextIInv == IInv /\ [ClientNext]_clientVars => IInv'
<1> SUFFICES ASSUME IInv, [ClientNext]_clientVars PROVE IInv'
  OBVIOUS
<1>1. CASE \E c \in Client : Asks(c) \/ DropCaller(c) \/ ClientEnds(c)
  BY <1>1, AsksStep, DropStep, LeaveStep, ReactStep DEF ClientEnds
<1>2. CASE \E c \in Caller : Works(c) \/ HelloFails(c) \/ RequestTimeout(c)
  BY <1>2, WorkStep
<1>3. CASE \E p \in Pid : ProcessDies(p)
  BY <1>3, ProcessDiesStep
<1>4. CASE FlightEnds
  BY <1>4, JudgeStep, VerdictStep DEF FlightEnds
<1>5. CASE SessionRestarts \/ RetryWaitOver
  BY <1>5, SessionRestartsStep, RetryWaitStep
<1>6. CASE CancelRecovery("exit") \/ CancelRecovery("restart")
  BY <1>6, CancelStep
<1>7. CASE Stops
  BY <1>7, ForgetStep, ShutdownSlotStep, RestartClearsStep DEF Stops
<1>8. CASE UNCHANGED clientVars
  BY <1>8, StutterIInv
<1> QED
  BY <1>1, <1>2, <1>3, <1>4, <1>5, <1>6, <1>7, <1>8 DEF ClientNext

\* Whatever the callers, Core and the environment do, each caller is where its
\* method allows, one of them at most has the slot, the processes alive are the
\* ones it knows of, the installations are counted, and a stop leaves at most a
\* cancelled flight with a process it has not registered yet.
THEOREM ClientInvariant == ClientSpec => []IInv
<1>1. ClientInit => IInv
  BY InitIInv
<1>2. IInv /\ [ClientNext]_clientVars => IInv'
  BY NextIInv
<1> QED
  BY <1>1, <1>2, PTL DEF ClientSpec

-----------------------------------------------------------------------------
(* What follows from it                                                    *)

LEMMA InstallsCounted == ASSUME InstallInv PROVE installs \in 0 .. Cardinality(Client)
<1>1. IsFiniteSet(Client) /\ Installing \subseteq Client
  BY ClientAssumption DEF Installing
<1>2. IsFiniteSet(Installing) /\ Cardinality(Installing) <= Cardinality(Client)
  BY <1>1, FS_Subset
<1>3. Cardinality(Installing) \in Nat /\ Cardinality(Client) \in Nat
  BY <1>1, <1>2, FS_CardinalityType
<1> QED
  BY <1>2, <1>3 DEF InstallInv

\* The variables of the client stay within their types; in particular the
\* count of installations never exceeds the number of callers, each guard
\* being dropped once (core_client_readiness.rs, Install).
THEOREM ClientTypeCorrect == ClientSpec => []ClientTypeOK
<1>1. IInv => ClientTypeOK
  BY InstallsCounted, TypedIsTypeOK DEF IInv
<1> QED
  BY <1>1, ClientInvariant, PTL

LEMMA OneAlive ==
  ASSUME IInv
  PROVE  SwitchReaches
<1>1. \E p : Alive \subseteq {p}
  <2>1. CASE fresh = 0
    BY <2>1, ClientAssumption DEF IInv, SlotInv, Alive
  <2>2. CASE fresh # 0
    <3>1. slot = 0
      BY <2>2 DEF IInv, SlotInv
    <3> QED
      BY <3>1, ClientAssumption DEF IInv, SlotInv, Alive
  <2> QED
    BY <2>1, <2>2
<1>2. Cardinality(Alive) <= 1
  <2>1. PICK p : Alive \subseteq {p}
    BY <1>1
  <2>2. IsFiniteSet({p}) /\ Cardinality({p}) = 1
    BY FS_Singleton
  <2>3. Cardinality(Alive) <= Cardinality({p})
    BY <2>1, <2>2, FS_Subset
  <2> QED
    BY <2>2, <2>3
<1> QED
  BY <1>2 DEF IInv, SlotInv, SwitchReaches

\* One Core process lives at a time and the kill switch names it from its
\* registration on; after a shutdown nobody interfered with, none is left when
\* the flight has returned (core_client.rs, shutdown_slot).
THEOREM ShutdownFindsProcess == ClientSpec => []ShutdownReaches
<1>1. IInv => ShutdownReaches
  <2> SUFFICES ASSUME IInv, witness.calm, stopping = "no", call[Flight].at = "idle" PROVE Alive = {}
    BY OneAlive DEF ShutdownReaches
  <2>1. \A p \in Alive : Leftover(p)
    BY DEF IInv, StopInv
  <2>2. \A p : ~Leftover(p)
    BY DEF Leftover
  <2> QED
    BY <2>1, <2>2
<1> QED
  BY <1>1, ClientInvariant, PTL

\* While an installation is asked for the page never shows a ready engine,
\* however late an answer of an earlier generation arrives
\* (core_client_readiness.rs, record).
THEOREM InstallHidesReadiness == ClientSpec => []InstallingIsNotReady
<1>1. IInv => InstallingIsNotReady
  <2> SUFFICES ASSUME IInv, installs > 0 PROVE StatusPage = "busy"
    BY DEF InstallingIsNotReady
  <2>1. ~ready /\ installs # 0
    BY DEF IInv, InstallInv
  <2> QED
    BY <2>1 DEF StatusPage
<1> QED
  BY <1>1, ClientInvariant, PTL

\* No path out of a failed, cut off or cancelled check forgets to bind the
\* application to CPU (core_client_recovery.rs, cancel and record).
THEOREM FailedCheckLocksCpu == ClientSpec => []InterruptedCheckLocksCpu
<1>1. IInv => InterruptedCheckLocksCpu
  BY DEF IInv, CheckInv, InterruptedCheckLocksCpu
<1> QED
  BY <1>1, ClientInvariant, PTL

\* After a change of the CPU setting that nobody asked anything during, what
\* serves was started with it (core_client_config.rs, select_cpu_only).
THEOREM NewConfigServes == ClientSpec => []ChangedConfigApplies
<1>1. IInv => ChangedConfigApplies
  <2> SUFFICES ASSUME IInv, witness.steady, stopping = "no", NEW p \in Alive \cap {slot}
               PROVE  core[p].forced = forceCpu
    BY DEF ChangedConfigApplies
  <2>1. core[p].forced = forceCpu \/ Leftover(p)
    BY DEF IInv, StopInv
  <2>2. p # fresh \/ call[Flight].at # "register"
    BY ClientAssumption DEF IInv, SlotInv, Alive, Caller
  <2> QED
    BY <2>1, <2>2 DEF Leftover
<1> QED
  BY <1>1, ClientInvariant, PTL
=============================================================================
