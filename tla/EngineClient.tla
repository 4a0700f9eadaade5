---------------------------- MODULE EngineClient ----------------------------
(***************************************************************************)
(* The application's side of the translation engine: callers that share    *)
(* one Core process behind a mutex, the recovery flight that restarts or   *)
(* checks the engine, the shutdown that kills what it cannot wait for, the *)
(* cached readiness with its generation, and Core's own session as far as  *)
(* these can see it (which engine it serves, whether it is bound to CPU).  *)
(*                                                                         *)
(* A generation is kept as what it is compared for: whether a caller has   *)
(* seen no invalidation since it read the number. A process id stands for  *)
(* the process, its pipes and its kill switch; an id that nothing refers   *)
(* to is used again.                                                       *)
(***************************************************************************)
EXTENDS Naturals, FiniteSets

CONSTANTS
  Client,       \* callers of status_if_idle, ready, install and complete
  Flight,       \* the worker of the recovery flight
  Pid,          \* ids of Core processes
  StartsOnCpu,  \* the CPU setting saved when the application starts
  MaxCalls,     \* bound on the clients' calls
  MaxTroubles,  \* bound on failures, deaths, deadlines and dropped callers
  MaxStops      \* bound on shutdowns and restarts

\* Two ids at least: a process is spawned while a dead one is in the slot.
ASSUME ClientAssumption ==
  /\ Flight \notin Client /\ IsFiniteSet(Client)
  /\ 0 \notin Pid /\ \E p, q \in Pid : p # q
  /\ StartsOnCpu \in BOOLEAN
  /\ {MaxCalls, MaxTroubles, MaxStops} \subseteq Nat

VARIABLES
  call,      \* per caller: where it is, its method, its result, its flags
  slot,      \* TRANSLATION: the process behind the mutex (0: none)
  fresh,     \* a process spawned and not yet in the slot (0: none)
  switch,    \* TRANSLATION_KILL: the process the kill switch names (0: none)
  core,      \* per process: alive, its CPU latch, its start, its engine
  ready,     \* Readiness::status says ready
  installs,  \* Readiness::installs
  flight,    \* RecoveryState::active
  recovery,  \* stopped, failed, due (retry_due), cpuLocked
  forceCpu,  \* LaunchConfig::force_cpu
  stopping,  \* the shutdown in progress: its next step and its kind
  witness,   \* calm: nobody has asked since the exit; steady: nobody was asking
             \* while the configuration changed; condemned: a check failed
  budget     \* what the environment may still do

clientVars == <<call, slot, fresh, switch, core, ready, installs, flight,
                recovery, forceCpu, stopping, witness, budget>>

Caller == Client \cup {Flight}
Method == {"status", "ready", "install", "complete", "recoverInference"}
Idle == [at |-> "idle", method |-> "status", result |-> "none",
         current |-> FALSE, dropped |-> FALSE]
NoFlight == [active |-> FALSE, inference |-> FALSE, cancelled |-> FALSE]
Dead == [alive |-> FALSE, cpu |-> FALSE, forced |-> FALSE, engine |-> "none", well |-> FALSE]
Holding == {"register", "hello", "sent", "restarting", "answered"}

Alive == {p \in Pid : core[p].alive}
SlotFree == \A c \in Caller : call[c].at \notin Holding
Cancelled(c) == IF c = Flight THEN flight.cancelled ELSE call[c].dropped
Spent(what) == [budget EXCEPT ![what] = @ - 1]

ClientInit ==
  /\ call = [c \in Caller |-> Idle]
  /\ slot = 0 /\ fresh = 0 /\ switch = 0
  /\ core = [p \in Pid |-> Dead]
  /\ ready = FALSE /\ installs = 0
  /\ flight = NoFlight
  /\ recovery = [stopped |-> FALSE, failed |-> FALSE, due |-> TRUE, cpuLocked |-> FALSE]
  /\ forceCpu = StartsOnCpu
  /\ stopping = "no"
  /\ witness = [calm |-> FALSE, steady |-> TRUE, condemned |-> FALSE]
  /\ budget = [call |-> MaxCalls, trouble |-> MaxTroubles, stop |-> MaxStops]

-----------------------------------------------------------------------------
(* Readiness and the end of a call.                                        *)

\* Readiness::invalidate, on the callers' side: every generation read is old.
Stale(calls) == [c \in Caller |-> [calls[c] EXCEPT !.current = FALSE]]

\* mutant: only the generation is compared
RecordStatusGeneration(c, said) ==
  ready' = IF call[c].current THEN said ELSE ready

\* Readiness::record; a refused status is handed on as not ready.
RecordStatus(c, said) ==
  ready' = IF call[c].current /\ installs = 0 THEN said ELSE ready

\* Where a caller goes when it gives up the slot.
After(c) == IF c = Flight THEN "judge"
            ELSE CASE call[c].method = "install"  -> "leave"
                   [] call[c].method = "complete" -> "react"
                   [] OTHER                       -> "idle"

\* The call returns: the flight judges its result, a completion is looked at.
Returns(calls, c, result) ==
  [calls EXCEPT ![c] = IF After(c) = "idle" THEN Idle
                       ELSE [@ EXCEPT !.at = After(c), !.result = result, !.current = FALSE]]

\* What the failure of a check condemns.
Failing(c) == IF c = Flight /\ call[c].method = "recoverInference"
              THEN [witness EXCEPT !.condemned = TRUE] ELSE witness

Errs(c) ==
  /\ call' = Returns(call, c, "error") /\ witness' = Failing(c)
  /\ UNCHANGED <<slot, fresh, switch, core, ready, installs>>

\* clear_process, after which the call returns an error.
ClearsAndErrs(c, result) ==
  /\ core' = [core EXCEPT ![slot] = Dead]
  /\ slot' = 0 /\ switch' = 0 /\ ready' = FALSE
  /\ call' = Returns(Stale(call), c, result) /\ witness' = Failing(c)
  /\ UNCHANGED <<fresh, installs>>

-----------------------------------------------------------------------------
(* The calls of the clients.                                               *)

Asked == witness' = [witness EXCEPT !.calm = FALSE, !.steady = @ /\ stopping = "no"]

\* poll_status: busy while an installation is asked for; see SlotTimeout.
PollStatus(c) ==
  /\ call[c] = Idle /\ budget.call > 0
  /\ installs = 0
  /\ call' = [call EXCEPT ![c].at = "wait"]
  /\ Asked /\ budget' = Spent("call")
  /\ UNCHANGED <<slot, fresh, switch, core, ready, installs, flight, recovery, forceCpu, stopping>>

\* ready: an explicit request forgets failure and shutdown.
AskReady(c) ==
  /\ call[c] = Idle /\ budget.call > 0
  /\ recovery' = [recovery EXCEPT !.failed = FALSE, !.due = TRUE, !.stopped = FALSE]
  /\ call' = IF installs > 0 THEN call
             ELSE [call EXCEPT ![c].at = "wait", ![c].method = "ready"]
  /\ Asked /\ budget' = Spent("call")
  /\ UNCHANGED <<slot, fresh, switch, core, ready, installs, flight, forceCpu, stopping>>

\* mutant: readiness is forgotten when the installation ends
AskInstallQuietly(c) ==
  /\ call[c] = Idle /\ budget.call > 0
  /\ installs' = installs + 1
  /\ call' = [Stale(call) EXCEPT ![c].at = "wait", ![c].method = "install"]
  /\ Asked /\ budget' = Spent("call")
  /\ UNCHANGED <<slot, fresh, switch, core, ready, flight, recovery, forceCpu, stopping>>

\* install: Install::begin runs before the worker has the slot.
AskInstall(c) ==
  /\ call[c] = Idle /\ budget.call > 0
  /\ installs' = installs + 1 /\ ready' = FALSE
  /\ call' = [Stale(call) EXCEPT ![c].at = "wait", ![c].method = "install"]
  /\ Asked /\ budget' = Spent("call")
  /\ UNCHANGED <<slot, fresh, switch, core, flight, recovery, forceCpu, stopping>>

\* complete: refused at once while the engine recovers or has failed.
AskComplete(c) ==
  /\ call[c] = Idle /\ budget.call > 0
  /\ ~flight.active /\ ~recovery.failed
  /\ call' = [call EXCEPT ![c].at = "wait", ![c].method = "complete"]
  /\ Asked /\ budget' = Spent("call")
  /\ UNCHANGED <<slot, fresh, switch, core, ready, installs, flight, recovery, forceCpu, stopping>>

\* The future of an asynchronous call is dropped: CancelOnDrop.
DropCaller(c) ==
  /\ call[c].at \notin {"idle", "leave", "react"} /\ ~call[c].dropped
  /\ budget.trouble > 0 /\ budget' = Spent("trouble")
  /\ call' = [call EXCEPT ![c].dropped = TRUE]
  /\ UNCHANGED <<slot, fresh, switch, core, ready, installs, flight, recovery,
                 forceCpu, stopping, witness>>

-----------------------------------------------------------------------------
(* The call itself, by a client or the flight.                             *)

Others == <<flight, recovery, forceCpu, stopping>>

\* acquire_slot without the slot: the deadline passes or the flag is seen;
\* a poll does not wait at all.
SlotTimeout(c) ==
  /\ call[c].at = "wait" /\ ~SlotFree
  /\ call' = Returns(call, c, IF Cancelled(c) THEN "error" ELSE "transient")
  /\ witness' = Failing(c)
  /\ UNCHANGED <<slot, fresh, switch, core, ready, installs, Others, budget>>

Refused(c) ==
  \/ call[c].method = "ready" /\ installs > 0
  \/ Cancelled(c)
  \/ call[c].method = "complete" /\ flight.active

\* The generation is read and the request sent, unless the caller is cancelled
\* by now: then the process outlives it.
SentOn(calls, c) ==
  IF Cancelled(c) THEN Returns(calls, c, "error")
  ELSE [calls EXCEPT ![c].at = "sent", ![c].current = TRUE]

\* A process with its pipes, reader and kill switch; the setting is of now.
SpawnCommand ==
  /\ fresh' = CHOOSE p \in Pid \ (Alive \cup {slot}) : TRUE
  /\ core' = [core EXCEPT ![fresh'] = [Dead EXCEPT !.alive = TRUE, !.forced = forceCpu]]

\* acquire_slot with the slot, and call_locked up to the spawn: refusals, then
\* a dead process is cleared and another one spawned.
CallLocked(c) ==
  /\ call[c].at = "wait" /\ SlotFree
  /\ \/ Refused(c) /\ Errs(c)
     \/ /\ ~Refused(c) /\ slot \in Alive
        /\ call' = SentOn(call, c)
        /\ UNCHANGED <<slot, fresh, switch, core, ready, installs, witness>>
     \/ /\ ~Refused(c) /\ slot \notin Alive
        /\ SpawnCommand
        /\ IF slot = 0 THEN UNCHANGED <<slot, switch, ready>>
           ELSE slot' = 0 /\ switch' = 0 /\ ready' = FALSE
        /\ call' = [(IF slot = 0 THEN call ELSE Stale(call)) EXCEPT ![c].at = "register"]
        /\ UNCHANGED <<installs, witness>>
  /\ UNCHANGED <<Others, budget>>

\* spawn_initialized gives up on the process it has spawned.
Abandons(c) ==
  /\ core' = [core EXCEPT ![fresh] = Dead]
  /\ fresh' = 0 /\ switch' = 0
  /\ call' = Returns(call, c, "error") /\ witness' = Failing(c)
  /\ UNCHANGED <<slot, ready, installs>>

\* mutant: the flag is not looked at again once the process runs
RegisterUnchecked(c) ==
  /\ call[c].at = "register"
  /\ switch' = fresh
  /\ core' = [core EXCEPT ![fresh].cpu = core[fresh].forced \/ recovery.cpuLocked]
  /\ call' = [call EXCEPT ![c].at = "hello"]
  /\ UNCHANGED <<slot, fresh, ready, installs, witness, Others, budget>>

\* The kill switch is published before the flag is read: one of the two sees
\* a shutdown. hello carries the CPU policy of this moment.
Register(c) ==
  /\ call[c].at = "register"
  /\ IF Cancelled(c) THEN Abandons(c)
     ELSE /\ switch' = fresh
          /\ core' = [core EXCEPT ![fresh].cpu = core[fresh].forced \/ recovery.cpuLocked]
          /\ call' = [call EXCEPT ![c].at = "hello"]
          /\ UNCHANGED <<slot, fresh, ready, installs, witness>>
  /\ UNCHANGED <<Others, budget>>

\* mutant: the kill switch is given up when the spawn is over
HelloForgetsSwitch(c) ==
  /\ call[c].at = "hello"
  /\ IF fresh \in Alive
     THEN /\ slot' = fresh /\ fresh' = 0 /\ switch' = 0
          /\ call' = SentOn(call, c)
          /\ witness' = IF Cancelled(c) THEN Failing(c) ELSE witness
          /\ UNCHANGED <<core, ready, installs>>
     ELSE Abandons(c)
  /\ UNCHANGED <<Others, budget>>

\* The answer to hello, or the end of the process. A cancelled caller may
\* still get the answer, and gives up before its own request.
Hello(c) ==
  /\ call[c].at = "hello"
  /\ \/ /\ fresh \in Alive
        /\ slot' = fresh /\ fresh' = 0
        /\ call' = SentOn(call, c)
        /\ witness' = IF Cancelled(c) THEN Failing(c) ELSE witness
        /\ UNCHANGED <<switch, core, ready, installs>>
     \/ (fresh \notin Alive \/ Cancelled(c)) /\ Abandons(c)
  /\ UNCHANGED <<Others, budget>>

\* The spawn fails half way; hello is late, refused or of another version.
HelloFails(c) ==
  /\ call[c].at \in {"register", "hello"} /\ Abandons(c)
  /\ budget.trouble > 0 /\ budget' = Spent("trouble")
  /\ UNCHANGED Others

\* mutant: end of file is not told from a slow answer
RequestDiesUnnoticed(c) ==
  /\ call[c].at \in {"sent", "restarting"}
  /\ Cancelled(c) /\ call[c].method # "complete"
  /\ ClearsAndErrs(c, "transient")
  /\ UNCHANGED <<Others, budget>>

\* Transport::request ends without an answer: end of file, or the flag, which
\* a completion already under way does not look at.
RequestDies(c) ==
  /\ call[c].at \in {"sent", "restarting"}
  /\ \/ ~core[slot].alive
     \/ Cancelled(c) /\ call[c].method # "complete"
  /\ ClearsAndErrs(c, "transient")
  /\ UNCHANGED <<Others, budget>>

\* The watchdog's deadline, or a readiness or installation Core gives up on.
RequestTimeout(c) ==
  /\ call[c].at \in {"sent", "restarting"}
  /\ budget.trouble > 0 /\ budget' = Spent("trouble")
  /\ ClearsAndErrs(c, "transient")
  /\ UNCHANGED Others

\* call_locked after the answer: the CPU lock, the readiness, the result.
Answered(c) ==
  /\ call[c].at = "answered"
  /\ IF call[c].method = "complete"
     THEN UNCHANGED <<ready, recovery>> /\ call' = Returns(call, c, call[c].result)
     ELSE /\ recovery' = [recovery EXCEPT !.cpuLocked =
                            @ \/ (core[slot].cpu /\ ~core[slot].forced)]
          /\ RecordStatus(c, call[c].result = "ready")
          /\ call' = Returns(call, c,
               IF call[c].current /\ installs = 0 THEN call[c].result ELSE "stopped")
  /\ UNCHANGED <<slot, fresh, switch, core, installs, flight, forceCpu, stopping,
                 witness, budget>>

\* mutant: the guard is dropped with the worker and with its caller
LeaveInstallTwice(c) ==
  /\ call[c].at = "leave"
  /\ installs' = installs - (IF call[c].dropped THEN 2 ELSE 1) /\ ready' = FALSE
  /\ call' = [Stale(call) EXCEPT ![c] = Idle]
  /\ UNCHANGED <<slot, fresh, switch, core, Others, witness, budget>>

\* The guard of an installation is dropped by its worker.
LeaveInstall(c) ==
  /\ call[c].at = "leave"
  /\ installs' = installs - 1 /\ ready' = FALSE
  /\ call' = [Stale(call) EXCEPT ![c] = Idle]
  /\ UNCHANGED <<slot, fresh, switch, core, Others, witness, budget>>

-----------------------------------------------------------------------------
(* Core's session behind the pipe.                                         *)

Engine(p) == IF core[p].well THEN core[p].engine ELSE "none"
Serving(p, engine) == [core EXCEPT ![p].engine = engine, ![p].well = engine # "none"]
CoreOnly == <<slot, fresh, switch, installs, flight, forceCpu, stopping, witness>>

Answers(c, result) ==
  call' = [call EXCEPT ![c].at = "answered", ![c].result = result]

\* An error that leaves the process: the readiness goes when it is about that.
RemoteError(c, result) ==
  /\ ready' = (ready /\ result # "transient")
  /\ call' = Returns(IF result = "transient" THEN Stale(call) ELSE call, c, result)
  /\ witness' = Failing(c)
  /\ UNCHANGED <<slot, fresh, switch, installs, flight, forceCpu, stopping>>

\* Session::status stops an engine that is not healthy any more.
CoreStatus(c) ==
  /\ call[c].at = "sent" /\ call[c].method = "status" /\ core[slot].alive
  /\ core' = Serving(slot, Engine(slot))
  /\ Answers(c, IF Engine(slot) = "none" THEN "stopped" ELSE "ready")
  /\ UNCHANGED <<ready, recovery, CoreOnly, budget>>

\* Session::ready: a healthy engine serves on, a GPU start counts after its
\* sample, and a failed one continues on CPU with the lock.
CoreReady(c) ==
  /\ call[c].at = "sent" /\ call[c].method = "ready" /\ core[slot].alive
  /\ \/ /\ Engine(slot) # "none" /\ Answers(c, "ready")
        /\ UNCHANGED <<core, recovery, budget>>
     \/ /\ Engine(slot) = "none" /\ Answers(c, "ready")
        /\ \/ core' = Serving(slot, "cpu")
           \/ ~core[slot].cpu /\ core' = Serving(slot, "gpu")
        /\ UNCHANGED <<recovery, budget>>
     \/ /\ Engine(slot) = "none" /\ ~core[slot].cpu
        /\ budget.trouble > 0 /\ budget' = Spent("trouble")
        /\ core' = [core EXCEPT ![slot] = [@ EXCEPT !.cpu = TRUE, !.engine = "none", !.well = FALSE]]
        /\ recovery' = [recovery EXCEPT !.cpuLocked = TRUE]
        /\ call' = [call EXCEPT ![c].at = "restarting"]
  /\ UNCHANGED <<ready, CoreOnly>>

\* ready or the CPU restart fails; the session stops its engine.
CoreReadyFails(c) ==
  /\ \/ call[c].at = "sent" /\ call[c].method = "ready"
     \/ call[c].at = "restarting"
  /\ core[slot].alive /\ (call[c].at = "sent" => Engine(slot) = "none")
  /\ budget.trouble > 0 /\ budget' = Spent("trouble")
  /\ core' = Serving(slot, "none")
  /\ RemoteError(c, "error")
  /\ UNCHANGED recovery

\* The verified CPU engine that follows a lock.
CoreOnCpu(c) ==
  /\ call[c].at = "restarting" /\ core[slot].alive
  /\ core' = Serving(slot, "cpu")
  /\ Answers(c, "ready")
  /\ UNCHANGED <<ready, recovery, CoreOnly, budget>>

\* The engine is stopped for the installation, which ends well or not.
CoreInstall(c) ==
  /\ call[c].at = "sent" /\ call[c].method = "install" /\ core[slot].alive
  /\ core' = Serving(slot, "none")
  /\ \/ Answers(c, "stopped") /\ UNCHANGED <<ready, CoreOnly, budget>>
     \/ /\ budget.trouble > 0 /\ budget' = Spent("trouble")
        /\ RemoteError(c, "error")
  /\ UNCHANGED recovery

\* A completion needs a healthy engine; its transport may fail, and its output
\* may be rejected by the caller.
CoreComplete(c) ==
  /\ call[c].at = "sent" /\ call[c].method = "complete" /\ core[slot].alive
  /\ \/ /\ Engine(slot) # "none"
        /\ \E said \in {"done", "rejected"} : Answers(c, said)
        /\ UNCHANGED <<core, ready, CoreOnly, budget>>
     \/ /\ Engine(slot) = "none"
        /\ core' = Serving(slot, "none")
        /\ RemoteError(c, "transient") /\ UNCHANGED budget
     \/ /\ budget.trouble > 0 /\ budget' = Spent("trouble")
        /\ RemoteError(c, "transient") /\ UNCHANGED core
  /\ UNCHANGED recovery

\* recover_inference: an old receipt or a good sample leaves the engine; a
\* rejected one on GPU locks CPU, reports it and restarts; on CPU it is over.
CoreRecover(c) ==
  /\ call[c].at = "sent" /\ call[c].method = "recoverInference" /\ core[slot].alive
  /\ \/ /\ core' = Serving(slot, Engine(slot))
        /\ Answers(c, IF Engine(slot) = "none" THEN "stopped" ELSE "ready")
        /\ UNCHANGED <<ready, recovery, CoreOnly>>
     \/ /\ core[slot].engine # "none"
        /\ recovery' = [recovery EXCEPT !.cpuLocked = @ \/ ~core[slot].forced]
        /\ core' = [core EXCEPT ![slot] = [@ EXCEPT !.cpu = TRUE, !.engine = "none", !.well = FALSE]]
        /\ IF core[slot].engine = "gpu"
           THEN /\ call' = [call EXCEPT ![c].at = "restarting"]
                /\ UNCHANGED <<ready, CoreOnly>>
           ELSE RemoteError(c, "error")
  /\ UNCHANGED budget

\* A Core process or its engine dies.
ProcessDies(p) ==
  /\ core[p].alive
  /\ budget.trouble > 0 /\ budget' = Spent("trouble")
  /\ \/ core' = [core EXCEPT ![p] = Dead]
     \/ core[p].well /\ core' = [core EXCEPT ![p].well = FALSE]
  /\ UNCHANGED <<call, slot, fresh, switch, ready, installs, flight, recovery,
                 forceCpu, stopping, witness>>

-----------------------------------------------------------------------------
(* The recovery flight.                                                    *)

\* begin admits one flight, none after a shutdown; the readiness goes.
StartFlight(calls, inference) ==
  IF flight.active \/ recovery.stopped
  THEN call' = calls /\ UNCHANGED <<flight, ready>>
  ELSE /\ flight' = [active |-> TRUE, inference |-> inference, cancelled |-> FALSE]
       /\ ready' = FALSE
       /\ call' = [Stale(calls) EXCEPT ![Flight] =
            [Idle EXCEPT !.at = "wait",
                         !.method = IF inference THEN "recoverInference" ELSE "ready"]]

\* mutant: a failed engine is left to the user
RetryDueNever == ~recovery.failed

\* recover_transport: a stopped engine at once, a failed one after its wait.
RetryDue == recovery.failed => recovery.due

\* What the caller of complete does with its result, unless it is gone.
React(c) ==
  /\ call[c].at = "react"
  /\ LET left == [call EXCEPT ![c] = Idle] IN
     CASE ~call[c].dropped /\ call[c].result = "rejected" -> StartFlight(left, TRUE)
       [] ~call[c].dropped /\ call[c].result = "transient" /\ RetryDue -> StartFlight(left, FALSE)
       [] OTHER -> call' = left /\ UNCHANGED <<flight, ready>>
  /\ UNCHANGED <<slot, fresh, switch, core, installs, recovery, forceCpu, stopping, witness, budget>>

\* engine_needs_restart: a session translates on and finds the engine stopped.
SessionRestarts ==
  /\ ~ready \/ recovery.failed
  /\ RetryDue /\ ~flight.active /\ ~recovery.stopped
  /\ StartFlight(call, FALSE)
  /\ UNCHANGED <<slot, fresh, switch, core, installs, recovery, forceCpu, stopping, witness, budget>>

RetryWaitOver ==
  /\ ~recovery.due
  /\ recovery' = [recovery EXCEPT !.due = TRUE]
  /\ UNCHANGED <<call, slot, fresh, switch, core, ready, installs, flight,
                 forceCpu, stopping, witness, budget>>

\* mutant: a cancelled flight is not taken off
JudgeFlightKept ==
  /\ call[Flight].at = "judge"
  /\ call' = [call EXCEPT ![Flight] = IF flight.cancelled THEN Idle ELSE [@ EXCEPT !.at = "verdict"]]
  /\ UNCHANGED <<slot, fresh, switch, core, ready, installs, Others, witness, budget>>

\* The worker reads its flag once; a cancelled flight is taken off unrecorded.
JudgeFlight ==
  /\ call[Flight].at = "judge"
  /\ IF flight.cancelled
     THEN call' = [call EXCEPT ![Flight] = Idle] /\ flight' = NoFlight
     ELSE call' = [call EXCEPT ![Flight].at = "verdict"] /\ UNCHANGED flight
  /\ UNCHANGED <<slot, fresh, switch, core, ready, installs, recovery, forceCpu,
                 stopping, witness, budget>>

\* record and finish: Ok counts as what the status says, an error binds the
\* application to CPU after a check.
Verdict ==
  /\ call[Flight].at = "verdict"
  /\ LET result == call[Flight].result
         err == result \notin {"ready", "stopped"} IN
     /\ recovery' = [recovery EXCEPT
          !.failed = result # "ready", !.due = result = "ready",
          !.cpuLocked = @ \/ (err /\ call[Flight].method = "recoverInference")]
     /\ ready' = (ready /\ ~err)
     /\ call' = [(IF err THEN Stale(call) ELSE call) EXCEPT ![Flight] = Idle]
  /\ flight' = NoFlight
  /\ UNCHANGED <<slot, fresh, switch, core, installs, forceCpu, stopping, witness, budget>>

-----------------------------------------------------------------------------
(* Shutdown for exit and update, restart for a changed configuration.      *)

NobodyAsks == \A c \in Client : call[c] = Idle

\* What is remembered of the moment of a stop, for the properties.
Stopped(kind) ==
  witness' = [calm |-> kind = "exit" /\ NobodyAsks,
              steady |-> IF kind = "exit" THEN witness.steady ELSE NobodyAsks,
              condemned |-> witness.condemned \/ flight.inference]

\* mutant: a cancelled check says nothing about the GPU
CancelRecoveryKeepsGpu(kind) ==
  /\ stopping = "no" /\ budget.stop > 0 /\ budget' = Spent("stop")
  /\ stopping' = kind
  /\ recovery' = [recovery EXCEPT !.stopped = TRUE]
  /\ flight' = [flight EXCEPT !.cancelled = flight.active]
  /\ forceCpu' = IF kind = "restart" THEN ~forceCpu ELSE forceCpu
  /\ Stopped(kind)
  /\ UNCHANGED <<call, slot, fresh, switch, core, ready, installs>>

\* RecoveryState::cancel, first step of shutdown_owned: at exit, before an
\* update, and for a changed CPU setting, which is stored just before it.
CancelRecovery(kind) ==
  /\ stopping = "no" /\ budget.stop > 0 /\ budget' = Spent("stop")
  /\ stopping' = kind
  /\ recovery' = [recovery EXCEPT !.stopped = TRUE, !.cpuLocked = @ \/ flight.inference]
  /\ flight' = [flight EXCEPT !.cancelled = flight.active]
  /\ forceCpu' = IF kind = "restart" THEN ~forceCpu ELSE forceCpu
  /\ Stopped(kind)
  /\ UNCHANGED <<call, slot, fresh, switch, core, ready, installs>>

\* invalidate_readiness, second step of shutdown_owned
ForgetReadiness ==
  /\ stopping \in {"exit", "restart"}
  /\ stopping' = IF stopping = "exit" THEN "exit_kill" ELSE "restart_kill"
  /\ ready' = FALSE /\ call' = Stale(call)
  /\ UNCHANGED <<slot, fresh, switch, core, installs, flight, recovery, forceCpu, witness, budget>>

\* mutant: a slot in use is left to its user
ShutdownSlotWaits ==
  /\ stopping \in {"exit_kill", "restart_kill"}
  /\ stopping' = IF stopping = "exit_kill" THEN "no" ELSE "restart_clear"
  /\ IF SlotFree
     THEN /\ core' = [p \in Pid |-> IF p = slot THEN Dead ELSE core[p]]
          /\ slot' = 0 /\ switch' = 0
     ELSE UNCHANGED <<core, slot, switch>>
  /\ UNCHANGED <<call, fresh, ready, installs, flight, recovery, forceCpu, witness, budget>>

\* shutdown_slot: takes the process, or kills the one in use by its switch.
ShutdownSlot ==
  /\ stopping \in {"exit_kill", "restart_kill"}
  /\ stopping' = IF stopping = "exit_kill" THEN "no" ELSE "restart_clear"
  /\ IF SlotFree
     THEN /\ core' = [p \in Pid |-> IF p = slot THEN Dead ELSE core[p]]
          /\ slot' = 0 /\ switch' = 0
     ELSE /\ core' = [p \in Pid |-> IF p = switch THEN Dead ELSE core[p]]
          /\ UNCHANGED <<slot, switch>>
  /\ UNCHANGED <<call, fresh, ready, installs, flight, recovery, forceCpu, witness, budget>>

\* restart_owned: clear_failure
RestartClears ==
  /\ stopping = "restart_clear" /\ stopping' = "no"
  /\ recovery' = [recovery EXCEPT !.failed = FALSE, !.due = TRUE, !.stopped = FALSE]
  /\ UNCHANGED <<call, slot, fresh, switch, core, ready, installs, flight, forceCpu, witness, budget>>

\* managed_status and busy_snapshot: what the page shows without a call.
StatusPage == IF ~flight.active /\ installs = 0 /\ SlotFree THEN "asks"
              ELSE IF ready /\ ~flight.active THEN "ready" ELSE "busy"

-----------------------------------------------------------------------------
(* The specification.                                                      *)

Asks(c) == PollStatus(c) \/ AskReady(c) \/ AskInstall(c) \/ AskComplete(c)

CoreAnswers(c) == CoreStatus(c) \/ CoreReady(c) \/ CoreReadyFails(c) \/ CoreOnCpu(c)
                  \/ CoreInstall(c) \/ CoreComplete(c) \/ CoreRecover(c)

\* What the code does next for a caller, deadlines of the slot included.
Works(c) == SlotTimeout(c) \/ CallLocked(c) \/ Register(c) \/ Hello(c)
            \/ RequestDies(c) \/ Answered(c) \/ CoreAnswers(c)

ClientEnds(c) == LeaveInstall(c) \/ React(c)
FlightEnds == JudgeFlight \/ Verdict
Stops == ForgetReadiness \/ ShutdownSlot \/ RestartClears

ClientNext ==
  \/ \E c \in Client : Asks(c) \/ DropCaller(c) \/ ClientEnds(c)
  \/ \E c \in Caller : Works(c) \/ HelloFails(c) \/ RequestTimeout(c)
  \/ \E p \in Pid : ProcessDies(p)
  \/ FlightEnds \/ SessionRestarts \/ RetryWaitOver
  \/ CancelRecovery("exit") \/ CancelRecovery("restart") \/ Stops

\* Threads run, Core answers or dies, waits pass; a session that goes on
\* translating meets the failed engine again. Nobody has to ask or to stop.
ClientFairness ==
  /\ \A c \in Client : WF_clientVars(Works(c) \/ ClientEnds(c))
  /\ WF_clientVars(Works(Flight) \/ FlightEnds)
  /\ WF_clientVars(Stops) /\ WF_clientVars(SessionRestarts) /\ WF_clientVars(RetryWaitOver)

ClientSpec == ClientInit /\ [][ClientNext]_clientVars /\ ClientFairness

-----------------------------------------------------------------------------
(* Properties.                                                             *)

ClientTypeOK ==
  /\ call \in [Caller -> [at : {"idle", "wait", "leave", "react", "judge", "verdict"}
                                 \cup Holding,
                           method : Method, current : BOOLEAN, dropped : BOOLEAN,
                           result : {"none", "ready", "stopped", "done", "rejected",
                                     "transient", "error"}]]
  /\ {slot, fresh, switch} \subseteq Pid \cup {0}
  /\ core \in [Pid -> [alive : BOOLEAN, cpu : BOOLEAN, forced : BOOLEAN,
                        engine : {"none", "gpu", "cpu"}, well : BOOLEAN]]
  /\ ready \in BOOLEAN /\ forceCpu \in BOOLEAN
  /\ installs \in 0 .. Cardinality(Client)
  /\ flight \in [active : BOOLEAN, inference : BOOLEAN, cancelled : BOOLEAN]
  /\ recovery \in [stopped : BOOLEAN, failed : BOOLEAN, due : BOOLEAN, cpuLocked : BOOLEAN]
  /\ stopping \in {"no", "exit", "restart", "exit_kill", "restart_kill", "restart_clear"}
  /\ witness \in [calm : BOOLEAN, steady : BOOLEAN, condemned : BOOLEAN]

\* One Core process at most, in the slot or being started, and from the moment
\* it is registered the kill switch names it, so that a shutdown which cannot
\* have the slot still reaches it (core_client.rs, shutdown_slot).
SwitchReaches ==
  /\ Cardinality(Alive) <= 1 /\ Alive \subseteq {slot, fresh}
  /\ slot \in Alive => switch = slot
  /\ \A c \in Caller : call[c].at = "hello" /\ fresh \in Alive => switch = fresh

\* After a shutdown that nobody asked anything during or since, no Core process
\* is left once the flight it cancelled has returned, however far that flight
\* had come in starting one (update_handoff.rs, main.rs on exit); until then
\* the switch reaches it.
ShutdownReaches ==
  /\ SwitchReaches
  /\ witness.calm /\ stopping = "no" /\ call[Flight].at = "idle" => Alive = {}

\* While an installation is asked for or runs, the status page does not say the
\* engine is ready, whichever answer arrives late
\* (core_client_readiness.rs, Install and record).
InstallingIsNotReady == installs > 0 => StatusPage = "busy"

\* When the recovery flight is over, an inference check that failed, was cut
\* off or was cancelled has bound the application to CPU
\* (core_client_recovery.rs, cancel and start).
InterruptedCheckLocksCpu == witness.condemned /\ ~flight.active => recovery.cpuLocked

\* When nobody was asking during a change of the CPU setting, no process of the
\* old configuration serves after it: a recovery that was starting one is
\* cancelled, its process is killed (core_client_config.rs, select_cpu_only).
ChangedConfigApplies ==
  witness.steady /\ stopping = "no" =>
    \A p \in Alive \cap {slot} : core[p].forced = forceCpu

\* Every request returns: the slot, the spawn, the hello and the request have
\* their deadlines, and a dead process ends its request.  The flight is taken
\* off too, cancelled or not: while it is there no completion is accepted and
\* no other recovery begins.
CallsEnd ==
  /\ \A c \in Client : call[c].at # "idle" ~> call[c].at = "idle"
  /\ flight.active ~> ~flight.active

\* A failed engine does not stay failed while translation goes on: whatever
\* failed, a CPU check included, the session tries it again on its own after a
\* wait, unless the application shuts down (core_client_recovery.rs:138,
\* pipeline_translation.rs:334; #245). The documents and the messages of both
\* programs leave a failed CPU check to an explicit retry (ARCHITECTURE.md:181,
\* core/README.md:139-141, core_client.rs:140).
FailureHeals == recovery.failed ~> (~recovery.failed \/ recovery.stopped)
=============================================================================
