---------------------------- MODULE FoundryLocal ----------------------------
(***************************************************************************)
(* The legacy engine, a service of another vendor that the shell finds     *)
(* through a command line and asks over HTTP.  Its port changes whenever   *)
(* it restarts and it speaks one of two URL namespaces.  Two backends use  *)
(* it: the translation manager's own, which lives as long as the manager,  *)
(* and one made afresh for every status operation.  They share what the    *)
(* command line said in the last seconds and what the last probe found.    *)
(* Source: llm/foundry_local.rs, llm/transport_http.rs, engine_status*.rs. *)
(***************************************************************************)
EXTENDS Naturals, FiniteSets

CONSTANTS
  MaxUrl,    \* bound: ports the service takes in its lifetimes
  Models,    \* what may be installed
  Instruct,  \* the models tuned to follow instructions
  Thinking,  \* the models that reason before they answer
  Score      \* the weight of a model: accelerator, size and kind

ASSUME FoundryAssumption ==
  MaxUrl \in Nat \ {0} /\ Instruct \subseteq Models /\ Thinking \subseteq Models /\ Score \in [Models -> Nat]

VARIABLES
  service,   \* the service: its port (0 when it is down) and its namespace
  ports,     \* the last port it took
  installed, \* the models on disk
  cli,       \* the shared answers of the command line, and whether they are recent
  probe,     \* the shared result of the last probe and its target
  own,       \* the manager's backend
  line,      \* the translation the manager is at
  fresh,     \* the backend of the status operation
  op,        \* the status operation
  cooling,   \* a start was tried within START_ATTEMPT_COOLDOWN_MS
  answered,  \* history: the ports at which a request was answered
  missed     \* history: lines in a row that asked everywhere but where the service was

externalVars == <<service, ports, installed>>
foundryVars == <<service, ports, installed, cli, probe, own, line, fresh, op, cooling, answered, missed>>

Namespaces == {"openai", "v1"}
Kinds == {"status", "refresh", "prepare", "makeReady", "list"}
NoProbe == [result |-> "none", ok |-> FALSE, url |-> 0, model |-> {}]
NewBackend == [url |-> 0, models |-> {}, ns |-> "unknown"]
NoLine == [at |-> "idle", url |-> 0, reached |-> FALSE, stayed |-> TRUE]
NoOp == [at |-> "idle", kind |-> "status", phase |-> "none", late |-> FALSE]

FoundryInit ==
  /\ service = [url |-> 0, ns |-> "openai"] /\ ports = 0 /\ installed \in SUBSET Models
  /\ cli = [url |-> 0, urlHeld |-> FALSE, models |-> {}, modelsHeld |-> FALSE]
  /\ probe = NoProbe /\ own = NewBackend /\ line = NoLine /\ fresh = NewBackend /\ op = NoOp
  /\ cooling = FALSE /\ answered = {} /\ missed = 0

\* The model taken when none is configured: as a set, empty when there is none.
AutoModel(models) ==
  LET instruct == models \cap Instruct
      tuned == IF instruct # {} THEN instruct ELSE models
      calm == IF tuned \ Thinking # {} THEN tuned \ Thinking ELSE tuned
  IN  IF models = {} THEN {}
      ELSE {CHOOSE m \in calm : \A n \in calm : Score[m] <= Score[n]}

-----------------------------------------------------------------------------
(* What the command line says, asked again when the last answer is old.    *)

UrlRead(c) == IF c.urlHeld THEN c ELSE [c EXCEPT !.url = service.url, !.urlHeld = TRUE]
ModelsRead(c) == IF c.modelsHeld THEN c ELSE [c EXCEPT !.models = installed, !.modelsHeld = TRUE]
Forgotten(c) == [c EXCEPT !.urlHeld = FALSE, !.modelsHeld = FALSE]

\* A plausible bug: what is shared about the old url is kept.
RefreshedKeeps(b, c, p) ==
  LET read == UrlRead(c)
      asks == read.url # 0 /\ b.models = {}
      listed == IF asks THEN ModelsRead(read) ELSE read
  IN  [b |-> [b EXCEPT !.url = read.url, !.models = IF asks THEN listed.models ELSE b.models],
       cli |-> listed, probe |-> p]

\* refresh_service_status of backend b: an url other than the one it had
\* throws away what is shared about the old one.  [b, cli, probe] result.
Refreshed(b, c, p) ==
  LET read == UrlRead(c)
      moved == read.url # b.url
      kept == IF moved THEN Forgotten(read) ELSE read
      asks == read.url # 0 /\ b.models = {}
      listed == IF asks THEN ModelsRead(kept) ELSE kept
  IN  [b |-> [b EXCEPT !.url = read.url, !.models = IF asks THEN listed.models ELSE b.models],
       cli |-> listed,
       probe |-> IF moved THEN NoProbe ELSE p]

Gone(b) == [b EXCEPT !.url = 0, !.ns = "unknown"]

-----------------------------------------------------------------------------
(* A request, over either namespace.                                       *)

Other(ns) == IF ns = "openai" THEN "v1" ELSE "openai"
Preferred(ns) == IF ns = "v1" THEN "v1" ELSE "openai"
\* A plausible bug: a 404 is the end of the request.
TriesOne(ns) == {Preferred(ns)}

\* A 404 on the preferred namespace is followed by one try of the other.
Tries(ns) == {Preferred(ns), Other(Preferred(ns))}
Reaches(b, url) == url # 0 /\ service.url = url /\ service.ns \in Tries(b.ns)
Outcomes(b, url) == IF Reaches(b, url) THEN {"answer", "timeout", "error"} ELSE {"error"}
Learns(b, result) == IF result = "answer" THEN [b EXCEPT !.ns = service.ns] ELSE b

\* What a result leaves in the shared cache, for the target the backend has
\* now; without a target the cache is emptied.
Recorded(b, p, result) ==
  IF b.url = 0 \/ b.models = {} THEN NoProbe
  ELSE [result |-> result, ok |-> result = "answer" \/ p.ok, url |-> b.url, model |-> AutoModel(b.models)]

ForTarget(b, p) == b.url # 0 /\ b.models # {} /\ p.url = b.url /\ p.model = AutoModel(b.models)

\* The phase told without asking the service.
Phase(b, p) ==
  IF b.url = 0 THEN "notRunning"
  ELSE IF b.models = {} THEN "noModels"
  ELSE IF p.ok /\ ForTarget(b, p) THEN "ready"
  ELSE IF ForTarget(b, p) /\ p.result = "timeout" THEN "preparing"
  ELSE IF ForTarget(b, p) /\ p.result = "error" THEN "error"
  ELSE "unchecked"

-----------------------------------------------------------------------------
(* The world: the service starts, stops and restarts elsewhere, models are *)
(* installed, and what is remembered grows old.                            *)

ServiceComes(ns) ==
  /\ service.url = 0 /\ ports < MaxUrl
  /\ ports' = ports + 1 /\ service' = [url |-> ports + 1, ns |-> ns]
ServiceGoes == service.url # 0 /\ service' = [service EXCEPT !.url = 0] /\ UNCHANGED ports

Moves ==
  /\ ServiceGoes \/ \E ns \in Namespaces : ServiceComes(ns)
  /\ missed' = 0 /\ line' = [line EXCEPT !.stayed = (line.at = "idle")]
  /\ UNCHANGED <<installed, cli, probe, own, fresh, op, cooling, answered>>

Ages ==
  /\ \/ cli.urlHeld /\ cli' = [cli EXCEPT !.urlHeld = FALSE] /\ UNCHANGED <<probe, cooling>>
     \/ cli.modelsHeld /\ cli' = [cli EXCEPT !.modelsHeld = FALSE] /\ UNCHANGED <<probe, cooling>>
     \/ probe.result # "none" /\ probe' = [probe EXCEPT !.result = "none"] /\ UNCHANGED <<cli, cooling>>
     \/ probe.ok /\ probe.result = "none" /\ probe' = NoProbe /\ UNCHANGED <<cli, cooling>>
     \/ cooling /\ cooling' = FALSE /\ UNCHANGED <<cli, probe>>
  /\ UNCHANGED <<externalVars, own, line, fresh, op, answered, missed>>

-----------------------------------------------------------------------------
(* A line through the manager's backend.                                   *)

\* The manager skips a backend that has no service or no model.
LineBegins ==
  LET r == IF own.url = 0 THEN Refreshed(own, cli, probe) ELSE [b |-> own, cli |-> cli, probe |-> probe]
  IN  /\ line.at = "idle"
      /\ own' = r.b /\ cli' = r.cli /\ probe' = r.probe
      /\ line' = IF r.b.url # 0 /\ r.b.models # {}
                 THEN [NoLine EXCEPT !.at = "asked", !.url = r.b.url] ELSE NoLine
      /\ UNCHANGED <<externalVars, fresh, op, cooling, answered, missed>>

LineDone(reached) ==
  /\ line' = NoLine
  /\ missed' = IF reached THEN 0 ELSE IF line.stayed /\ service.url # 0 THEN missed + 1 ELSE missed

\* The first request is answered, or fails: the service may have moved, so it
\* is looked for again and the request repeated once.
LineAsked(result) ==
  LET reached == Reaches(own, line.url)
      b == Learns(own, result)
      r == Refreshed(Gone(own), cli, NoProbe)
  IN  /\ line.at = "asked" /\ result \in Outcomes(own, line.url)
      /\ IF result = "answer"
         THEN /\ own' = b /\ probe' = Recorded(b, probe, "answer") /\ cli' = cli
              /\ answered' = answered \union {line.url} /\ LineDone(TRUE)
         ELSE /\ own' = r.b /\ probe' = r.probe /\ cli' = r.cli /\ answered' = answered
              /\ IF r.b.url # 0
                 THEN /\ line' = [line EXCEPT !.at = "again", !.url = r.b.url, !.reached = reached]
                      /\ missed' = missed
                 ELSE LineDone(reached)
      /\ UNCHANGED <<externalVars, fresh, op, cooling>>

LineAgain(result) ==
  LET b == Learns(own, result)
  IN  /\ line.at = "again" /\ result \in Outcomes(own, line.url)
      /\ own' = b
      /\ probe' = IF result = "answer" THEN Recorded(b, probe, "answer") ELSE probe
      /\ answered' = IF result = "answer" THEN answered \union {line.url} ELSE answered
      /\ LineDone(line.reached \/ Reaches(own, line.url))
      /\ UNCHANGED <<externalVars, cli, fresh, op, cooling>>

-----------------------------------------------------------------------------
(* A status operation, each with a backend of its own.                     *)

\* A reading refreshes the backend; what prepares looks for the service first.
OpBegins(kind) ==
  LET sought == [cli EXCEPT !.url = service.url, !.urlHeld = TRUE]
      prepares == kind \in {"prepare", "makeReady"}
      starts == prepares /\ service.url = 0 /\ ~cooling
      r == Refreshed(NewBackend, IF prepares THEN sought ELSE cli, probe)
  IN  /\ op.at = "idle"
      /\ op' = [NoOp EXCEPT !.at = IF starts THEN "starting" ELSE "read", !.kind = kind]
      /\ cooling' = (cooling \/ starts)
      /\ IF starts THEN cli' = sought /\ fresh' = NewBackend /\ probe' = probe
         ELSE fresh' = r.b /\ cli' = r.cli /\ probe' = r.probe
      /\ UNCHANGED <<externalVars, own, line, answered, missed>>

\* The start command returns at once: its service is polled for, until it is
\* there or the time is over.
OpPolls(over) ==
  LET sought == [cli EXCEPT !.url = service.url, !.urlHeld = TRUE]
      r == Refreshed(fresh, sought, probe)
  IN  /\ op.at = "starting"
      /\ IF service.url # 0 \/ over
         THEN fresh' = r.b /\ cli' = r.cli /\ probe' = r.probe /\ op' = [op EXCEPT !.at = "read"]
         ELSE cli' = sought /\ UNCHANGED <<fresh, probe, op>>
      /\ UNCHANGED <<externalVars, own, line, cooling, answered, missed>>

OpEnds(phase) == op' = [NoOp EXCEPT !.at = "done", !.phase = phase]

\* The command line is read for the snapshot, and whether a probe is made
\* depends on what it said.
OpReads ==
  LET url == UrlRead(cli)
      c == IF url.url # 0 THEN ModelsRead(url) ELSE url
      probes == /\ c.url # 0 /\ c.models # {} /\ op.kind # "status"
                /\ ~(op.kind = "refresh" /\ probe.ok /\ ForTarget(fresh, probe))
  IN  /\ op.at = "read" /\ op.kind # "list"
      /\ cli' = c
      /\ IF probes THEN op' = [op EXCEPT !.at = "settling"] ELSE OpEnds(Phase(fresh, probe))
      /\ UNCHANGED <<externalVars, probe, own, line, fresh, cooling, answered, missed>>

\* A service just found is left alone for SERVICE_STABILIZATION_MS.
OpSettles ==
  /\ op.at = "settling" /\ op' = [op EXCEPT !.at = "probing"]
  /\ UNCHANGED <<externalVars, cli, probe, own, line, fresh, cooling, answered, missed>>

\* A plausible bug: a probe that ran out of time found the service alive.
PhaseOfAlive(result) == IF result = "error" THEN "error" ELSE "ready"

PhaseOf(result) == CASE result = "answer" -> "ready" [] result = "timeout" -> "preparing" [] OTHER -> "error"

\* The probe's result is recorded (without an url there is none to record);
\* make ready looks again until its service is ready, gone, or it is late.
OpProbed(result) ==
  LET b == Learns(fresh, result)
      p == IF fresh.url = 0 THEN probe ELSE Recorded(b, probe, result)
      r == Refreshed(b, cli, p)
      url == UrlRead(r.cli)
  IN  /\ op.at = "probing" /\ result \in Outcomes(fresh, fresh.url)
      /\ answered' = IF result = "answer" THEN answered \union {fresh.url} ELSE answered
      /\ IF op.kind # "makeReady" \/ result = "answer"
         THEN fresh' = b /\ probe' = p /\ cli' = cli /\ OpEnds(PhaseOf(result))
         ELSE /\ fresh' = r.b /\ probe' = r.probe
              /\ cli' = IF url.url # 0 THEN ModelsRead(url) ELSE url
              /\ IF url.url = 0 THEN OpEnds("notRunning")
                 ELSE IF op.late THEN OpEnds(PhaseOf(result))
                 ELSE op' = [op EXCEPT !.at = "settling"]
      /\ UNCHANGED <<externalVars, own, line, cooling, missed>>

OpLate ==
  /\ op.at \notin {"idle", "done"} /\ op.kind = "makeReady" /\ ~op.late /\ op' = [op EXCEPT !.late = TRUE]
  /\ UNCHANGED <<externalVars, cli, probe, own, line, fresh, cooling, answered, missed>>

\* The list of models: the service's, the command line's where it has none.
OpLists(result) ==
  /\ op.at = "read" /\ op.kind = "list" /\ result \in Outcomes(fresh, fresh.url)
  /\ fresh' = IF result = "answer" THEN [Learns(fresh, result) EXCEPT !.models = installed] ELSE fresh
  /\ cli' = IF fresh.url = 0 \/ (result = "answer" /\ installed = {}) THEN ModelsRead(cli) ELSE cli
  /\ answered' = IF result = "answer" THEN answered \union {fresh.url} ELSE answered
  /\ OpEnds("none")
  /\ UNCHANGED <<externalVars, probe, own, line, cooling, missed>>

\* The snapshot is handed over, and the backend dropped with it.
OpTold ==
  /\ op.at = "done" /\ op' = NoOp /\ fresh' = NewBackend
  /\ UNCHANGED <<externalVars, cli, probe, own, line, cooling, answered, missed>>

Results == {"answer", "timeout", "error"}
OpSteps == \/ OpReads \/ OpSettles \/ OpTold
           \/ \E r \in Results : OpProbed(r) \/ OpLists(r)
LineSteps == \E r \in Results : LineAsked(r) \/ LineAgain(r)

FoundryNext ==
  \/ Moves \/ Ages \/ LineBegins \/ LineSteps
  \/ \E k \in Kinds : OpBegins(k)
  \/ \E over \in BOOLEAN : OpPolls(over)
  \/ OpSteps \/ OpLate

FoundrySpec == FoundryInit /\ [][FoundryNext]_foundryVars

-----------------------------------------------------------------------------
Urls == 0 .. MaxUrl
Backends == [url : Urls, models : SUBSET Models, ns : Namespaces \union {"unknown"}]

\* The values the variables take.
FoundryTypeOK ==
  /\ service \in [url : Urls, ns : Namespaces] /\ ports \in Urls /\ installed \subseteq Models
  /\ cli \in [url : Urls, urlHeld : BOOLEAN, models : SUBSET Models, modelsHeld : BOOLEAN]
  /\ probe \in [result : Results \union {"none"}, ok : BOOLEAN, url : Urls, model : SUBSET Models]
  /\ own \in Backends /\ fresh \in Backends
  /\ line.at \in {"idle", "asked", "again"} /\ line.url \in Urls
  /\ op.at \in {"idle", "starting", "read", "settling", "probing", "done"} /\ op.kind \in Kinds
  /\ cooling \in BOOLEAN /\ answered \subseteq Urls /\ missed \in Nat

\* While the service stays where it is, at most one line in a row is lost to
\* asking where it was: the shared cache may still name the old port on the
\* first repeat (foundry_local.rs:1503), but it is thrown away then, and a
\* namespace the service does not speak costs a second request, not a line.
FindsMovedService == missed <= 1

\* An operation tells ready only for a port at which a request was answered
\* (foundry_local.rs:1178, 1192): not for the next port of a service that
\* restarted while it was probed, nor after a time out.
ReadyWasAnswered == op.at = "done" /\ op.phase = "ready" => fresh.url \in answered
=============================================================================
