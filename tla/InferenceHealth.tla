--------------------------- MODULE InferenceHealth ---------------------------
(***************************************************************************)
(* How Core judges the answers of the engine it runs: the shell reports an *)
(* answer it rejected by the receipt that came with it, and enough of them *)
(* force the engine off the GPU for the rest of the process.               *)
(* Source: inference_health.rs, inference_recovery.rs, service.rs.         *)
(***************************************************************************)
EXTENDS Naturals, Sequences, FiniteSets

CONSTANTS
  Inputs,     \* hashes of what is asked
  Kept,       \* receipts kept, 16 in the code
  MaxAnswers, \* bound: completions
  MaxEngines  \* bound: engines started

ASSUME HealthAssumption == Kept \in Nat \ {0} /\ {MaxAnswers, MaxEngines} \subseteq Nat

Seqs == INSTANCE SequencesExt

VARIABLES
  engine,    \* the owned engine: "off", "gpu" or "cpu"
  engineNo,  \* how many were started
  cpuLocked, \* the GPU is not used again
  receipts,  \* InferenceHealth.receipts
  answers,   \* InferenceHealth.sequence
  strong,    \* InferenceHealth.strong, an entry is old after a minute
  held,      \* receipts the shell may report, and whether it has
  rejected,  \* inputs rejected for a strong reason within the minute, of this engine
  evidence   \* what the CPU was forced for

healthPart == <<engine, engineNo, cpuLocked, receipts, answers, strong, held, rejected, evidence>>

HealthInit ==
  /\ engine = "off" /\ engineNo = 0 /\ cpuLocked = FALSE /\ receipts = <<>> /\ answers = 0
  /\ strong = <<>> /\ held = {} /\ rejected = {} /\ evidence = [sample |-> FALSE, inputs |-> 0]

-----------------------------------------------------------------------------
\* A plausible bug: what the engine before gave is held against the next.
StopKeepsEvidence(next) == engine' = next /\ receipts' = <<>> /\ rejected' = {} /\ UNCHANGED strong

\* Session::stop and what may follow it.
Stop(next) == engine' = next /\ receipts' = <<>> /\ strong' = <<>> /\ rejected' = {}

Starts(next) == engineNo < MaxEngines /\ engineNo' = engineNo + 1 /\ Stop(next)

Ready ==
  /\ engine = "off" /\ \E next \in (IF cpuLocked THEN {"cpu"} ELSE {"cpu", "gpu"}) : Starts(next)
  /\ UNCHANGED <<cpuLocked, answers, held, evidence>>

\* A runtime found dead when it is asked is stopped.
CompleteUnhealthy == engine # "off" /\ Stop("off") /\ UNCHANGED <<engineNo, cpuLocked, answers, held, evidence>>

Last(s, n) == SubSeq(s, IF Len(s) > n THEN Len(s) - n + 1 ELSE 1, Len(s))

\* A plausible bug: one receipt fewer is kept.
RecordKeepsFewer(r) == receipts' = Last(Append(receipts, r), Kept - 1)

Record(r) == receipts' = Last(Append(receipts, r), Kept)

Complete(input, capped) ==
  LET r == [id |-> answers + 1, input |-> input, capped |-> capped]
  IN  /\ engine # "off" /\ answers < MaxAnswers /\ answers' = answers + 1 /\ Record(r)
      /\ held' = held \cup {[id |-> r.id, input |-> input, capped |-> capped, of |-> engineNo, reported |-> FALSE]}
      /\ UNCHANGED <<engine, engineNo, cpuLocked, strong, rejected, evidence>>

\* A minute after the first n of the strong rejections.
StrongAges(n) ==
  /\ \E i \in 1 .. n : ~strong[i].old
  /\ strong' = [i \in DOMAIN strong |-> [strong[i] EXCEPT !.old = @ \/ i <= n]]
  /\ rejected' = rejected \ {strong[i].input : i \in 1 .. n}
  /\ UNCHANGED <<engine, engineNo, cpuLocked, receipts, answers, held, evidence>>

-----------------------------------------------------------------------------
(* InferenceHealth::report and the recovery it may ask for.                *)

\* Entries are in the order of time: retain drops the old ones, which come first.
Fresh(s) == SubSeq(s, Cardinality({i \in DOMAIN s : s[i].old}) + 1, Len(s))

\* A plausible bug: the same input, asked twice, counts twice.
CountedTwice(s, input) == Append(s, [input |-> input, old |-> FALSE])

Counted(s, input) ==
  IF \E i \in DOMAIN s : s[i].input = input THEN s ELSE Append(s, [input |-> input, old |-> FALSE])

\* The lock comes first: a recovery that is cut off must not come back to the
\* GPU.  What was on the CPU already is stopped and asked for again.
ForceCpu(sample, against) ==
  /\ cpuLocked' = TRUE
  /\ evidence' = IF cpuLocked THEN evidence ELSE [sample |-> sample, inputs |-> Cardinality(against)]
  /\ IF engine = "gpu" /\ engineNo < MaxEngines
     THEN \/ engineNo' = engineNo + 1 /\ engine' = "cpu"
          \/ engineNo' = engineNo /\ engine' = "off"
     ELSE engineNo' = engineNo /\ engine' = "off"
  /\ receipts' = <<>> /\ strong' = <<>> /\ rejected' = {}

Heard(h, reason) ==
  LET s == Fresh(strong)
      isStrong == reason = "strong" \/ (reason = "too_long" /\ h.capped)
      counted == IF isStrong THEN Counted(s, h.input) ELSE s
      against == IF isStrong THEN rejected \cup {h.input} ELSE rejected
      repeated == Len(counted) >= 2
  IN  \/ /\ ~repeated  \* a sample shows the engine sound
         /\ strong' = counted /\ rejected' = against
         /\ \E i \in DOMAIN receipts : receipts[i].id = h.id /\ receipts' = Seqs!RemoveAt(receipts, i)
         /\ UNCHANGED <<engine, engineNo, cpuLocked, evidence>>
      \/ ForceCpu(~repeated, against)

Report(h, reason) ==
  /\ held' = (held \ {h}) \cup {[h EXCEPT !.reported = TRUE]} /\ UNCHANGED answers
  /\ IF \E i \in DOMAIN receipts : receipts[i].id = h.id
     THEN Heard(h, reason)
     ELSE UNCHANGED <<engine, engineNo, cpuLocked, receipts, strong, rejected, evidence>>

-----------------------------------------------------------------------------
Completes == CompleteUnhealthy \/ \E input \in Inputs, capped \in BOOLEAN : Complete(input, capped)
Reports == \E h \in held, reason \in {"strong", "too_long", "weak"} : Report(h, reason)

HealthNext == Ready \/ Completes \/ (\E n \in 1 .. Len(strong) : StrongAges(n)) \/ Reports

HealthSpec == HealthInit /\ [][HealthNext]_healthPart

-----------------------------------------------------------------------------
\* The values the variables take.
HealthTypeOK ==
  /\ engine \in {"off", "gpu", "cpu"} /\ engineNo \in 0 .. MaxEngines /\ answers \in 0 .. MaxAnswers
  /\ Len(receipts) <= Kept /\ Len(strong) <= 2 /\ rejected \subseteq Inputs
  /\ cpuLocked => engine # "gpu"

\* The GPU is given up for a failed check, or for two different inputs this
\* engine failed within a minute: neither for one input asked again, nor for
\* what another engine answered (inference_health.rs:87, 95).
CpuForcedOnEvidence == cpuLocked => evidence.sample \/ evidence.inputs >= 2

\* A rejection of one of the last answers of a running engine is heard,
\* whatever was answered since (inference_health.rs:68).
RejectionHeard ==
  \A h \in held : h.of = engineNo /\ engine # "off" /\ ~h.reported /\ h.id > answers - Kept =>
    \E i \in DOMAIN receipts : receipts[i].id = h.id
=============================================================================
