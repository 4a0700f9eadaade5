------------------------------- MODULE OcrWorker -------------------------------
(***************************************************************************)
(* The recognizers of Core's OCR process: one request at a time, each done *)
(* on a blocking thread that holds the worker's lock and that a deadline   *)
(* can only abandon, never stop; native work may outlive a cancellation.   *)
(* Source: ocr_service.rs, ocr/native.rs, src-tauri's ocr/core_ocr.rs.     *)
(***************************************************************************)
EXTENDS Naturals, Sequences

CONSTANTS
  Tags,      \* languages a client asks for
  MaxCalls,  \* bound: requests
  MaxEnds    \* bound: processes the client ends

ASSUME WorkerAssumption == {MaxCalls, MaxEnds} \subseteq Nat

None == "none"
Pp == "pp-ocr"  \* PP-OCRv6 takes no language
Recognizers == Tags \cup {Pp}

VARIABLES
  unusable,  \* OcrService.unusable
  lock,      \* the worker's mutex: "sound", or "poisoned" by a panic
  cached,    \* Worker.windows: the language it was made for, or None
  ppMade,    \* Worker.pp_ocr is made
  jobs,      \* the tasks of bounded_worker, the first holds the lock
  native,    \* recognitions under way, an abandoned one included
  answer,    \* the last answer, [is |-> "ok" or a code, asked |-> , from |-> ]
  fatal,     \* the client was told that this process is of no use
  calls, ends

workerPart == <<unusable, lock, cached, ppMade, jobs, native, answer, fatal, calls, ends>>

WorkerInit ==
  /\ unusable = FALSE /\ lock = "sound" /\ cached = None /\ ppMade = FALSE /\ jobs = <<>> /\ native = 0
  /\ answer = [is |-> None, asked |-> None, from |-> None] /\ fatal = FALSE /\ calls = 0 /\ ends = 0

Attended == \E i \in 1 .. Len(jobs) : jobs[i].attended
Job == Head(jobs)
Holds(at) == jobs # <<>> /\ Job.at = at
JobIs(j) == jobs' = <<j>> \o Tail(jobs)

\* An answer of the process; the client ends a process that gives a fatal one.
Fatal == {"OCR_TIMEOUT", "OCR_PROCESS_UNUSABLE"}
Answers(is, asked, from) ==
  /\ answer' = [is |-> is, asked |-> asked, from |-> from]
  /\ fatal' = (fatal \/ is \in Fatal)
Silent == UNCHANGED <<answer, fatal>>

-----------------------------------------------------------------------------
\* A process of no use refuses whatever it is asked.
Dispatch(method, who) ==
  /\ ~Attended /\ calls < MaxCalls /\ calls' = calls + 1
  /\ IF unusable THEN Answers("OCR_PROCESS_UNUSABLE", who, None) /\ UNCHANGED jobs
     ELSE /\ jobs' = Append(jobs, [method |-> method, who |-> who, at |-> "waiting", result |-> None, attended |-> TRUE])
          /\ Silent
  /\ UNCHANGED <<unusable, lock, cached, ppMade, native, ends>>

\* The lock is had, and the flag looked at again.
JobStarts ==
  /\ Holds("waiting") /\ Silent
  /\ CASE lock = "poisoned" -> JobIs([Job EXCEPT !.at = "done", !.result = "OCR_PROCESS_UNUSABLE"]) /\ UNCHANGED <<cached, ppMade>>
       [] unusable /\ lock = "sound" ->
            /\ JobIs([Job EXCEPT !.at = "done", !.result = "OCR_PROCESS_UNUSABLE"])
            /\ cached' = None /\ ppMade' = FALSE
       [] OTHER -> JobIs([Job EXCEPT !.at = IF Job.method = "languages" THEN "ending" ELSE "engine",
                                     !.result = "ok"]) /\ UNCHANGED <<cached, ppMade>>
  /\ UNCHANGED <<unusable, lock, native, calls, ends>>

\* The engine of the language is made, unless the cached one was made for it.
Recognizes == Job.method = "recognize"
WithEngine == JobIs([Job EXCEPT !.at = IF Recognizes THEN "native" ELSE "ending"])
              /\ native' = IF Recognizes THEN native + 1 ELSE native

\* A plausible bug: whatever engine is cached is used.
WindowsEngineAny(made) ==
  /\ Holds("engine") /\ Job.who # Pp
  /\ IF cached # None \/ made THEN WithEngine /\ cached' = IF cached = None THEN Job.who ELSE cached
     ELSE JobIs([Job EXCEPT !.at = "ending", !.result = "OCR_INIT_FAILED"]) /\ cached' = None /\ UNCHANGED native
  /\ Silent /\ UNCHANGED <<unusable, lock, ppMade, calls, ends>>

WindowsEngine(made) ==
  /\ Holds("engine") /\ Job.who # Pp
  /\ IF cached = Job.who \/ made THEN WithEngine /\ cached' = Job.who
     ELSE JobIs([Job EXCEPT !.at = "ending", !.result = "OCR_INIT_FAILED"]) /\ cached' = None /\ UNCHANGED native
  /\ Silent /\ UNCHANGED <<unusable, lock, ppMade, calls, ends>>

PpEngine(made) ==
  /\ Holds("engine") /\ Job.who = Pp
  /\ IF ppMade \/ made THEN WithEngine /\ ppMade' = TRUE
     ELSE JobIs([Job EXCEPT !.at = "ending", !.result = "OCR_INIT_FAILED"]) /\ UNCHANGED <<ppMade, native>>
  /\ Silent /\ UNCHANGED <<unusable, lock, cached, calls, ends>>

\* A recognition ends; a Windows one may also run out of its time, or lose
\* its notification: its engine is then dropped, and its work may go on.
NativeEnds ==
  /\ Holds("native")
  /\ \/ /\ native' = native - 1 /\ UNCHANGED cached
        /\ \E r \in {"ok", "OCR_ERROR"} : JobIs([Job EXCEPT !.at = "ending", !.result = r])
     \/ /\ Job.who # Pp /\ cached' = None /\ UNCHANGED native
        /\ \E r \in Fatal : JobIs([Job EXCEPT !.at = "ending", !.result = r])
  /\ Silent /\ UNCHANGED <<unusable, lock, ppMade, calls, ends>>

AbandonedEnds ==
  /\ native > (IF Holds("native") THEN 1 ELSE 0) /\ native' = native - 1
  /\ Silent /\ UNCHANGED <<unusable, lock, cached, ppMade, jobs, calls, ends>>

\* A plausible bug: an engine that ran out of time is replaced.
JobChecksPoisonOnly ==
  /\ Holds("ending") /\ JobIs([Job EXCEPT !.at = "done"])
  /\ IF unusable THEN cached' = None /\ ppMade' = FALSE ELSE UNCHANGED <<cached, ppMade>>
  /\ Silent /\ UNCHANGED <<unusable, lock, native, calls, ends>>

\* The end of the job under the lock: a fatal result is remembered, and
\* nothing made is left in a process of no use.
JobChecks ==
  /\ Holds("ending") /\ JobIs([Job EXCEPT !.at = "done"])
  /\ unusable' = (unusable \/ Job.result \in Fatal)
  /\ IF unusable' THEN cached' = None /\ ppMade' = FALSE ELSE UNCHANGED <<cached, ppMade>>
  /\ Silent /\ UNCHANGED <<lock, native, calls, ends>>

JobPanics ==
  /\ \/ Holds("engine") /\ UNCHANGED native
     \/ Holds("native") /\ native' = native - 1
  /\ lock' = "poisoned" /\ jobs' = Tail(jobs) /\ unusable' = TRUE
  /\ IF Job.attended THEN Answers("OCR_PROCESS_UNUSABLE", Job.who, None) ELSE Silent
  /\ UNCHANGED <<cached, ppMade, calls, ends>>

Made(j) == IF j.who = Pp THEN Pp ELSE cached
JobAnswers ==
  /\ Holds("done") /\ jobs' = Tail(jobs)
  /\ IF Job.attended THEN Answers(Job.result, Job.who, Made(Job)) ELSE Silent
  /\ UNCHANGED <<unusable, lock, cached, ppMade, native, calls, ends>>

\* The deadline of the caller, at any point of the job.
Watchdog ==
  /\ Attended /\ unusable' = TRUE
  /\ jobs' = [i \in DOMAIN jobs |-> [jobs[i] EXCEPT !.attended = FALSE]]
  /\ Answers("OCR_TIMEOUT", None, None)
  /\ UNCHANGED <<lock, cached, ppMade, native, calls, ends>>

\* The client ends the process, and its next request starts another.
ProcessEnds ==
  /\ ends < MaxEnds /\ ends' = ends + 1
  /\ unusable' = FALSE /\ lock' = "sound" /\ cached' = None /\ ppMade' = FALSE /\ jobs' = <<>> /\ native' = 0
  /\ answer' = [is |-> None, asked |-> None, from |-> None] /\ fatal' = FALSE
  /\ UNCHANGED calls

Requests ==
  \/ \E who \in Recognizers : Dispatch("initialize", who) \/ Dispatch("recognize", who)
  \/ Dispatch("languages", None)
Engines == \E made \in BOOLEAN : WindowsEngine(made) \/ PpEngine(made)
JobEnds == JobChecks \/ JobPanics \/ JobAnswers

WorkerNext ==
  \/ Requests \/ JobStarts \/ Engines \/ NativeEnds \/ AbandonedEnds \/ JobEnds \/ Watchdog \/ ProcessEnds

WorkerSpec == WorkerInit /\ [][WorkerNext]_workerPart

-----------------------------------------------------------------------------
\* The values the variables take; at most one task is waited for.
WorkerTypeOK ==
  /\ lock \in {"sound", "poisoned"} /\ cached \in Tags \cup {None} /\ native \in 0 .. calls
  /\ calls \in 0 .. MaxCalls /\ ends \in 0 .. MaxEnds
  /\ \A i \in 1 .. Len(jobs) : jobs[i].attended \/ unusable

\* No recognition is begun behind one that did not heed its cancellation
\* (native.rs:121), and once a process was said to be of no use, nothing it
\* answers is a result (ocr_service.rs:271); a result is of the recognizer
\* that was asked for (ocr_service.rs:29).
NothingStacked == native <= 1
ResultsAreSound == answer.is = "ok" => /\ ~fatal
                                       /\ answer.asked # None => answer.from = answer.asked
=============================================================================
