# Meowcal Sub: TLA+ models, checks and proofs

Meowcal Sub captures a region of the screen, reads the subtitle in it, has it
translated by a local engine and shows the result in an overlay. This directory
holds the TLA+ modules that model its concurrent parts, the TLC configurations
that check them on small instances, and the theorems that TLAPS proves of every
instance. Paths below are relative to the repository; `src-tauri`, `core` and
`src-winui3` lie under `src/`, the pages' scripts under `src/src/`.

## 1. The system and its parts

| part | code | state it keeps | operations | interacts with |
| --- | --- | --- | --- | --- |
| Session lifecycle | `src-tauri/src/commands.rs` (`start_translation`, `stop_translation`), `session_lifecycle.rs`, `overlay/commands.rs`, `update_handoff.rs` | control mutex, `is_running`, stop signal, task slot | Start, Stop, Exit, update handoff, cleanup of the capture task | clock, overlay, capture loop |
| Capture loop | `commands.rs:540-842`, `pipeline_*.rs`, `ocr_recent_lines.rs` | remembered lines, notices, last attempt, region seen last | capture, OCR, filter, hand over | clock, translator, region |
| Screen capture | `capture/graphics_capture.rs`, `capture/mod.rs`, `commands.rs:284-350` | global capture session, frames, last buffer, failure count | open, take a frame, recover, fall back, close | capture loop, selector |
| Pipeline clock | `pipeline_session.rs`, `app_state.rs` | session, capture and translation ids | begin, claim, invalidate, compare | everything that publishes |
| Translator slot | `pipeline_translation.rs`, `pipeline_deadline.rs` | `in_flight`, `last_backend_was_mock` | try_spawn, run, deadline, abandon | engine, overlay |
| Translation manager | `llm/manager.rs`, `translation_planner.rs`, `translation_attempt.rs`, `context*.rs` | context window, context tier, recent translations | translate, retry, degrade, reset, summarize | engine |
| Legacy engine service | `llm/foundry_local.rs`, `transport_http.rs`, `engine_status_legacy.rs`, `engine_status_make_ready.rs` | service url and namespace, command line cache, probe cache | probe, start, list, translate, status | manager, status page |
| Core client | `core_client*.rs`, `engine_recovery.rs`, `engine_status.rs` | process slot, kill switch, readiness, recovery flight, CPU policy | request, recover, restart, shut down | Core |
| Core service | `core/src/service.rs`, `installer.rs`, `engine_*.rs`, `hy_mt_*.rs`, `inference_*.rs`, `storage*.rs` | leases, installation record, receipts, child process | install, repair, serve, recover, reclaim | file system, llama.cpp |
| Core OCR | `core/src/ocr_service.rs`, `core/src/ocr/native.rs`, `ocr/core_ocr.rs` | worker lock, cached engine, `unusable` | recognize with a deadline, abandon, reset | capture loop |
| Band admission | `ocr/band_*.rs` | tracked bands, cues, verdicts | observe, settle, admit | capture loop |
| Settings | `config_store.rs`, `config_save.rs`, `src/ui/app-controller.ts`, `settings-writer.ts` | configuration in memory, on disk and in its backup; the windows' copies | launch, recover, save, edit, refresh | every part |
| Overlay window | `overlay/`, `scripts/overlay*.js` | frame, timers, click-through, clip, liveness | show, hide, fade, drag, reload | capture loop |
| Overlay IPC and native host | `ipc/server.rs`, `src-winui3/OverlayHost` | client slot, pipe, overlay window, selector | connect, send, reconnect, hover, select | overlay window |
| Area selector | `selector_window.rs`, `scripts/selector.js` | reused window, box, phase | open, draw, move, confirm, cancel | region, overlay |
| Setup | `wizard_window.rs`, `src/ui/meowcal-setup.ts`, `setup-steps.ts` | step, licence, one preparation | open, prepare, verify, retry, close | Core client |
| Main window | `src/ui/*.ts` | UI snapshot, engine readiness | start, stop, refresh, prewarm | commands |

What makes it hard: Start and Stop cross five awaits while the capture loop
they control runs; a capture is synchronous and can be neither interrupted nor
timed; results of OCR and of the model arrive after the screen, the region or
the session they describe is gone; one slot, one mutex and three counters keep
them apart; the engine is a child process that hangs, dies and is restarted;
its files are replaced by an installer that may be killed between two renames;
windows are hidden and shown again with the timers, the boxes and the beliefs
of the time before.

### What makes each part correct

* Session lifecycle: one capture task at a time; a Stop that answers Ok means
  it has exited; a Stop that fails can be retried and lets no second session in;
  every running loop can be reached by the next Stop; the tail of an old session
  (cleanup, fade) never damages a new one; every Stop answers.
* Pipeline and clock: a result is shown only if it is still wanted; results are
  accepted in the order of their captures; the slot is always given back; no
  line is lost because an earlier one was slow; the overlay does not go blank
  while the subtitle is there.
* Translation manager: a line and a summary end; a tier lowered by one line is
  not raised by an older one; nothing of a scene that ended is evidence (an aim
  that the code does not reach: section 6).
* Installation and storage: an engine runs from verified files only, and they
  change only while nobody runs from them; Ok means installed; no failure loses
  the last verified copy; every request is answered.
* Core client: a shutdown reaches every process; readiness is never claimed
  over an installation; an interrupted check ends the GPU; calls and recoveries
  end; a failed engine is tried again.
* Engines: a legacy service that moved is found; ready is told of what answered;
  recognitions are not stacked; the GPU is given up on evidence only.
* Overlay, pipe, native host: a running session has its frame, where the shell
  captures; no clean-up of an old session hides it; the clicks beside it pass;
  the newest client receives; the clip follows what is drawn.
* Windows: saved means written; a busy engine is asked again; the setup works
  or offers a retry; the selector shows the stored area.
* Settings: the user's settings survive damage, locks, crashes and overlapping
  saves in one of the two files (up to one loss that section 6 shows).

The hazards, with the line where each one bites and the property that would
catch it, are `hazards` in `PROJECT.json`.

## 2. Modules

| module | models | how it is used |
| --- | --- | --- |
| `TranslationSession` | abstract: what Start and Stop promise together | refined by `SessionLifecycle` |
| `SessionLifecycle` | the commands, the control mutex, the life of the capture task | `MCSessionLifecycle`, `SessionLifecycleProofs` |
| `TranslationPipeline` | capture loop, translation slot, clock, region, overlay's acceptance | `MCTranslationPipeline`, `TranslationPipelineProofs` |
| `StoreContract` | abstract: an engine runs from verified files, which change only while none does | refined by `EngineStore` |
| `EngineStore` | leases, verified start, install, repair, reclaim, crash | `MCEngineStore`, `EngineStoreProofs` |
| `EngineClient` | the Core process slot, its callers, the recovery flight, shutdown, Core's session | `MCEngineClient`, `EngineClientProofs` |
| `ContextWindow` | the manager's line, its tiers and attempts, history, recent translations, summary | `MCShell`, `ContextWindowProofs` |
| `SettingsStore` | config.json and its backup: launch, recovery, overlapping saves | `MCShell`, `SettingsStoreProofs` |
| `OverlayHost` | the page's liveness with the recovery of a show; the pipe server's client slot | `MCShell`, `ShellProofs` |
| `BandAdmission` | one band of readings: cue, history, verdict | `MCShell`, `ShellProofs` |
| `EngineStatus` | the main window's view of the engine: reads, rechecks, preparations, start | `MCShell`, `ShellProofs` |
| `OverlayPage` | the overlay page: frame, drags, click-through | `MCShell`, `ShellProofs` |
| `SetupWizard` | the setup window, its page and its preparations | `MCShell`, `ShellProofs` |
| `FoundryLocal` | the legacy engine service, found and asked by two backends | `MCDesk`, `DeskProofs` |
| `NativeHost` | the native overlay host: pipe loop, overlay window, selector | `MCDesk`, `native_reconnect`, `DeskProofs` |
| `SettingsEdits` | the main window's edits and ordered writes beside the overlay's menu | `MCDesk`, `DeskProofs` |
| `OverlayClip` | the loop that clips the overlay window to what is drawn | `MCDesk`, `DeskProofs` |
| `RegionSelector` | the page of the reused selector window | `MCDesk`, `DeskProofs` |
| `OcrWorker` | the recognizers of one OCR process, deadlines and abandoned jobs | `MCDesk`, `DeskProofs` |
| `InferenceHealth` | receipts and the evidence that forces the CPU | `MCDesk`, `DeskProofs` |
| `ScreenCapture` | capture session, frames, recovery, fallback | `MCDesk`, `DeskProofs` |

**Composition.** `SessionLifecycle` and `TranslationPipeline` are split where the
code splits them. The first knows that a capture loop lives, is told to stop, may
be inside a synchronous capture and ends; it does not know what the loop reads.
The second knows what one loop after another reads and publishes; it takes from
the first that there is one loop at a time and that Start and Stop are serialized
(`AtMostOneCapture`, and the control mutex of `Implementation`). `EngineClient`
contains Core's session as far as the client sees it; what the files under it
are is `EngineStore`.

`MCShell` and `MCDesk` gather parts that share no state with each other: the
next-state relation is a sum, one part is chosen in the initial state and moves,
and the others keep theirs. The behaviours of a sum are those of its parts, so an
invariant of the sum is the conjunction of the parts' invariants, and a formula
`[]<>~(P \/ Q)` with `P` of one part and `Q` of another says both; nothing about
interaction is claimed, because the code has none between them. Each part keeps
its own specification (`ContextNext`, `SettingsNext`, ...).

`map` in `PROJECT.json` names the lines behind the definitions. A group such as
`EngineClient!Works` stands for the lines its disjuncts share; a disjunct that
has no entry of its own is covered by the group it belongs to.
The pages' scripts and the native host are the sources named in the header of
their modules; of their handlers only the main ones have entries.

### How state and actions correspond to the code: SessionLifecycle

| variable | code |
| --- | --- |
| `control` | `SessionLifecycle::control`, the async mutex (`session_lifecycle.rs`) |
| `slot`, `monitored`, `done` | `SessionLifecycle::task`, the monitor's join handle, its `done` watch channel |
| `isRunning`, `stopSignal` | `AppState::is_running`, `AppState::stop_signal` |
| `current` | `PipelineClock`'s session id, as the task it belongs to |
| `captureSession` | `graphics_capture::CAPTURE_SESSION` |
| `overlay` | what the overlay window was told last |
| `loop[t]`, `told[t]`, `aborted[t]` | where the capture task is, its stop channel, `abort()` |
| `pc[c]`, `kind[c]`, `mine[c]` | an invocation of a command, as a Tauri async handler |

Every await of a handler ends an action, and every store that another task can
see has one of its own. `Start*` is `start_translation`, `Stop*` is
`stop_translation` with `wait_stopped`, `Loop*` the spawned task, `Cleanup*` its
`defer!` guard (close the capture, clear `is_running`), `MonitorDone` the
awaiter. `exit_translation` and `prepare_for_update` run a Stop and then a step
of their own. A tokio abort takes effect where the task awaits, which is why
`LoopDropped` is enabled only at such places, and `LoopCapture` cannot be
aborted. `SpawnMayStarve` lets a spawned task stay unpolled for as long as a
Stop waits.

### TranslationPipeline

| variable | code |
| --- | --- |
| `session`, `capture`, `translation` | the three atomics of `PipelineClock`, each store a step |
| `ctl`, `stopId`, `told` | how far Start or Stop is, the watch channels |
| `region`, `scale`, `setter` | the two mutexes behind `AppState::set_capture_region`, and where that call is |
| `moves` | completed calls of it (no counterpart in the code; read by properties only) |
| `lpc`, `ls`, `rect`, `seen`, `token`, `read` | the capture loop and its locals |
| `recent` | `RecentLines` |
| `showing`, `empties` | `Notices` |
| `mock[s]` | `Translator::last_backend_was_mock` |
| `task[s]` | the translation task of session `s`, `NoTask` when `in_flight` is FALSE |
| `last`, `shown` | the overlay page: last accepted position, text on show |
| `said` | lines shown since `recent` was cleared (for properties only) |

One pass of the loop is `LoopRegion`, `LoopScale`, `LoopToken`, `LoopCapture`,
`LoopOcr` and one of `LoopQuiet`, `LoopUnreadable`, `LoopLine` (with `LoopSpawn`
when the line is handed over). `Claim` .. `Release` are `Translator::run`, its
deadline and its drop guard. What the loop asks of a text is abstracted to an
operator each: `Reads` what `ocr_gate.rs` lets through, `Repeats` the comparison
of `ocr_stability.rs` (equality), `Kept` which of the remembered lines are still in
their window, `RetriesPassthrough` the decision of `pipeline_repeat_policy.rs`,
`RegionQuiet` and `AfterFallback` the display states. `Emit` is the event together
with the page's `shouldAccept`: Tauri delivers the events of one emitter in order.

### EngineStore

| variable | code |
| --- | --- |
| `pc[p]`, `task[p]` | the next step of a Core process, and whether `ready` or `install` takes it |
| `lease[p]`, `lockFile`, `lockGen` | `storage::Lease` (the open file and its lock), the file that has the name `assets.lock`, files ever made |
| `archive`, `asset[a]` | the runtime archive; for the runtime directory and the model the file in place, its backup and its candidate: absent, as the manifest says, or of the right size with other bytes |
| `record` | `install-state.v1.json` and its backup |
| `need[p]`, `promoted[p]` | the candidates to promote, and those promoted so far |

`OpenLock`, `LockGranted`, `LockBusy` are `Lease::acquire` with its polling;
`Verify` .. `Start` is `Session::ready` with the way from the shared lease to
the exclusive one and back; `RecoverPending`, `CleanupStaging`, `Import`,
`Inspect`, `Stage*`, `VerifySample`, `Promote*`, `Record*`, `Commit`, `Rollback`,
`RecoverActive` and `Installed` are `installer::install` in its order, each file
operation that can fail, or be cut off in the middle, a step. `Crash` is possible
before every step: a kill, and the fatal deadlines of `service.rs`.
`RetainOrRemove` and `UnlinkLock` are `storage_reclaim.rs`. `UnlinkRaces` says
whether a file that somebody has open may lose its name at once; see finding 3.

### EngineClient

| variable | code |
| --- | --- |
| `call[c]` | an invocation of `status_if_idle`, `ready`, `install` or `complete`, or the worker of the recovery flight |
| `slot`, `fresh`, `switch` | `TRANSLATION` behind its mutex, a process spawned and not yet in it, `TRANSLATION_KILL` |
| `core[p]` | a Core process: alive, bound to CPU, how it was started, the engine it runs and whether that is well |
| `ready`, `installs` | `Readiness::status`, `Readiness::installs`; the generation is kept as what it is compared for (`call[c].current`) |
| `flight`, `recovery` | `RecoveryState` |
| `forceCpu`, `stopping` | `LaunchConfig::force_cpu`, the shutdown or restart in progress |
| `witness` | history for the properties |

`AskReady`, `AskInstall`, `AskComplete`, `PollStatus` begin a call; `CallLocked`,
`Register`, `Hello`, `Answered`, `RequestDies`, `RequestTimeout` are
`call_locked` down to `Transport::request`; `Core*` is what Core answers
(`service.rs`, `hy_mt_readiness.rs`, `inference_recovery.rs`); `React` is
`core_translation.rs` looking at a completion; `JudgeFlight` and `Verdict` end the
flight; `CancelRecovery`, `ForgetReadiness`, `ShutdownSlot`, `RestartClears` are
`shutdown_owned` and `restart_owned`. Two steps are coarser than the code: taking
the slot and checking `cancelled` is one action, and so are a response and the
record of its status; between them the code awaits nothing. A process id stands
for the process and its pipes, and is used again once nothing refers to it.

### The parts of MCShell

* `ContextWindow`. `context` is `TranslationContext` as a count of lines, whether
  there is a memory and whether it is over the compression threshold; `recent` is
  `RecentTranslations::entries`, the lines answered, oldest first; `scene` is its
  generation; `tier` the shared
  `context_tier`; `worker` the one translation in flight, with the tier, scene and
  memory it took when it began; `summary` the compression task. `ClaimLine` is the
  hand-over with the prompt built before the line is recorded; `Begins`,
  `LeakRetries`, `Succeeds`, `Fails`, `TimesOut` are `run_tiered_sequence`.
* `SettingsStore`. `disk` holds what each file parses as (the user's settings,
  defaults, neither); `origin` is `SESSION_PROVENANCE`; a save is read and judge,
  write aside, copy to the backup, rename. `Locks`, `Damages`, `Quits` are the
  environment; a crash is a `Quits` between two steps of a launch or a save.
* `OverlayHost`. `page`, `mail`, `heard` are the page's signals and
  `LivenessState`; `ShowBegins`, `ShowGoesOn` are `recover_overlay`; `slot`,
  `task[c]`, `queue[c]`, `clone` are `IpcServer::client`, `handle_client` and the
  sender a send has cloned.
* `BandAdmission`. `band` is one `TrackedBand`; a frame either reads a text in it
  (`Reads`) or misses it (`Missed`) after some interval; `Unfiltered` is a frame
  that the filter lets through whole. Ages are capped beyond the largest compared.
* `EngineStatus`. `asked` is the controller's revision; `reads`, `recheck`,
  `waits`, `making` are the promises under way, `start` how far `start()` is.
* `OverlayPage`. `view` is `overlayState` with the classes of the elements, the
  timers and the calls under way; `window` what the native window really does;
  `toPage`, `saves` the events, each with the area it was sent at, and the calls
  between them. An event handler is cut at each `await` (`OnEvent`, `OnScaled`,
  `OnRegionKnown`, `ClickAnswered`), and a start may come at any of them. `late` and
  `crossed` are history for the properties.
* `SetupWizard`. `wizard` is the page's state, `runs[r]` each preparation that was
  begun, also one that outlives the page's reset; `toSetup` the events to the page.

### The parts of MCDesk

* `FoundryLocal`. `service` is the outside process (port, namespace), `cli` and
  `probe` the two caches shared by all backends, `own` the manager's backend,
  `fresh` the one each status operation makes; `op` and `line` are one status
  operation and one translated line, which interleave at every request.
* `NativeHost`. `loop` is `ConnectLoopAsync`, `inbox` the messages queued for the
  UI thread, `frame` the overlay window (shown, click-through, interactive, panel,
  faded, ring), `pick` the selector window, `owed` whether the shell waits for it.
* `SettingsEdits`. `snap`, `writes`, `revision`, `save`, `saveTimer` are the main
  window and its `SettingsWriter`; `menu` the overlay menu's read and write, `reload`
  a refresh; settings are the numbers of their last edits.
* `OverlayClip`. `clipping` is the loop's turn, `last` the payload sent last, `clip`
  what the window has, `drawn` what the page draws.
* `RegionSelector`. `panel` and `pageStage` are the window and its page, `restores`
  and `closes` the answers the page waits for, `draft` the box and the phase.
* `OcrWorker`. `jobs` are the tasks of `bounded_worker` in the order they got the
  lock, `native` the recognitions still running, `lock` whether it is poisoned.
* `InferenceHealth`. `receipts` and `strong` as in the struct; `held` what the
  shell may still report, `rejected` and `evidence` history for the properties.
* `ScreenCapture`. `session` is `CAPTURE_SESSION`, `channel` the frames not taken
  yet, `buffer` the last full frame, `grab` the loop's `CaptureSessionState`.

## 3. What the runs check

| run | instance | what it asks |
| --- | --- | --- |
| `session_safety` | 3 commands, 2 sessions, starved spawns | `SessionsApart`: one capture task, and a successful Stop means it has exited; `CaptureHasOwner`, `CaptureClosedByOwner`: the old cleanup never closes the new capture; `EveryLoopStoppable`; `OverlayStaysShown`: the end of a Stop hides no new overlay; `ImplementsSession` |
| `session_stop_ends` | 2 commands, 2 sessions, spawns are polled | `StopLeavesStopped`: a successful Stop leaves `is_running` down; `StoppingEnds`: every Stop answers though a capture hangs, and a task told to stop ends if its captures return |
| `pipeline_slot` | 3 sessions with a Stop between, 1 line, 1 move, every fault | `StoppedStaysBlank`, `NoTranslationOutrun`, `ClaimedThenMovedIsDropped`, `DiscardOnlyWhenUnwanted`, `SlotReleased` |
| `pipeline_moved` | 1 session, 1 line, 1 move, no fault | **violated**: `ShownIsOfThisRegion` (finding 1) |
| `pipeline_deadline` | 1 session, 2 lines, missed deadlines | **violated**: `SkipMeansShown`: a repeat is skipped only when the screen says it or its translation is under way (finding 2) |
| `engine_store` | 2 Cores, 1 newer Core that reclaims, 2 crashes, failures or damages | `NoRepairUnderAnEngine`; `ImplementsContract`: `StoreContract` is implemented; `InstallOkMeansInstalled`; `VerifiedCopyKept`; `RequestsEnd` |
| `engine_store_unlink` | the same, no trouble, the lock file may lose its name | **violated**: `NoRepairUnderAnEngine` (finding 3) |
| `engine_client` | 1 client with 2 calls, the flight, 2 processes, 1 failure, 1 shutdown or restart | `ShutdownReaches`, `InstallingIsNotReady`, `InterruptedCheckLocksCpu`, `ChangedConfigApplies`; `CallsEnd`, `FailureHeals` (which the documents contradict: finding 6) |
| `shell` | the eight parts of `MCShell` | `TierOnlyFalls`, `SettingsStayUntilUnfound`, `BandsAdmit`; `PagesAgree`; `WorkEnds` |
| `settings_lost` | `SettingsStore` alone: 1 save, 2 launches, 1 lock, 1 damage | **violated**: `SettingsSurvive` (finding 5) |
| `desk` | the eight parts of `MCDesk` | `EnginesAnswer`, `WindowsAgree`; `SettlesAgain` |
| `native_reconnect` | 2 messages, the shell goes away once | **violated**: `KeepsReconnecting` (finding 4) |

The properties that gather several parts:

* `PagesAgree`: a busy engine is asked again and a waiting start has somebody to
  wait for (`BusyIsAsked`); a running session's mouse is watched, its frame is on
  the page and drawn where the shell captures (`FrameComesBack`,
  `DrawsWhatIsCaptured`); the slot of the pipe holds the newest client
  (`NewestClientKeepsSlot`); the setup works or offers a retry (`WizardGoesOn`).
  The frame's two parts each excuse one race, which history variables of
  `OverlayPage` record and section 6 tells of: the frame may be hidden when the
  handler of the stop before still awaited its call at the start (`late`), and drawn
  elsewhere when the area the page took last was overtaken by one on its way to the
  shell (`crossed`).
* `WorkEnds`: a line, a summary, a show's wait, a replaced connection, a start, a
  preparation, and a mouse that is felt wrongly all end.
* `EnginesAnswer`: `FindsMovedService`, `ReadyWasAnswered`, `NothingStacked`,
  `ResultsAreSound`, `CpuForcedOnEvidence`, `RejectionHeard`.
* `WindowsAgree`: `OverlayLetsThrough`, `SelectorAnswers`, `SavedMeansWritten`,
  `ClipFollows`, `BoxIsStored`, `GivenUpIsClosed`.
* `SettlesAgain`: clicks that were swallowed pass again, an old image is replaced.

`PROJECT.json` has several mutants for each of them, at least one for a part.

Bounds, and why they are enough:

* `Commands`: two commands make every race of Start with Stop; the third lets a
  retried Stop and a new Start meet while the first Stop still fades the overlay.
* `MaxStarts = 2`: the hazards are between an old session and its successor; a
  task never looks at any session but its own and the current one. In
  `pipeline_slot` a third session shows what survives two resets of the ids.
* `MaxSessionId`: every Start and every Stop draws one id, so 3 is two sessions
  and a Stop, or three sessions the second of which ended by itself. No Start comes
  after a Start and a Stop, so that the run does not meet capture and translation
  ids that start over beside an old session's worker; the theorems cover them, and
  a worker starved into that next session is the one case in which
  `DiscardOnlyWhenUnwanted` would not hold (`AnswersAreKept` assumes none is).
* `MaxCaptures`: in the passing run a line and a repeat of it, or a line and the frame
  that clears it.
* `EmptyClearFrames` is 1 in the passing run, for only the clear itself matters to its
  properties, and 2 in the others; the code's value (`EMPTY_OCR_CLEAR_FRAMES`) is larger, and adds waiting only.
* `MaxMoves = 1`: a property compares a claim with the moves after it.
* `Faults` names what may go wrong in an instance; a run leaves out those that a
  finding already shows to break its property, or that do not touch it.
* `Core` and `Reclaimer`: two processes of a version race for the repair, the third
  removes. `MaxTroubles = 2`: a crash inside the recovery from a crash.
* `EngineClient`: the flight is a second caller at all times, so one client with
  two calls meets it, the shutdown and its own earlier call; a process is spawned
  while another is dying, so two ids.
* `MaxLines = 3`, `MaxRecent = 2`, `MaxHistory = 2`: one line more than is kept.
* `SettingsStore`: two overlapping saves and a third after a restart; three
  launches are a damage, its recovery cut off, and the launch after it.
* `MaxConns = 3`: a connection replaced while the one it replaced is ending.
* `BandAdmission`: two readings a glyph apart and two that differ in a number, the
  times scaled to keep their order; ages are capped beyond all of them.
* Two sessions of the overlay page, of which the second is not stopped, two openings of the selector, three of the
  setup: what the first leaves behind meets the second, and in the setup two
  preparations of closed pages meet a third.
* `Kept = 2` receipts with three answers (the code keeps 16), `PoolSize = 2` as in
  the code with three changes, `MaxUrl = 2` ports.

The theorems of section 5 hold with none of these bounds: `MaxStarts`,
`MaxCaptures` and the others are arbitrary there. `CHECK_DEADLOCK FALSE` stands in
the configurations whose bounds are used up in the end: the processes are then
idle, as the program is.

## 4. Fairness

* `CommandFairness`: a handler that has been polled runs on; its waits are the
  two bounded timeouts of `wait_stopped`, the mutex, and sends that do not block.
  Strong fairness of acquiring the mutex: tokio's mutex is a FIFO queue.
* `TaskFairness`: a task that is ready is polled, and a capture returns. It is an
  *assumption inside* the second half of `StoppingEnds`, not of the run: that a
  Stop answers is checked under `HungSpec`, where a capture may hang for ever.
* `TranslationPipeline!Spec`: weak fairness of `TaskStep` only, the steps a task
  takes without the engine. `Answer` is not fair: the engine owes no answer, and
  the slot is still given back because the deadline (`Miss`) is a step of the
  task. Nothing is assumed of the loop, of Start or of Stop.
* `StoreFairness`: a Core that has a request goes on. The polling for a lease has
  a budget, so that no fairness between processes is needed.
* `ClientFairness`: threads run; Core answers or its deadline passes; a session
  that goes on translating meets the failed engine again (`SessionRestarts`); the
  wait before a retry is over some time (`RetryWaitOver`). Nobody has to ask, to
  stop or to fail.
* `ShellFairness`: the worker and the summary task run; the timers of pages fire
  and their event loops turn; the backend answers what a page asks, with success or
  an error; each connection's task runs. The actions of different parts share a
  conjunct: since one part moves in a behaviour, weak fairness of the disjunction
  is that of the part's action. In `OverlayPage` and `EngineStatus` a disjunction
  of steps of one page is fair as a whole, the page's event queue being one.
* `DeskFairness`: the native host's UI thread takes what is queued and its hover
  timer fires; the capture loop takes its next image (`CaptureTurns`: a failure is
  never owed), and a frame is delivered once the screen has changed and a buffer is
  free. The user, the network and the engine owe nothing.

## 5. What is proved

`tlapm` checks every obligation of the proof modules, for arbitrary constants. The
assumptions are the named ones of the modules (`CommandsAssumption`,
`StartsAssumption`, `StarveAssumption`, `PipelineAssumption`, `StoreAssumption`,
`ClientAssumption`, `ContextAssumption`, `SettingsAssumption`, `StatusAssumption`,
`HostAssumption`, `PageAssumption`, `WizardAssumption`, `FoundryAssumption`,
`NativeAssumption`, `EditsAssumption`, `ClipAssumption`, `SelectorAssumption`,
`WorkerAssumption`, `HealthAssumption`, `CaptureAssumption`), which only say what kind
of value a constant is; `BandAssumption`, which also says that the bound on ages lies
beyond every age compared; `BoxAssumption`, that no area is the selector's `null`; and, where a theorem needs one, a hypothesis in its
statement. Each invariant was checked by TLC before it was proved. The theorems
about `ContextWindow` and `SettingsStore` are about the part's own specification
(`ContextSpec`, `SettingsSpec`); `ShellAgrees`, `ShellAdmits`, `ShellTyped`, `DeskAgrees`, `DeskAnswers` and `DeskTyped`
are about the sums themselves.

**SessionLifecycle.** The invariant is `TypeOK` with: `LockInv`, who may be at a
point where the mutex is held; `RunInv`, that only the latest task may be live,
with `is_running` up; `StartInv`, what a Start has set up so far for the task it
is about to spawn; `SlotInv`, that a live task is the one in the slot but for the
moment before it is put there; `StopInv`, what a Stop knows of the task it waits
for; `CaptureInv`, in which phases a capture is open; `LoopInv`, that a live task
which was not told is current, reachable and shown. None of the run's invariants
is inductive alone: that a successful Stop found nothing alive depends on
`is_running` having been up since the claim, which depends on the mutex.

| theorem | property |
| --- | --- |
| `TypeCorrect` | `TypeOK` |
| `AtMostOneCapture`, `StopIsTeardown` | the two halves of `SessionsApart`, stated alone |
| `SessionsStayApart` | `SessionsApart` |
| `CaptureIsOwned`, `CaptureIsPrivate` | `CaptureHasOwner`, `CaptureClosedByOwner` |
| `RunningIsStoppable`, `OverlayIsKept` | `EveryLoopStoppable`, `OverlayStaysShown` |
| `StopFreesStart` | `StopLeavesStopped`, assuming `~SpawnMayStarve` |
| `Implementation` | `ImplementsSession`: every step is one of `TranslationSession`, or leaves it alone |

**TranslationPipeline.** The invariant is `TypeOK` with: `ControlInv`, which id a
Stop holds and that a Start finds no loop; `ToldInv`, that who was told to stop is
no longer current; `TaskInv`, that only sessions that began have tasks;
`OverlayInv`, that the overlay is never ahead of the session, and is blank and
past the old session once a Stop is over; `OrderInv`, that what was emitted and
what is in flight lies behind the token the loop has drawn; `FreshInv`, that a
loop which ended by itself has no task; `ClaimInv`, that a claim that is still the
newest was made after the last completed move; and `NoTranslationOutrun`, which is
inductive only with the rest.

| theorem | property |
| --- | --- |
| `TypeCorrect` | `TypeOK` |
| `StaysBlank` | `StoppedStaysBlank` |
| `NeverOutrun` | `NoTranslationOutrun` |
| `MovedIsDropped` | `ClaimedThenMovedIsDropped` |
| `AnswersAreKept` | `DiscardOnlyWhenUnwanted`, where no worker is starved (`"starve" \notin Faults`) |
| `SkippedWasSaid` | `SkipMeansSaid`, without faults (`Faults = {}`) |

The last two hold only under their hypotheses: a worker that is not polled before its
deadline and meets the next session drops an answer nobody outdated, and after a
deadline that was missed the line the loop compares with was never shown. Finding 2
shows that `SkipMeansShown`, which says what the code's comment says, does not hold;
`SkipMeansSaid` is what remains of it when nothing fails: a skipped repeat is under
way, or has been on screen since the lines were last forgotten and the screen is not
blank. It is in no run. It needs more than the rest: an invariant that follows the
last line from its reading through the slot, the task and the overlay, and says at
each point where its text is.

**EngineStore.** The invariant is `StoreTypeOK` with: `LeaseInv`, that each step is
taken with the lease it needs on the file that still has the lock's name;
`ExclusionInv`, that an exclusive holder is the only one; and `DiskInv` of each
Core, what the steps of an install, a repair or a verified start have established
of the disk so far, which is stable because all that writes to the disk is under
the exclusive lease. All but the types are proved under `~UnlinkRaces`: where the
lock file may lose its name while somebody has it open, a second file is locked in
its place and none of this holds, which is finding 3. The hypothesis is the delete
that waits for the last handle (the classic semantics of Windows); the theorems say
that the rest of the protocol is right, and that the removal is what is wrong.

| theorem | property |
| --- | --- |
| `StoreTypeCorrect` | `StoreTypeOK` |
| `RepairExcludesEngines` | `NoRepairUnderAnEngine` |
| `InstallAnswersTheTruth` | `InstallOkMeansInstalled` |
| `InstallKeepsVerifiedCopy` | `VerifiedCopyKept` |
| `StoreImplementsContract` | `ImplementsContract`: every step is one of `StoreContract`, or leaves it alone |

**EngineClient.** The invariant is the types with: `CallShape`, that only one caller
is at a point where it holds the slot and what its call may be there; `FlightShape`,
that the recovery flight is active exactly while its caller is under way;
`SlotInv`, that every living process is the one in the slot or the one being
started, and that the kill switch has it; `InstallInv`, `StopInv` and `CheckInv`,
what the counters, a shutdown and an inference check say of the page, the processes
and the CPU lock. The set of callers is finite, since installations are counted,
and there are at least two process ids, since a process may die while its successor
starts.

| theorem | property |
| --- | --- |
| `ClientTypeCorrect` | `ClientTypeOK` |
| `ShutdownFindsProcess` | `ShutdownReaches` |
| `InstallHidesReadiness` | `InstallingIsNotReady` |
| `FailedCheckLocksCpu` | `InterruptedCheckLocksCpu` |
| `NewConfigServes` | `ChangedConfigApplies` |

**ContextWindow.** The types of the counters depend on an argument about sizes:
`HistoryInv` bounds what was ever put into the history by the lines counted,
so that a summary never asks for more lines than there were. `WorkerInv` keeps the
worker's tier at or below the session's, without which `TierOnlyFalls` is not a
consequence: an old line could put a tier back.

| theorem | property |
| --- | --- |
| `TierFalls` | `TierOnlyFalls` |

**SettingsStore.** `SettingsStayUntilUnfound` says that the settings are in one of the
files until a launch takes defaults for them: one that finds `config.json` as a
session on defaults saved it (finding 5), or finds none and no usable backup. What
is inductive is that they are in the *backup*, that only a session which read its
own `config.json` ever writes there, and that such a session carries the user's
settings through every step of a save.

| theorem | property |
| --- | --- |
| `SettingsStay` | `SettingsStayUntilUnfound` |

**MCShell.** The other parts of the sum, each with an invariant of its own; the sum's
is their conjunction, and one lemma (`PartsMove`) says that a step of the sum is a
step of one part that leaves the others alone.

* `StatusInv`, `PipeInv`: `BusyIsAsked` and `NewestClientKeepsSlot` are inductive
  with the types of their parts: every answer, whichever request it belongs to, asks
  again itself or leaves somebody who will; and a task that ends late clears the slot
  only of its own connection.
* `BandInv`: `CueSound`, that a static text has a name and an age, and that the
  text which may replace it is another one; and `LastIsNear`, that a band is never
  out of sight for longer than its last reading. Without the first a static text
  could lose its mark by a misread; without the second a reading of a retired band
  could confirm one of its successor.
* `WizardInv`: `WizardGoesOn` with what the page knows of the preparation it waits
  for: either it still runs, or its news is in the mail of *this* page, and it began
  with the settings loaded, so that the page will believe it.
* `FrameInv`: while a session runs, every message of a stop on its way to the page is
  followed by one of a start (`OffsFollowed`); once the page has heard of the start,
  its frame is shown or about to be, and neither a clean-up nor a stop's call that
  would set one is left, unless the page was `late` (`Stands`); what it believes of
  click-through is what the window does (`Believes`); and unless areas `crossed`, the
  one drawn is the last on its way to the shell, or the shell's own (`Drawn`). The
  messages are what makes it inductive: between a start and the page's hearing of it
  the two disagree, and only the message in between says that they will not for long.

| theorem | property |
| --- | --- |
| `ShellAgrees` | `PagesAgree`, by the parts' `BusyEngineIsAsked`, `SlotIsKept`, `FrameAgrees`, `SetupGoesOn` |
| `ShellAdmits` | `BandsAdmit`, assuming `MaxGap <= Retire` |
| `WatermarksStayOut` | its first half, without that hypothesis |
| `ShellTyped` | `ShellTypeOK` |

The types need of each part what its counters are bounded by, kept beside its
invariant (`ShellBounds`):

* `StatusBounds`: a due recheck is of a busy engine that was not asked often enough,
  whoever set the timer; so the attempts never pass `MAX_RECHECKS`.
* `WizardBounds`: the events on their way to the page and the preparations that may
  still tell of their end (`Untold`, counted as a finite set) are together no more than
  the openings and preparations so far: a preparation tells once.

The hypothesis is that a band is remembered for at least as long as two readings are
connected over. In the code the first is the window of 90 s (`band_tracker.rs:25`),
the second the larger of two capture intervals and 2 s (`band_window.rs:42`), so it
holds for every capture interval up to 45 s. Without it a band could be retired and
begun anew between two readings that agree, and the second would be its first.

**MCDesk.** As in `MCShell`: an invariant for each part, their conjunction for the
sum, and `DeskPartsMove`. Where the checked property is not inductive by itself:

* `FoundryInv`: `FindsMovedService` counts lines lost in a row, so what has to be kept
  is why the next one cannot be: after a lost line either the shared command line
  cache names the present port, or it and the manager's backend have none and look
  (`Finding`). Every refresh keeps that (`Learned`), because a port other than the one
  a backend had throws the cache away. For `ReadyWasAnswered`, a good probe that an
  operation comes upon was made after its backend found the service (`Probed`).
* `SelectorInv`: what makes the page right before it is: an untouched page either has
  the stored area or has a restore under way (`Restoring`); nothing of the user's is
  under way then (`Untouched`); and a page that was not told of an opening has no box
  to be wrong about (`Informing`).
* `HealthInv`: a receipt's number is bounded by how many lie behind it (`Numbered`), so
  the one that falls out of the list, or is moved up by a removal, is never one of the
  last `Kept` answers; the record of strong rejections has one fresh entry at most, of
  this engine (`Counting`); and a receipt is held once, of an engine that was started
  (`Holding`).
* `WorkerInv`: in a sound process one job at most is under way and attended (`Alone`),
  a native recognition belongs to it (`Unstacked`), and what it will answer was made by
  the engine cached for its language (`EngineSuits`); jobs further back only wait
  (`QueueTyped`).
* `EditsInv`: only the last write can have the newest revision, and it carries what the
  window has (`WritesLead`). `ClipInv`: what was sent last is what the window has,
  unless a show emptied the clip and the page has yet to hear.
* `NativeInv` and `CaptureInv`: the checked property with the types of the part; a
  capture loop that is off has no session, and one that recovers is persistent.

| theorem | property |
| --- | --- |
| `DeskAgrees` | `WindowsAgree`, by the parts' `HostLetsThrough`, `SavedIsWritten`, `ClipIsDrawn`, `SelectorShowsStored`, `SessionGivenUp` |
| `DeskAnswers` | `EnginesAnswer`, by `ServiceIsFound`, `RecognitionsAreSound`, `RejectionsCount` |
| `DeskTyped` | `DeskTypeOK` |

The types are again the invariant with bounds of each part (`DeskBounds`). Those that
take several steps to see: `AskedTwice`, that the area selector has never more than two
restores under way, because the load of its window and its being reopened ask once
each (`Asking` counts what will make it ask); `SavedOnce`, that a confirmation closes
the window once; `Patient`, that the third failure in a row is the last of a capture
session; `NativeBounds`, that the host's inbox holds no more messages than were sent;
and that what `AutoModel` picks is one of the models there are, for which a smallest
score has to exist (`SmallestScore`, by well-founded induction on the naturals).

**Model-checked only.** Liveness (`StoppingEnds`, `SlotReleased`, `RequestsEnd`,
`CallsEnd`, `FailureHeals`, `WorkEnds`, `SettlesAgain`): the prover has no rule for
fairness. Every invariant and every action property of the passing runs is stated by a
theorem.

## 6. Findings

1. `commands.rs:658` (`pipeline_moved`): the loop reads the region before it draws
   the capture id. A move of the region that completes in between invalidates
   neither id, and text of the old region is shown. `MovedIsDropped` proves the
   part that does hold: a move that completes after the claim.
2. `commands.rs:813` (`pipeline_deadline`): a line abandoned at its deadline stays
   remembered, and its re-reads are skipped as if the overlay showed it. The same
   comment (`pipeline_repeat_policy.rs:24`, "The line on screen already says this") is
   broken without a fault too, by a longer way than the run's: after two lines the
   first one, read again, is skipped while the second is on screen, because the loop
   compares a read with the last four lines it handed over
   (`ocr_recent_lines.rs:58-81`).
3. `storage_reclaim.rs:81` (`engine_store_unlink`): `assets.lock` is removed after
   its lease was dropped. Where an open file may lose its name at once, a waiting
   process locks a file without a name and the next one a new file of that name, so
   that one repairs what the other executes.
4. `IpcService.cs:116` (`native_reconnect`): an attempt to connect that runs into its
   five seconds ends in the same exception as the service's disposal, and the
   native host never tries again.
5. `config_store.rs:352` (`settings_lost`): with `config.json` corrupt and its backup
   held by another program a session runs on defaults and its save writes them to
   `config.json`; the next clean launch takes that file for the user's and refreshes
   the backup from it. `config_save.rs:13-24` describes this very loss and says that
   the provenance of the session prevents it.
6. `core_client_recovery.rs:138` (`engine_client`, which passes): a session that goes on
   translating tries a failed engine again by itself after a wait, also when it was the
   CPU check that failed (`FailureHeals`). `docs/ARCHITECTURE.md:181`,
   `core/README.md:139-141` and the message of `core_client.rs:140` say that a failed
   CPU recovery requires an explicit retry.

Disagreements with a document that were seen while modelling, and that no run isolates:

* `overlay.js:636-638` says that an on clears the hide clean-up a stop left pending.
  When the stop's handler still awaits its click-through call (`:699`) as the start's
  event is handled, it sets the timer (`:702`) after the on has cleared it (`:639`),
  and the frame is hidden for the rest of the session. `OverlayPage` has these steps;
  `FrameComesBack` excuses what follows them (`late`).
* The area of an `overlay-update-region` (`overlay.js:558`) and of `get_capture_region`
  (`:652`) may reach the page before one that its user dropped the frame at has reached
  the shell (`:533`): the frame then stays at the area that was replaced
  (`crossed`).
* `docs/ARCHITECTURE.md:126-128` says that a request in flight over a reset cannot
  repopulate the comparison history. Its generation is sampled when the translation
  begins (`translation_planner.rs:167-170`), not when its line is read or claimed: a
  reset in between lets an answer to a line of the old scene be recorded in the new
  one. A summary in flight over a reset becomes the memory of the new scene
  (`context_summarization.rs:213`).

Seen on the models or while writing them, without a document to hold the code to,
and so without a run:

* Session. An abort that reaches the capture task before its first poll drops it
  before its cleanup guard exists (`session_lifecycle.rs:51`): `is_running` stays up
  and every later Start is refused. It takes a runtime that leaves a ready task
  unpolled for a second, which is what `StopFreesStart` assumes away.
  `exit_translation` gives up the control before it returns to Home, and
  `prepare_for_update` reads `is_running` without it: a Start may be accepted in
  between.
* Pipeline. Re-confirming the region that is already set loses the line in flight:
  the loop sees no change (`commands.rs:639`) and keeps the line among the
  remembered ones, though the ids were invalidated. `last_backend_was_mock` is one
  flag for a session, not of a line. Region and scale are read under two locks
  (`commands.rs:616`, `:617`), so a frame may combine an old rectangle with a new
  scale. `begin_session` resets the translation id before it bumps the session:
  after a capture loop that panicked, with no Stop in between, the old session is
  still current while the ids restart; only an unwinding build gets there.
* Client. Every ready request clears the `stopped` flag of a shutdown
  (`core_client_recovery.rs:122`), so that whoever still asks starts Core again. A
  cancel between the flight's look at its flag (`:159`) and its record is followed
  by the record.
* Settings. A refresh of the main window that was given
  older settings undoes an edit of the overlay's menu (`app-controller.ts:245`), and
  the menu's read and write one of the main window.
* Pipe. `read_line` is a branch of `select!` (`ipc/server.rs:142`): a message to send
  that arrives in the middle of a line drops the part already read. A ready of the
  page before the reload counts for the recovery (`overlay/liveness.rs:106`). The
  native host is not told the region and the texts again after it reconnected.
* Overlay page. A clip call
  slower than the loop's 350 ms loses a change; an off in the middle of a drag
  leaves `isDragging`; one click-through call that fails turns it off for good.
* Selector. `confirmSelection` awaits the scale (`selector.js:469`): when the box is
  cleared meanwhile, the exception leaves the page saving for ever. Escape during a
  save still saves. `isDragging` outlives Escape.
* Capture. Frames left in the channel hold both buffers of the pool; a frame that was
  taken and could not be read is gone until the screen changes again, and the old
  image is returned as a success; a session of a monitor that was unplugged goes on
  returning its last image; an area outside the screen fails three times and turns
  the persistent session off for the rest of the session.
* OCR. The cached Windows engine is keyed by the tag asked for, not the one resolved;
  when every pass of a multi-pass recognition failed, the result is an empty one
  (`core_ocr.rs:265`).
* Setup. After the window was closed during an installation and opened again, the end
  of the old one drives the page of the new run; if the page cannot listen for
  events it works for ever (`meowcal-setup.ts:81`).
* Legacy service. Every status operation makes a new backend, so that the branch for
  a known service (`foundry_local.rs:665`) is never taken; the repeat of a failed
  line may ask the old port once more, which loses that line
  (`FindsMovedService` says not two in a row).
* Reaping. An orphaned engine is ended by its recorded pid after a look at its image
  path only, so that a pid that was used again by the same program is ended too.

## 7. What is not modelled, and why

* Time. The pacing of the loop, the windows of seconds and the lengths of deadlines
  are choices of the environment: what happens first, not when. `BandAdmission`
  alone keeps ages, because its verdicts compare them.
* Text, pixels and geometry. A line is a model value; the comparison of OCR variants
  (`ocr_stability.rs`) is equality; which lines share a band, what a prompt says
  (`prompt_router.rs`), what makes an answer usable (`output_validation.rs`) and what
  preprocessing does to an image are choices. A region is a member of a small set.
* The values of the configuration (`config.rs`): defaults, clamps and migrations are
  pure functions of one document; `SettingsStore` follows the document.
* A Stop that fails, in `TranslationPipeline`: `SessionLifecycle` shows that it lets no
  second loop in, and that is all the pipeline relies on. Recent-line context in the
  pipeline; it is in `ContextWindow`.
* The native host's texts: it receives `Subtitle.Update` without the ordering rule of
  the page, and `Subtitle.Clear` is never sent to it.
* In `EngineStore`: the choice among several roots, and how a download resumes.
* In `EngineClient`: the progress lines of an installation; more than one client.
* In `OverlayPage`: the settings menu, the hint row, the fade of the frame while no mouse
  is near it, and the padding of the frame, where a mouse fades it though it hovers. A
  click-through call is answered as it is carried out, and the last session of an
  instance is not stopped.
* In `OverlayClip`: a call is answered within the loop's settle time.
* In `RegionSelector`: an opening comes after the answers to the close before it.
* In `SetupWizard`: the page listens before a user can reach the preparation.
* In `InferenceHealth`: one recovery at a time, and reports made during one are dropped
  as in the code. In `FoundryLocal`: a fetch through the command line is atomic; an
  endpoint configured by hand and the managed branch are left out.
* In `ScreenCapture`: that a frame held back is delivered once a buffer is free is
  assumed of the platform. Pictures are numbered by the screen's changes.
* Browser mode, packaging, the evaluation tool, the legacy engine's cleanup: see the
  components with status `not_modelled` in `PROJECT.json`.

## 8. Plan

Every safety property of the passing runs is proved. What could follow is more of the
system, not more proof: the handoff to the updater (`update_handoff.rs:47`), the prompt
router and the browser mode.

## 9. Running

    tlc -workers 2 -config MCSessionLifecycle.cfg MCSessionLifecycle
    tlc -workers 2 -config MCPipelineSlot.cfg MCTranslationPipeline
    tlc -workers 2 -config MCEngineStore.cfg MCEngineStore
    tlc -workers 2 -config MCShell.cfg MCShell
    tlapm SessionLifecycleProofs.tla
    tlapm TranslationPipelineProofs.tla
    tlapm EngineStoreProofs.tla
    tlapm EngineClientProofs.tla
    tlapm ContextWindowProofs.tla
    tlapm SettingsStoreProofs.tla
    tlapm ShellProofs.tla
    tlapm DeskProofs.tla

Each run takes from a few seconds to four minutes with two workers. `PROJECT.json`
lists every run with its configuration, the lines of the source that each
definition stands for, and for every property at least one plausible bug (an
operator of the modules, commented as a mutant or a plausible bug) under which its
run fails.
