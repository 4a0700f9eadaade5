------------------------------- MODULE MCDesk -------------------------------
(***************************************************************************)
(* The legacy engine, the native overlay host, the main window's settings, *)
(* the overlay's clip, the area selector, the recognizers, the health of   *)
(* the translations and the screen's capture: parts that share no state,   *)
(* checked in one run as in MCShell.                                       *)
(***************************************************************************)
EXTENDS FoundryLocal, NativeHost, SettingsEdits, OverlayClip, RegionSelector, OcrWorker,
        InferenceHealth, ScreenCapture

VARIABLE part

Parts == {"foundry", "native", "edits", "clip", "selector", "ocr", "health", "capture"}

deskVars ==
  <<part, foundryVars, nativeVars, editsPart, clipPart, selectorPart, workerPart, healthPart, capturePart>>

DeskInit ==
  /\ part \in Parts
  /\ FoundryInit /\ installed \in (IF part = "foundry" THEN {{}, Models} ELSE {{}})
  /\ NativeInit /\ (part = "native" \/ server)
  /\ EditsInit /\ ClipInit
  /\ SelectorInit /\ (part = "selector" \/ stored = NoBox)
  /\ WorkerInit /\ HealthInit /\ CaptureInit

\* What a moving part leaves alone.
OfFoundry == <<part, nativeVars, editsPart, clipPart, selectorPart, workerPart, healthPart, capturePart>>
OfNative == <<part, foundryVars, editsPart, clipPart, selectorPart, workerPart, healthPart, capturePart>>
OfEdits == <<part, foundryVars, nativeVars, clipPart, selectorPart, workerPart, healthPart, capturePart>>
OfClip == <<part, foundryVars, nativeVars, editsPart, selectorPart, workerPart, healthPart, capturePart>>
OfSelector == <<part, foundryVars, nativeVars, editsPart, clipPart, workerPart, healthPart, capturePart>>
OfOcr == <<part, foundryVars, nativeVars, editsPart, clipPart, selectorPart, healthPart, capturePart>>
OfHealth == <<part, foundryVars, nativeVars, editsPart, clipPart, selectorPart, workerPart, capturePart>>
OfCapture == <<part, foundryVars, nativeVars, editsPart, clipPart, selectorPart, workerPart, healthPart>>

FoundryMoves == part = "foundry" /\ FoundryNext /\ UNCHANGED OfFoundry
NativeMoves == part = "native" /\ NativeNext /\ UNCHANGED OfNative
EditsMove == part = "edits" /\ EditsNext /\ UNCHANGED OfEdits
ClipMoves == part = "clip" /\ ClipNext /\ UNCHANGED OfClip
SelectorMoves == part = "selector" /\ SelectorNext /\ UNCHANGED OfSelector
OcrMoves == part = "ocr" /\ WorkerNext /\ UNCHANGED OfOcr
HealthMoves == part = "health" /\ HealthNext /\ UNCHANGED OfHealth
CaptureMoves == part = "capture" /\ CaptureNext /\ UNCHANGED OfCapture

DeskNext ==
  \/ FoundryMoves \/ NativeMoves \/ EditsMove \/ ClipMoves
  \/ SelectorMoves \/ OcrMoves \/ HealthMoves \/ CaptureMoves

\* The host's UI thread takes what is queued and its hover timer fires; the
\* capture loop goes on, and a frame is delivered once a buffer is free.
LoopsTurn ==
  \/ part = "native" /\ HandleMessage /\ UNCHANGED OfNative
  \/ part = "capture" /\ CaptureTurns /\ UNCHANGED OfCapture
TimersFire ==
  \/ part = "native" /\ CheckMouseHover /\ UNCHANGED OfNative
  \/ part = "capture" /\ FrameArrives /\ UNCHANGED OfCapture

DeskFairness == WF_deskVars(LoopsTurn) /\ WF_deskVars(TimersFire)

DeskSpec == DeskInit /\ [][DeskNext]_deskVars /\ DeskFairness

Scores == [m \in Models |-> IF m \in Instruct THEN 1 ELSE 2]

\* The types of every part.
DeskTypeOK ==
  /\ FoundryTypeOK /\ NativeTypeOK /\ EditsTypeOK /\ ClipTypeOK
  /\ SelectorTypeOK /\ WorkerTypeOK /\ HealthTypeOK /\ CaptureTypeOK

\* A legacy engine that moved to another port is found again and ready is told
\* of an engine that answered (foundry_local.rs:1512, 1178); no recognition is
\* stacked behind one that hangs, and what is answered is the result of a sound
\* process (ocr_service.rs:271); the GPU is given up on evidence only, and a
\* rejection of one of the last answers is heard (inference_health.rs:68).
EnginesAnswer ==
  /\ FindsMovedService /\ ReadyWasAnswered /\ NothingStacked /\ ResultsAreSound
  /\ CpuForcedOnEvidence /\ RejectionHeard

\* The native overlay lets clicks through and draws its ring where its region
\* is, its selector answers whoever opened it, the main window says saved of
\* what is written, the overlay is clipped to what it draws, the web selector
\* opens with the stored area, and a capture session that was given up is closed
\* (FrameOverlayWindow.xaml.cs:489, SelectorWindow.xaml.cs:181,
\* settings-writer.ts:24, overlay.js:643, selector.js:139, commands.rs:316).
WindowsAgree ==
  /\ OverlayLetsThrough /\ SelectorAnswers /\ SavedMeansWritten /\ ClipFollows
  /\ BoxIsStored /\ GivenUpIsClosed

\* Clicks that a shown overlay swallowed while the mouse was on it pass again
\* after the mouse has gone (FrameOverlayWindow.xaml.cs:489), and an image that
\* is no longer on the screen is replaced (graphics_capture.rs:195).
SettlesAgain == []<>~(ClickSwallowed \/ ImageIsOld)
=============================================================================
