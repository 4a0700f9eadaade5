------------------------------- MODULE MCShell -------------------------------
(***************************************************************************)
(* The parts of the shell and its pages that must come to an end, and that *)
(* share no state, checked in one run: which part moves is chosen at the   *)
(* start, and the others keep their initial state.                         *)
(***************************************************************************)
EXTENDS ContextWindow, SettingsStore, OverlayHost, BandAdmission, EngineStatus, OverlayPage, SetupWizard

VARIABLE part

shellVars == <<part, contextVars, settingsVars, pageVars, pipeVars, band, statusPart, framePart, wizardPart>>

ShellInit ==
  /\ part \in {"context", "settings", "page", "pipe", "band", "status", "frame", "wizard"}
  /\ ContextInit /\ (part = "context" \/ tier = 2)
  /\ SettingsInit /\ (part = "settings" \/ had)
  /\ HostInit /\ BandInit /\ StatusInit
  /\ FrameInit /\ area = 1
  /\ SetupInit

\* What a moving part leaves alone.
OfContext == <<part, settingsVars, pageVars, pipeVars, band, statusPart, framePart, wizardPart>>
OfSettings == <<part, contextVars, pageVars, pipeVars, band, statusPart, framePart, wizardPart>>
OfPage == <<part, contextVars, settingsVars, pipeVars, band, statusPart, framePart, wizardPart>>
OfPipe == <<part, contextVars, settingsVars, pageVars, band, statusPart, framePart, wizardPart>>
OfBand == <<part, contextVars, settingsVars, pageVars, pipeVars, statusPart, framePart, wizardPart>>
OfStatus == <<part, contextVars, settingsVars, pageVars, pipeVars, band, framePart, wizardPart>>
OfFrame == <<part, contextVars, settingsVars, pageVars, pipeVars, band, statusPart, wizardPart>>
OfWizard == <<part, contextVars, settingsVars, pageVars, pipeVars, band, statusPart, framePart>>

ContextMoves == part = "context" /\ ContextNext /\ UNCHANGED OfContext
SettingsMove == part = "settings" /\ SettingsNext /\ UNCHANGED OfSettings
PageMoves == part = "page" /\ PageNext /\ UNCHANGED OfPage
PipeMoves == part = "pipe" /\ PipeNext /\ UNCHANGED OfPipe
BandMoves == part = "band" /\ BandNext /\ UNCHANGED OfBand
StatusMoves == part = "status" /\ StatusNext /\ UNCHANGED OfStatus
FrameMoves == part = "frame" /\ FrameNext /\ UNCHANGED OfFrame
WizardMoves == part = "wizard" /\ SetupNext /\ UNCHANGED OfWizard

ShellNext ==
  \/ ContextMoves \/ SettingsMove \/ PageMoves \/ PipeMoves \/ BandMoves
  \/ StatusMoves \/ FrameMoves \/ WizardMoves

\* The tasks run, the timers fire, a write to the pipe ends, the backend
\* answers what the pages ask, and a page's event loop runs.  Only one part
\* moves in a behaviour, so that the parts may share a conjunct.
FirstTurns ==
  \/ part = "context" /\ WorkerStep /\ UNCHANGED OfContext
  \/ part = "page" /\ ShowGoesOn /\ UNCHANGED OfPage
  \/ part = "pipe" /\ SendQueues /\ UNCHANGED OfPipe
  \/ part = "status" /\ StartGoesOn /\ UNCHANGED OfStatus
  \/ part = "frame" /\ Handlers /\ UNCHANGED OfFrame
  \/ part = "wizard" /\ RunGoesOn /\ UNCHANGED OfWizard
SecondTurns ==
  \/ part = "context" /\ SummaryStep /\ UNCHANGED OfContext
  \/ part = "status" /\ MakeAnswers /\ UNCHANGED OfStatus
  \/ part = "frame" /\ Ticks /\ UNCHANGED OfFrame
  \/ part = "wizard" /\ HearsEvent /\ UNCHANGED OfWizard
ThirdTurns == part = "frame" /\ ClickCallEnds /\ UNCHANGED OfFrame

ShellFairness ==
  /\ WF_shellVars(FirstTurns) /\ WF_shellVars(SecondTurns) /\ WF_shellVars(ThirdTurns)
  /\ \A c \in Conn : WF_shellVars(part = "pipe" /\ TaskStep(c) /\ UNCHANGED OfPipe)

ShellSpec == ShellInit /\ [][ShellNext]_shellVars /\ ShellFairness

\* Of four readings two are one wrong glyph apart and two differ in a number.
Similars == {<<"t1", "t2">>, <<"t2", "t1">>}
Templates == [t1 |-> "t1", t2 |-> "t2", n1 |-> "n#", n2 |-> "n#"]

\* The types of every part.
ShellTypeOK == ContextTypeOK /\ SettingsTypeOK /\ HostTypeOK /\ BandTypeOK /\ StatusTypeOK /\ PageTypeOK
               /\ WizardTypeOK

\* What the shell and its pages have begun comes to an end, whatever does not
\* answer: a line and a summary, a show's wait for its page, a replaced
\* connection, a start, a mouse the window does not feel, a preparation.  Only one
\* part moves in a behaviour, so that one formula speaks for several parts.
WorkEnds ==
  /\ []<> ~ \/ part = "context" /\ LineUnderWay
            \/ part = "page" /\ ShowWaits
            \/ part = "pipe" /\ ReplacedIsServed
            \/ part = "status" /\ StartUnderWay
            \/ part = "frame" /\ MouseUnfelt
            \/ part = "wizard" /\ WizardWorks
  /\ []<> ~ \/ part = "context" /\ SummaryUnderWay
            \/ part = "frame" /\ MouseCaught

\* What two sides hold of the same thing agrees: a busy engine is asked again,
\* and a start that waits has somebody to wait for; a running session's mouse
\* is watched, its frame on the page and drawn where the shell captures, but
\* for the two races that FrameComesBack and DrawsWhatIsCaptured name; the
\* pipe's slot holds the newest client; the setup works or offers a retry
\* (engine-status-controller.ts:67, overlay.js:639, server.rs:211,
\* meowcal-setup.ts:221).
PagesAgree == BusyIsAsked /\ FrameComesBack /\ DrawsWhatIsCaptured /\ NewestClientKeepsSlot
              /\ WizardGoesOn
=============================================================================
