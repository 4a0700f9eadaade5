------------------------------ MODULE SetupWizard ------------------------------
(***************************************************************************)
(* The setup window: languages, licence, the engine's installation and its *)
(* first translation.  Closing the window hides it and opening it sends    *)
(* the page a reset; an installation goes on all the same and reports to   *)
(* whatever page is there when it ends.                                    *)
(* Source: ui/meowcal-setup.ts, ui/setup-steps.ts, wizard_window.rs,       *)
(* commands.rs.                                                            *)
(***************************************************************************)
EXTENDS Naturals, Sequences

CONSTANTS
  MaxOpenings,  \* bound: times the main window opens the setup
  MaxPrepares   \* bound: preparations, retries included

ASSUME WizardAssumption == {MaxOpenings, MaxPrepares} \subseteq Nat

VARIABLES
  setupWindow,  \* "none", "hidden" or "shown"
  listening,    \* the page has registered for the events
  toSetup,      \* events on their way to the page
  wizard,       \* the page's state
  runs,         \* where each preparation is
  openings, prepares

wizardPart == <<setupWindow, listening, toSetup, wizard, runs, openings, prepares>>

Run == 1 .. MaxPrepares
RunStages == {"none", "saving", "installing", "told", "starting", "refreshing", "testing"}

SetupInit ==
  /\ setupWindow = "none" /\ listening = FALSE /\ toSetup = <<>> /\ openings = 0 /\ prepares = 0
  /\ wizard = [step |-> 1, settings |-> FALSE, loading |-> TRUE, ocr |-> FALSE, installingOcr |-> FALSE,
               working |-> FALSE, error |-> FALSE, sample |-> FALSE, terms |-> FALSE]
  /\ runs = [r \in Run |-> "none"]

-----------------------------------------------------------------------------
(* The windows.                                                            *)

\* The page of a new window is in its initial state, and a reset sent before it
\* listens is lost.
OpenSetup ==
  /\ openings < MaxOpenings /\ openings' = openings + 1 /\ setupWindow' = "shown"
  /\ toSetup' = IF listening THEN Append(toSetup, [is |-> "reset", run |-> 0]) ELSE toSetup
  /\ UNCHANGED <<listening, wizard, runs, prepares>>

\* The title bar's button works at any time; the others not while it works.
CloseSetup ==
  /\ setupWindow = "shown" /\ setupWindow' = "hidden"
  /\ UNCHANGED <<listening, toSetup, wizard, runs, openings, prepares>>

CloseFails ==
  /\ setupWindow = "shown" /\ wizard.step # 2 /\ ~wizard.working /\ wizard' = [wizard EXCEPT !.error = TRUE]
  /\ UNCHANGED <<setupWindow, listening, toSetup, runs, openings, prepares>>

-----------------------------------------------------------------------------
(* The page: loading, the languages, the licence.                          *)

WizardBecomes(w) == wizard' = w /\ UNCHANGED <<setupWindow, toSetup, runs, openings, prepares>>

\* The page listens once the first load has ended, well or not, and does so
\* before a user can come to the preparation.
LoadEnds(ok) ==
  /\ setupWindow # "none" /\ wizard.loading /\ listening' = TRUE
  /\ \E ready \in BOOLEAN :
       WizardBecomes([wizard EXCEPT !.loading = FALSE, !.settings = ok, !.ocr = ok /\ ready, !.error = ~ok])

Clicks(w) == setupWindow = "shown" /\ WizardBecomes(w) /\ UNCHANGED listening

RetryLoad == wizard.step = 1 /\ ~wizard.loading /\ ~wizard.settings
             /\ Clicks([wizard EXCEPT !.loading = TRUE, !.error = FALSE])
GoOn == wizard.step = 1 /\ ~wizard.loading /\ wizard.settings /\ Clicks([wizard EXCEPT !.step = 2])
GoBack == wizard.step = 2 /\ Clicks([wizard EXCEPT !.step = 1])
SetLanguage == wizard.step = 2 /\ \E ready \in BOOLEAN : Clicks([wizard EXCEPT !.ocr = ready])
AcceptTerms == wizard.step = 2 /\ \E accepted \in BOOLEAN : Clicks([wizard EXCEPT !.terms = accepted])

InstallOcr ==
  /\ wizard.step = 2 /\ ~wizard.ocr /\ ~wizard.installingOcr
  /\ Clicks([wizard EXCEPT !.installingOcr = TRUE, !.error = FALSE])

\* The language may have been changed while another one was installed.
OcrEnds ==
  /\ wizard.installingOcr /\ UNCHANGED listening
  /\ \/ \E ready \in BOOLEAN :
          WizardBecomes([wizard EXCEPT !.installingOcr = FALSE, !.ocr = ready, !.error = @ \/ ~ready])
     \/ WizardBecomes([wizard EXCEPT !.installingOcr = FALSE, !.error = TRUE])

-----------------------------------------------------------------------------
(* The preparation.                                                        *)

Fail(w) == [w EXCEPT !.working = FALSE, !.error = TRUE]

Offered ==
  \/ wizard.step = 2 /\ wizard.ocr /\ ~wizard.installingOcr
  \/ wizard.step = 3 /\ wizard.error /\ ~wizard.working

BeginEngineSetup ==
  /\ setupWindow = "shown" /\ Offered /\ wizard.terms /\ prepares < MaxPrepares
  /\ prepares' = prepares + 1 /\ runs' = [runs EXCEPT ![prepares + 1] = "saving"]
  /\ wizard' = [wizard EXCEPT !.step = 3, !.working = TRUE, !.error = FALSE]
  /\ UNCHANGED <<setupWindow, listening, toSetup, openings>>

\* A step of a preparation that ends in an exception is its last.
StepEnds(r, next, w) ==
  /\ runs' = [runs EXCEPT ![r] = next] /\ wizard' = w
  /\ UNCHANGED <<setupWindow, listening, openings, prepares>>
Throws(r) == StepEnds(r, "none", Fail(wizard)) /\ UNCHANGED toSetup

SettingsSaved(r) ==
  /\ runs[r] = "saving"
  /\ Throws(r) \/ (StepEnds(r, "installing", wizard) /\ UNCHANGED toSetup)

\* A plausible bug: only a success is told.
InstallEndsSilently(r) ==
  /\ runs[r] = "installing"
  /\ \/ Throws(r)
     \/ StepEnds(r, "none", wizard) /\ UNCHANGED toSetup
     \/ StepEnds(r, "told", wizard) /\ toSetup' = Append(toSetup, [is |-> "complete", run |-> r])

\* An installation tells the page by an event how it ended; one whose record
\* cannot be saved is an exception.
InstallEnds(r) ==
  /\ runs[r] = "installing"
  /\ \/ Throws(r)
     \/ StepEnds(r, "none", wizard) /\ toSetup' = Append(toSetup, [is |-> "failed", run |-> r])
     \/ StepEnds(r, "told", wizard) /\ toSetup' = Append(toSetup, [is |-> "complete", run |-> r])

VerifyReady(r) ==
  /\ runs[r] \in {"starting", "refreshing", "testing"} /\ UNCHANGED toSetup
  /\ \/ StepEnds(r, "none", Fail(wizard))
     \/ runs[r] = "starting" /\ StepEnds(r, "refreshing", wizard)
     \/ runs[r] = "refreshing" /\ StepEnds(r, "testing", wizard)
     \/ runs[r] = "testing" /\ StepEnds(r, "none", [wizard EXCEPT !.sample = TRUE, !.working = FALSE, !.step = 4])

\* A plausible bug: the page stays where it was.
ResetInPlace(w) == [w EXCEPT !.terms = FALSE, !.working = FALSE, !.error = FALSE, !.sample = FALSE]

Reset(w) == [w EXCEPT !.terms = FALSE, !.step = 1, !.working = FALSE, !.error = FALSE, !.sample = FALSE]

HearsEvent ==
  LET e == Head(toSetup)
  IN  /\ toSetup # <<>> /\ toSetup' = Tail(toSetup)
      /\ wizard' = CASE e.is = "reset" -> Reset(wizard) [] e.is = "failed" -> Fail(wizard) [] OTHER -> wizard
      /\ runs' = IF e.is = "complete" THEN [runs EXCEPT ![e.run] = "starting"] ELSE runs
      /\ UNCHANGED <<setupWindow, listening, openings, prepares>>

-----------------------------------------------------------------------------
Windows == OpenSetup \/ CloseSetup \/ CloseFails
LoadSettings == RetryLoad \/ \E ok \in BOOLEAN : LoadEnds(ok)
StepButtons == GoOn \/ GoBack \/ SetLanguage \/ AcceptTerms
InstallSourceOcr == InstallOcr \/ OcrEnds
RunGoesOn == \E r \in Run : SettingsSaved(r) \/ InstallEnds(r) \/ VerifyReady(r)

SetupNext ==
  Windows \/ LoadSettings \/ StepButtons \/ InstallSourceOcr \/ BeginEngineSetup \/ RunGoesOn \/ HearsEvent

\* The backend answers every call, and the page's event loop runs.
SetupFairness == WF_wizardPart(RunGoesOn) /\ WF_wizardPart(HearsEvent)

SetupSpec == SetupInit /\ [][SetupNext]_wizardPart /\ SetupFairness

-----------------------------------------------------------------------------
\* The values the variables take.
WizardTypeOK ==
  /\ setupWindow \in {"none", "hidden", "shown"} /\ wizard.step \in 1 .. 4 /\ runs \in [Run -> RunStages]
  /\ openings \in 0 .. MaxOpenings /\ prepares \in 0 .. MaxPrepares
  /\ Len(toSetup) <= MaxOpenings + MaxPrepares

\* However often the window was closed and opened while something was being
\* installed: the preparation's page either works, with a preparation under
\* way, or offers a retry that the accepted licence allows; and its end tells
\* of a sample that was translated (meowcal-setup.ts:221, setup-steps.ts:167).
WizardGoesOn ==
  /\ wizard.step = 3 => wizard.terms /\ (wizard.working \/ wizard.error)
  /\ wizard.working => \/ \E r \in Run : runs[r] # "none"
                       \/ \E i \in 1 .. Len(toSetup) : toSetup[i].is # "complete"
  /\ wizard.step = 4 => wizard.sample

\* What comes to an end: the page works.
WizardWorks == wizard.working
=============================================================================
