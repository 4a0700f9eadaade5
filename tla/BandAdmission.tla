---------------------------- MODULE BandAdmission ----------------------------
(***************************************************************************)
(* One horizontal band of the recognised lines, from frame to frame: the   *)
(* cue it is reading (Cue), its spatial history (TrackedBand) and whether  *)
(* its lines are admitted (BandFilter). Texts are normalised; which are a  *)
(* single glyph apart, and which differ in their numbers only, is given.   *)
(*                                                                         *)
(* Time is kept as the ages the code computes from its timestamps.         *)
(***************************************************************************)
EXTENDS Integers

CONSTANTS
  Text,      \* normalised readings
  Similar,   \* pairs of long readings one wrong glyph apart
  Template,  \* Template[t]: t with its numbers taken out
  MinCue,    \* MIN_CUE_MS
  Static,    \* STATIC_MS
  MaxGap,    \* longest gap two readings are connected over
  Hold,      \* SCATTER_HOLD_MS
  MinObs,    \* readings the spatial verdict needs
  Retire,    \* RETIRE_MS
  Intervals, \* times between two frames
  MaxAge     \* bound on ages: beyond every age compared

Persistent == 2 * Static    \* PERSISTENT_STATIC_MS
Nothing == "nothing"        \* no reading, or one that normalises to nothing

ASSUME BandAssumption ==
  /\ Nothing \notin Text /\ Similar \subseteq Text \X Text /\ DOMAIN Template = Text
  /\ MinCue \in Nat \ {0} /\ 2 * MinCue < Static /\ {Static, MaxAge} \subseteq Nat
  /\ Persistent < MaxAge /\ MaxGap < MaxAge
  /\ {MaxGap, Hold, MinObs, Retire} \subseteq Nat \ {0} /\ Intervals \subseteq Nat \ {0}
  /\ \A p \in Similar : p[1] # p[2] /\ <<p[2], p[1]>> \in Similar

VARIABLE band    \* the TrackedBand, its Cue in the field cue

None == -1

NewCue == [anchor |-> Nothing, pending |-> Nothing, last |-> Nothing,
           age |-> 0, pendingAge |-> 0, since |-> None,
           absent |-> FALSE, static |-> FALSE, fast |-> FALSE, numeric |-> 0,
           named |-> FALSE, confirmed |-> FALSE]
NewBand == [cue |-> NewCue, settled |-> "none", scattered |-> None,
            established |-> FALSE, seen |-> 0, idle |-> 0]

BandInit == band = NewBand

AtMost(n, limit) == IF n > limit THEN limit ELSE n
Later(age, gap) == IF age = None THEN None ELSE AtMost(age + gap, MaxAge)
-----------------------------------------------------------------------------
(* The cue.                                                                *)

\* The cue gap later: screen time counts while readings are close enough. A
\* longer gap disconnects the next reading from the last one.
Aged(c, gap) ==
  IF c.since = None THEN c
  ELSE IF c.since + gap <= MaxGap
       THEN [c EXCEPT !.age = AtMost(@ + c.since + gap, MaxAge),
                      !.pendingAge = IF c.pending = Nothing THEN 0
                                     ELSE AtMost(@ + c.since + gap, MaxAge)]
       ELSE [c EXCEPT !.pending = Nothing, !.last = Nothing, !.pendingAge = 0]

\* mutant: a band out of sight forgets that it was static
CueForgets(c) == [c EXCEPT !.absent = TRUE, !.pending = Nothing, !.pendingAge = 0,
                    !.confirmed = FALSE, !.since = None, !.last = Nothing, !.static = FALSE]

\* The band has no reading in this frame: only what is static is remembered.
CueMissing(c) == [c EXCEPT !.absent = TRUE, !.pending = Nothing, !.pendingAge = 0,
                    !.confirmed = FALSE, !.since = None, !.last = Nothing]

\* The committed anchor again, or for a static one something like it.
Repeats(c, t) ==
  \/ ~c.absent /\ t = c.anchor
  \/ c.static /\ (t = c.anchor \/ <<c.anchor, t>> \in Similar)

\* mutant: only the candidate can be agreed with
AgreesWithCandidateOnly(c, t) ==
  /\ c.since # None
  /\ \/ t = c.pending
     \/ /\ <<c.pending, t>> \in Similar
        /\ {<<c.anchor, t>>, <<c.anchor, c.pending>>} \cap Similar = {}

\* A second reading agrees with the candidate or with the reading before it.
Agrees(c, t) ==
  /\ c.since # None
  /\ \/ t \in {c.pending, c.last}
     \/ /\ <<c.pending, t>> \in Similar
        /\ {<<c.anchor, t>>, <<c.anchor, c.pending>>} \cap Similar = {}

\* The candidate becomes the anchor of a new cue, counted from its first
\* reading. elapsed is the time since the reading before this one.
Committed(c, t, elapsed) ==
  LET exact == t = c.last /\ t # c.pending
      anchor == IF exact THEN t ELSE c.pending
      age == IF exact THEN elapsed ELSE c.pendingAge
      lived == IF c.age > age THEN c.age - age ELSE 0
      counts == /\ c.anchor # Nothing /\ Template[c.anchor] = Template[anchor]
                /\ c.numeric >= 2 \/ (~c.absent /\ lived <= 2 * MinCue)
  IN [c EXCEPT !.anchor = anchor, !.age = age, !.pending = Nothing, !.pendingAge = 0,
        !.fast = c.named /\ ~c.absent /\ lived < MinCue,
        !.numeric = IF counts THEN AtMost(@ + 1, 2) ELSE 0,
        !.named = TRUE, !.absent = FALSE, !.static = FALSE, !.confirmed = TRUE]

\* A first reading of something else is a candidate; one like the anchor is
\* admitted as the anchor's meanwhile.
Considered(c, t) ==
  LET same == <<c.pending, t>> \in Similar IN
  [c EXCEPT !.confirmed = ~c.absent /\ <<c.anchor, t>> \in Similar,
            !.pending = IF same THEN @ ELSE t,
            !.pendingAge = IF same THEN @ ELSE 0]

\* Cue::observe for text t, gap after the frame before.
Observe(cue, t, gap) ==
  LET c == Aged(cue, gap)
      next == IF Repeats(c, t)
              THEN [c EXCEPT !.pending = Nothing, !.pendingAge = 0, !.absent = FALSE,
                             !.confirmed = TRUE,
                             !.numeric = IF c.age >= 2 * MinCue THEN 0 ELSE @]
              ELSE IF Agrees(c, t) THEN Committed(c, t, cue.since + gap)
              ELSE Considered(c, t)
  IN [next EXCEPT !.static = @ \/ (next.confirmed /\ next.age >= Persistent),
                  !.last = t, !.since = 0]

CueVerdict(c) ==
  IF ~c.confirmed \/ ~c.named THEN "Glimpsed"
  ELSE IF c.age >= Static THEN "Static"
  ELSE IF c.numeric >= 2 \/ (c.fast /\ c.age < MinCue) THEN "Churning"
  ELSE "Subtitle"
-----------------------------------------------------------------------------
(* The band.                                                               *)

\* A scattered band keeps its text's verdict for a while once it was a
\* subtitle's; any other is judged by its text.
Settled(b, scattered) ==
  LET since == IF ~scattered THEN None ELSE IF b.scattered = None THEN 0 ELSE b.scattered
      content == CueVerdict(b.cue)
      verdict == IF ~scattered \/ (b.established /\ since < Hold) THEN content ELSE "Scattered"
  IN [b EXCEPT !.scattered = since, !.settled = verdict,
        !.established = IF verdict = "Glimpsed" THEN @ ELSE verdict = "Subtitle"]

\* The band gap later: forgotten when it was out of sight for too long.
Passed(gap) ==
  IF band.seen = 0 \/ band.idle + gap > Retire THEN NewBand
  ELSE [band EXCEPT !.idle = @ + gap, !.scattered = Later(@, gap)]

\* A frame in which band b reads t. A text that normalises to nothing is
\* recorded, but the cue is missing. Whether a band with readings enough
\* scatters depends on geometry not kept here.
ReadsIn(b, gap, t) ==
  LET seen == AtMost(b.seen + 1, MinObs)
      read == [b EXCEPT !.seen = seen, !.idle = 0,
                 !.scattered = IF b.idle > MaxGap THEN None ELSE @,
                 !.cue = IF t = Nothing THEN CueMissing(Aged(@, gap)) ELSE Observe(@, t, gap)]
  IN \E scattered \in {FALSE} \cup (IF seen = MinObs THEN {TRUE} ELSE {}) :
       band' = Settled(read, scattered)

\* When the width of the region has changed the tracker is a new one.
Reads(gap, t) == \E b \in {Passed(gap), NewBand} : ReadsIn(b, gap, t)

\* A frame without the band, or without a line.
Missed(gap) ==
  LET b == Passed(gap) IN
  band' = IF b = NewBand THEN b ELSE [b EXCEPT !.scattered = None, !.cue = CueMissing(@)]

\* Lines without geometry pass, and are not observed.
Unfiltered(gap) ==
  /\ band.seen > 0
  /\ band' = [band EXCEPT !.idle = AtMost(@ + gap, Retire + 1), !.scattered = Later(@, gap),
                          !.cue.since = Later(@, gap)]

\* Any text is admitted for now: the tracker is dropped.
Dropped == band' = NewBand

BandNext ==
  \/ \E gap \in Intervals : Missed(gap) \/ Unfiltered(gap) \/ \E t \in Text \cup {Nothing} : Reads(gap, t)
  \/ Dropped
-----------------------------------------------------------------------------
(* Properties.                                                             *)

BandTypeOK ==
  /\ band.cue \in [anchor : Text \cup {Nothing}, pending : Text \cup {Nothing},
                   last : Text \cup {Nothing}, age : 0 .. MaxAge, pendingAge : 0 .. MaxAge,
                   since : -1 .. MaxAge, absent : BOOLEAN, static : BOOLEAN, fast : BOOLEAN,
                   numeric : 0 .. 2, named : BOOLEAN, confirmed : BOOLEAN]
  /\ band.settled \in {"none", "Glimpsed", "Static", "Churning", "Subtitle", "Scattered"}
  /\ band.scattered \in -1 .. MaxAge /\ band.established \in BOOLEAN
  /\ band.seen \in 0 .. MinObs /\ band.idle \in 0 .. Retire + 1

\* A text that has stood for long (a watermark, a paused player) stays out:
\* neither a frame without it nor a misread admits it again, until another
\* text was read in its place (band_cue.rs, observe and missing).
WatermarkStaysOut ==
  [][band.cue.static /\ band'.seen >= band.seen
     => \/ band'.cue.static /\ band'.settled # "Subtitle"
        \/ band'.cue.anchor # band.cue.anchor]_band

\* Two agreeing readings in a row are a cue, whatever was misread before them
\* and whatever the band was (band_cue.rs, observe).
TwoReadingsConfirm ==
  [][\A gap \in Intervals, t \in Text :
       /\ band.cue.last = t /\ band.cue.since + gap <= MaxGap
       /\ ReadsIn(Passed(gap), gap, t)
       => band'.cue.confirmed]_band

BandsAdmit == WatermarkStaysOut /\ TwoReadingsConfirm
=============================================================================
