------------------------- MODULE TranslationSession -------------------------
(***************************************************************************)
(* What Start and Stop promise together, free of locks, signals and        *)
(* timeouts (docs/ARCHITECTURE.md, "Session teardown"): at most one        *)
(* capture session is open, a session number is never opened again, and    *)
(* a Stop is acknowledged only while nothing is open.                      *)
(***************************************************************************)

CONSTANTS Sessions,     \* the sessions that may ever be started
          Commands      \* the command invocations that may ask for a Stop

VARIABLES open,         \* sessions whose capture task has not exited
          used,         \* sessions that were opened at some time
          acked         \* Stops that have succeeded and still hold the control

vars == <<open, used, acked>>

Init == open = {} /\ used = {} /\ acked = {}

\* A session begins only when none is open and no successful Stop is being
\* carried out.
Open(s) ==
  /\ open = {} /\ acked = {} /\ s \notin used
  /\ open' = {s}
  /\ used' = used \cup {s}
  /\ UNCHANGED acked

\* The capture task of a session has exited: on Stop, or on its own.
Close(s) ==
  /\ s \in open
  /\ open' = open \ {s}
  /\ UNCHANGED <<used, acked>>

\* A Stop succeeds: nothing is open.
Acknowledge(c) ==
  /\ open = {} /\ acked = {}
  /\ acked' = {c}
  /\ UNCHANGED <<open, used>>

\* The Stop has hidden the overlay and lets other commands in.
Return(c) ==
  /\ c \in acked
  /\ acked' = acked \ {c}
  /\ UNCHANGED <<open, used>>

Next == \/ \E s \in Sessions : Open(s) \/ Close(s)
        \/ \E c \in Commands : Acknowledge(c) \/ Return(c)

Spec == Init /\ [][Next]_vars
=============================================================================
