----------------------------- MODULE OverlayHost -----------------------------
(***************************************************************************)
(* The two ends an overlay can be at. First the page of the overlay window *)
(* and the show that recovers it: the page announces its listeners, then   *)
(* beats, and may stop doing either; a show that finds it stale reloads it *)
(* once and waits, bounded. Then the named pipe of the native overlay      *)
(* host: connections that replace one another, the task that serves each,  *)
(* and the messages sent to the newest. The two share no state.            *)
(***************************************************************************)
EXTENDS Naturals

CONSTANTS
  MaxPages,  \* bound on the pages loaded, reloads included
  MaxShows,  \* bound on shows
  MaxConns,  \* bound on connections
  MaxQueue   \* bound on the messages queued for one connection

ASSUME HostAssumption ==
  /\ {MaxPages, MaxConns, MaxQueue} \subseteq Nat \ {0} /\ MaxShows \in Nat

VARIABLES
  page,     \* the overlay page: which load it is and what it does
  mail,     \* events of a page on their way to Rust
  heard,    \* LivenessState; since: a ready came after the recovery began
  show,     \* "idle", or "waiting" for the reloaded page
  shows,    \* shows begun
  slot,     \* IpcServer::client: the id of the connected client, 0 for none
  accepted, \* connections accepted; the newest has this id
  task,     \* handle_client of each connection
  queue,    \* messages queued for each connection
  clone     \* the connection whose sender a send holds, 0 for none

pageVars == <<page, mail, heard, show, shows>>
pipeVars == <<slot, accepted, task, queue, clone>>
hostVars == <<pageVars, pipeVars>>

Conn == 1 .. MaxConns
Event == [kind : {"ready", "beat"}, page : 1 .. MaxPages]

HostInit ==
  /\ page = [load |-> 1, does |-> "loads"] /\ mail = {}
  /\ heard = [ready |-> FALSE, beat |-> "none", since |-> FALSE]
  /\ show = "idle" /\ shows = 0
  /\ slot = 0 /\ accepted = 0 /\ clone = 0
  /\ task = [c \in Conn |-> "none"] /\ queue = [c \in Conn |-> 0]
-----------------------------------------------------------------------------
(* The page and its shows.                                                 *)

\* Listeners are registered: ready once, then a beat a second. The page may
\* wedge before or after, and then does neither.
PageSignals ==
  /\ \/ /\ page.does = "loads" /\ page' = [page EXCEPT !.does = "beats"]
        /\ mail' = mail \cup {[kind |-> "ready", page |-> page.load]}
     \/ /\ page.does = "beats" /\ UNCHANGED page
        /\ mail' = mail \cup {[kind |-> "beat", page |-> page.load]}
     \/ /\ page.does # "wedged" /\ page' = [page EXCEPT !.does = "wedged"]
        /\ UNCHANGED mail
  /\ UNCHANGED <<heard, show, shows>>

\* An event arrives: Rust does not know which page sent it. Without one the
\* last beat gets old.
RustHears ==
  /\ \/ \E e \in mail :
          /\ mail' = mail \ {e}
          /\ heard' = IF e.kind = "ready" THEN [heard EXCEPT !.ready = TRUE, !.since = TRUE]
                                          ELSE [heard EXCEPT !.beat = "fresh"]
     \/ heard.beat = "fresh" /\ heard' = [heard EXCEPT !.beat = "old"] /\ UNCHANGED mail
  /\ UNCHANGED <<page, show, shows>>

NeedsRecovery == ~heard.ready \/ heard.beat # "fresh"

\* A show reloads a stale page once, or fails to, and waits for a ready.
ShowBegins ==
  /\ show = "idle" /\ shows < MaxShows /\ shows' = shows + 1
  /\ IF NeedsRecovery
     THEN /\ show' = "waiting" /\ heard' = [heard EXCEPT !.since = FALSE]
          /\ page' \in {page} \cup (IF page.load < MaxPages
                                    THEN {[load |-> page.load + 1, does |-> "loads"]} ELSE {})
     ELSE UNCHANGED <<show, heard, page>>
  /\ UNCHANGED <<mail>>

\* mutant: the wait has no deadline
ShowReturnsOnReady ==
  /\ show = "waiting" /\ heard.since /\ show' = "idle"
  /\ UNCHANGED <<page, mail, heard, shows>>

\* The show goes on when a ready has come since, and anyway at the deadline.
ShowGoesOn ==
  /\ show = "waiting"
  /\ show' = "idle"
  /\ UNCHANGED <<page, mail, heard, shows>>
-----------------------------------------------------------------------------
(* The pipe.                                                               *)

Serving(c) == task[c] = "serving"
Becomes(c, at) == task' = [task EXCEPT ![c] = at]

\* A connection takes the slot, and with it the sender of the one before.
Accept ==
  /\ accepted < MaxConns /\ accepted' = accepted + 1 /\ slot' = accepted'
  /\ Becomes(accepted', "serving")
  /\ UNCHANGED <<queue, clone>>

\* The host has closed its end, or a read of it fails. A line that is read
\* goes to the handler and leaves the connection as it is.
ReadEnds(c) ==
  /\ Serving(c) /\ Becomes(c, "ending")
  /\ UNCHANGED <<slot, accepted, queue, clone>>

\* A queued message is written, which may fail and then ends the loop.
TakeMessage(c) ==
  /\ Serving(c) /\ queue[c] > 0
  /\ queue' = [queue EXCEPT ![c] = @ - 1] /\ Becomes(c, "writing")
  /\ UNCHANGED <<slot, accepted, clone>>

WriteEnds(c) ==
  /\ task[c] = "writing"
  /\ Becomes(c, "serving") \/ Becomes(c, "ending")
  /\ UNCHANGED <<slot, accepted, queue, clone>>

\* No sender is left and the queue is empty: replaced by a newer connection.
LosesSender(c) ==
  /\ Serving(c) /\ queue[c] = 0 /\ slot # c /\ clone # c
  /\ Becomes(c, "ending")
  /\ UNCHANGED <<slot, accepted, queue, clone>>

\* mutant: the slot is cleared whoever is in it
LeavesWhoeverIsThere(c) ==
  /\ task[c] = "ending" /\ Becomes(c, "gone") /\ slot' = 0
  /\ UNCHANGED <<accepted, queue, clone>>

\* The task ends, and clears the slot when it is still its own.
Leaves(c) ==
  /\ task[c] = "ending" /\ Becomes(c, "gone")
  /\ slot' = IF slot = c THEN 0 ELSE slot
  /\ UNCHANGED <<accepted, queue, clone>>

\* A send takes the sender of the client in the slot.
SendBegins ==
  /\ clone = 0 /\ slot # 0 /\ clone' = slot
  /\ UNCHANGED <<slot, accepted, task, queue>>

\* It queues its message there. A task that has gone meanwhile refuses it, and
\* loses the slot if it still has it.
SendQueues ==
  /\ clone # 0 /\ clone' = 0
  /\ \/ /\ task[clone] = "gone" /\ slot' = IF slot = clone THEN 0 ELSE slot
        /\ UNCHANGED queue
     \/ /\ task[clone] # "gone" /\ queue[clone] < MaxQueue
        /\ queue' = [queue EXCEPT ![clone] = @ + 1] /\ UNCHANGED slot
  /\ UNCHANGED <<accepted, task>>
-----------------------------------------------------------------------------
\* What the scheduler and the timer owe: a task with work, and a show's wait.
TaskStep(c) == TakeMessage(c) \/ WriteEnds(c) \/ LosesSender(c) \/ Leaves(c)

PageNext == PageSignals \/ RustHears \/ ShowBegins \/ ShowGoesOn
PipeNext == Accept \/ SendBegins \/ SendQueues \/ \E c \in Conn : ReadEnds(c) \/ TaskStep(c)
-----------------------------------------------------------------------------
(* Properties.                                                             *)

HostTypeOK ==
  /\ page \in [load : 1 .. MaxPages, does : {"loads", "beats", "wedged"}]
  /\ mail \subseteq Event /\ show \in {"idle", "waiting"} /\ shows \in 0 .. MaxShows
  /\ heard \in [ready : BOOLEAN, beat : {"none", "fresh", "old"}, since : BOOLEAN]
  /\ {slot, clone} \subseteq 0 .. accepted /\ accepted \in 0 .. MaxConns
  /\ task \in [Conn -> {"none", "serving", "writing", "ending", "gone"}]
  /\ queue \in [Conn -> 0 .. MaxQueue]

\* While the newest connection is served it can be sent to: no older one, late
\* to notice that it was replaced, takes the slot from it (ipc/server.rs,
\* handle_client and send).
NewestClientKeepsSlot ==
  accepted > 0 => slot = accepted \/ task[accepted] = "gone"

\* What is never so for good: a replaced connection, to which nothing can be
\* sent again, is served, or a show is held up by a page that does not come back.
ReplacedIsServed == \E c \in Conn : Serving(c) /\ slot # c
ShowWaits == show = "waiting"
=============================================================================
