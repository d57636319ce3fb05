-------------------------- MODULE WorkerCommands --------------------------
(***************************************************************************)
(* The command queue between the C shell and the worker of one session:    *)
(* the entry points of ffi.rs, the bounded channel, and the worker that    *)
(* sends the commands to the server while it connects, serves, is          *)
(* reactivated by the server and, after a handoff, connects again.         *)
(*                                                                         *)
(* The caller is the SDL thread: it makes one call at a time and may sleep *)
(* in a send to a full queue.  The other threads of the shell only leave   *)
(* wake hints, which a full queue refuses.                                 *)
(*                                                                         *)
(* A step of the worker is one command sent, one command put aside by      *)
(* drain_commands, or one phase entered.  Deadlines are not counted: a     *)
(* phase may end in a network error at any step.                           *)
(***************************************************************************)
EXTENDS Integers, SequencesExt

CONSTANTS
    Depth,              \* INPUT_QUEUE_DEPTH
    MaxAttempts,        \* MAX_SESSION_ATTEMPTS
    MaxReactivations,   \* bound on the reactivations of a run
    MaxPresses,         \* bound on keys and buttons
    MaxControls         \* bound on suppress and refresh calls

ASSUME CommandBounds ==
    /\ Depth \in Nat \ {0}
    /\ MaxAttempts \in Nat \ {0}
    /\ MaxReactivations \in Nat /\ MaxPresses \in Nat /\ MaxControls \in Nat

VARIABLES
    worker,     \* where the worker is, and its attempt
    rx,         \* the channel
    pending,    \* pending_control and pending_input
    latched,    \* suppress_display_latched
    stop,       \* the stop flag
    caller,     \* what the SDL thread does, and the command it is sending
    server,     \* what the server was told on this connection
    published,  \* the state the shell was last told
    asked       \* history of the calls, for the properties

vars == <<worker, rx, pending, latched, stop, caller, server, published, asked>>

-----------------------------------------------------------------------------
\* Commands (input.rs).  A key, button or wheel event is an edge and carries its place in
\* the order of the calls; what a pointer move points at is left out.

Edge(n)   == [kind |-> "edge", n |-> n]
Toggle(b) == [kind |-> "suppress", allow |-> b]
Move      == [kind |-> "move"]
Refresh   == [kind |-> "refresh"]
Ready     == [kind |-> "ready"]
Stop      == [kind |-> "stop"]

Command == {Edge(n) : n \in 1..MaxPresses} \cup {Toggle(b) : b \in BOOLEAN}
               \cup {Move, Refresh, Ready, Stop}

IsEdge(c)   == c.kind = "edge"
IsToggle(c) == c.kind = "suppress"
Droppable(c) == c.kind \in {"move", "ready"}

NothingPending == [control |-> <<>>, input |-> <<>>]
NewConnection  == [display |-> TRUE, edges |-> <<>>]
Awake          == [pc |-> "idle", cmd |-> Ready]

Toggles(seq) == {i \in DOMAIN seq : IsToggle(seq[i])}

\* retain, of what may be put aside: the refresh, of which there is one at most.
Retained(control) == IF Contains(control, Refresh) THEN <<Refresh>> ELSE <<>>

\* A variant of Buffer that joins a move with the last command whatever it is.
BufferOverEdges(p, c) ==
    CASE c.kind = "suppress" ->
             [p EXCEPT !.control = Append(Retained(@), c)]
      [] c.kind = "refresh" ->
             [p EXCEPT !.control = IF Contains(@, Refresh) THEN @ ELSE Append(@, c)]
      [] c.kind \in {"move", "edge"} ->
             [p EXCEPT !.input = (IF @ # <<>> THEN Front(@) ELSE @) \o <<c>>]
      [] OTHER -> p

\* drain_commands puts one command aside.
Buffer(p, c) ==
    CASE c.kind = "suppress" ->
             [p EXCEPT !.control = Append(Retained(@), c)]
      [] c.kind = "refresh" ->
             [p EXCEPT !.control = IF Contains(@, Refresh) THEN @ ELSE Append(@, c)]
      [] c.kind = "move" ->
             [p EXCEPT !.input = IF @ # <<>> /\ Last(@) = Move THEN @ ELSE Append(@, c)]
      [] c.kind = "edge" -> [p EXCEPT !.input = Append(@, c)]
      [] OTHER -> p

\* What run_active finds to send first: a suppression kept from before the connection,
\* unless a newer toggle waits.
Relatched(p) ==
    [control |-> IF latched /\ Toggles(p.control) = {}
                     THEN Append(p.control, Toggle(FALSE)) ELSE p.control,
     input   |-> <<>>]

\* A variant of KeptSuppression that forgets what was put aside.
KeptSuppressionOfSent(p) == latched

\* The suppression reset_session_state keeps for the next attempt.
KeptSuppression(p) ==
    IF Toggles(p.control) # {} THEN Contains(p.control, Toggle(FALSE)) ELSE latched

-----------------------------------------------------------------------------
Init ==
    /\ worker = [pc |-> "connecting", attempt |-> 1, reactivations |-> 0]
    /\ rx = <<>>
    /\ pending = NothingPending
    /\ latched = FALSE
    /\ stop = FALSE
    /\ caller = Awake
    /\ server = NewConnection
    /\ published = "connecting"
    /\ asked = [display |-> TRUE, edges |-> {}, refresh |-> FALSE,
                presses |-> 0, controls |-> 0]

-----------------------------------------------------------------------------
\* The entry points.

\* enqueue_command: what may be lost is dropped by a full queue, the rest waits.
Enqueue(c) ==
    CASE worker.pc = "done" -> UNCHANGED <<rx, caller>>
      [] worker.pc # "done" /\ Len(rx) < Depth -> rx' = Append(rx, c) /\ UNCHANGED caller
      [] worker.pc # "done" /\ Len(rx) = Depth ->
             /\ caller' = IF Droppable(c) THEN caller ELSE [pc |-> "sending", cmd |-> c]
             /\ UNCHANGED rx

\* The shell sends input to an ACTIVE session only.
PointerMove ==
    /\ caller.pc = "idle" /\ published = "active"
    /\ Enqueue(Move)
    /\ UNCHANGED <<worker, pending, latched, stop, server, published, asked>>

\* A key, button or wheel event; the history keeps those of the connection.
Press ==
    /\ caller.pc = "idle" /\ published = "active"
    /\ asked.presses < MaxPresses
    /\ LET e == Edge(asked.presses + 1) IN
         /\ Enqueue(e)
         /\ asked' = [asked EXCEPT !.presses = @ + 1, !.edges = @ \cup {e}]
    /\ UNCHANGED <<worker, pending, latched, stop, server, published>>

\* The shell resumes only a session it suppressed.
SetSuppressOutput(allow) ==
    /\ caller.pc = "idle"
    /\ allow => ~asked.display
    /\ asked.controls < MaxControls
    /\ Enqueue(Toggle(allow))
    /\ asked' = [asked EXCEPT !.controls = @ + 1, !.display = allow,
                              !.refresh = @ /\ allow]
    /\ UNCHANGED <<worker, pending, latched, stop, server, published>>

\* The shell refreshes a session it displays; the history owes it an answer.
RequestRefresh ==
    /\ caller.pc = "idle" /\ asked.display
    /\ asked.controls < MaxControls
    /\ Enqueue(Refresh)
    /\ asked' = [asked EXCEPT !.controls = @ + 1, !.refresh = TRUE]
    /\ UNCHANGED <<worker, pending, latched, stop, server, published>>

\* The sleeping send finds room, or no receiver.
SendReturns ==
    /\ caller.pc = "sending"
    /\ worker.pc = "done" \/ Len(rx) < Depth
    /\ rx' = IF worker.pc = "done" THEN rx ELSE Append(rx, caller.cmd)
    /\ caller' = Awake
    /\ UNCHANGED <<worker, pending, latched, stop, server, published, asked>>

\* A hint of a capture thread; native_stop_slot detaches them before it stops the session.
MediaReady ==
    /\ caller.pc \in {"idle", "sending"}
    /\ worker.pc # "done" /\ Len(rx) < Depth
    /\ rx' = Append(rx, Ready)
    /\ UNCHANGED <<worker, pending, latched, stop, caller, server, published, asked>>

\* rdp_session_stop, up to the join.
SessionStop ==
    /\ caller.pc = "idle"
    /\ stop' = TRUE
    /\ rx' = IF worker.pc # "done" /\ Len(rx) < Depth THEN Append(rx, Stop) ELSE rx
    /\ caller' = [pc |-> "joining", cmd |-> Ready]
    /\ UNCHANGED <<worker, pending, latched, server, published, asked>>

JoinReturns ==
    /\ caller.pc = "joining" /\ worker.pc = "done"
    /\ caller' = [pc |-> "stopped", cmd |-> Ready]
    /\ UNCHANGED <<worker, rx, pending, latched, stop, server, published, asked>>

-----------------------------------------------------------------------------
\* The worker.

\* run returns and worker_main reports the last state; the receiver is dropped.
Finish ==
    /\ worker' = [worker EXCEPT !.pc = "done"]
    /\ rx' = <<>>
    /\ published' = "stopped"
    /\ UNCHANGED <<pending, latched, stop, caller, server, asked>>

\* A network or protocol error, or a stop noticed: none of them is retried.
Fail == worker.pc # "done" /\ Finish

\* The server ends the session for a handoff: reset_session_state and the pause follow.
Handoff ==
    /\ worker.pc \in {"handshake", "graphics", "reactivating"}
    /\ IF stop \/ worker.attempt = MaxAttempts
         THEN Finish
         ELSE /\ worker' = [worker EXCEPT !.pc = "backoff", !.attempt = @ + 1]
              /\ published' = "reconnecting"
              /\ latched' = KeptSuppression(pending)
              /\ pending' = NothingPending
              /\ UNCHANGED <<rx, stop, caller, server, asked>>

Reconnect ==
    /\ worker.pc = "backoff"
    /\ worker' = [worker EXCEPT !.pc = "connecting"]
    /\ published' = "connecting"
    /\ server' = NewConnection
    /\ asked' = [asked EXCEPT !.refresh = FALSE]
    /\ UNCHANGED <<rx, pending, latched, stop, caller>>

Draining == worker.pc \in {"connecting", "handshake", "reactivating"}
StopNext == rx # <<>> /\ Head(rx) = Stop

\* drain_commands, between the reads of a phase that sends no command: it takes what there
\* is, so a command that comes after it comes to the next one, or to run_active.
DrainCommand ==
    /\ Draining /\ rx # <<>> /\ ~StopNext
    /\ pending' = Buffer(pending, Head(rx))
    /\ rx' = Tail(rx)
    /\ UNCHANGED <<worker, latched, stop, caller, server, published, asked>>

\* A variant of DrainStops in which a reactivation does not look for a stop.
DrainStopsConnecting ==
    /\ worker.pc \in {"connecting", "handshake"} /\ (stop \/ StopNext)
    /\ Finish

\* A drain that finds a stop.
DrainStops ==
    /\ Draining /\ (stop \/ StopNext)
    /\ Finish

\* The first drain of an attempt, after which the handshake goes on.
BeginHandshake ==
    /\ worker.pc = "connecting" /\ rx = <<>>
    /\ worker' = [worker EXCEPT !.pc = "handshake"]
    /\ UNCHANGED <<rx, pending, latched, stop, caller, server, published, asked>>

\* run_active, up to its loop.  A press still asleep in its send is the new connection's.
Activate ==
    /\ worker.pc = "handshake" /\ rx = <<>>
    /\ worker' = [worker EXCEPT !.pc = "input"]
    /\ published' = "active"
    /\ pending' = Relatched(pending)
    /\ asked' = [asked EXCEPT !.edges = {c \in {caller.cmd} : IsEdge(c)}]
    /\ UNCHANGED <<rx, latched, stop, caller, server>>

\* dispatch_control and dispatch_input: one command goes to the server.
Dispatch(c) ==
    /\ latched' = IF IsToggle(c) THEN ~c.allow ELSE latched
    /\ server' = CASE IsToggle(c) -> [server EXCEPT !.display = c.allow]
                   [] IsEdge(c)   -> [server EXCEPT !.edges = Append(@, c)]
                   [] OTHER       -> server
    /\ asked' = IF c = Refresh /\ server.display THEN [asked EXCEPT !.refresh = FALSE] ELSE asked

\* drain_input: what was put aside, control first, and then the channel.
SendControl ==
    /\ worker.pc = "input" /\ ~stop
    /\ pending.control # <<>>
    /\ Dispatch(Head(pending.control))
    /\ pending' = [pending EXCEPT !.control = Tail(@)]
    /\ UNCHANGED <<worker, rx, stop, caller, published>>

SendInput ==
    /\ worker.pc = "input" /\ ~stop
    /\ pending.control = <<>> /\ pending.input # <<>>
    /\ Dispatch(Head(pending.input))
    /\ pending' = [pending EXCEPT !.input = Tail(@)]
    /\ UNCHANGED <<worker, rx, stop, caller, published>>

SendNext ==
    /\ worker.pc = "input" /\ ~stop
    /\ pending = NothingPending /\ rx # <<>>
    /\ Head(rx) # Stop
    /\ Dispatch(Head(rx))
    /\ rx' = Tail(rx)
    /\ UNCHANGED <<worker, pending, stop, caller, published>>

InputDrained ==
    /\ worker.pc = "input" /\ ~stop
    /\ pending = NothingPending /\ rx = <<>>
    /\ worker' = [worker EXCEPT !.pc = "graphics"]
    /\ UNCHANGED <<rx, pending, latched, stop, caller, server, published, asked>>

\* The stop flag ends the loop at its top, and a write; the command ends drain_input.
LoopStops == worker.pc = "input" /\ stop /\ Finish

\* The rest of a turn: PDUs, drain_gfx and the read.
EndTurn ==
    /\ worker.pc = "graphics"
    /\ worker' = [worker EXCEPT !.pc = "input"]
    /\ UNCHANGED <<rx, pending, latched, stop, caller, server, published, asked>>

\* recover_bitmap asks for a redraw, which leaves the display on.
RecoverBitmap ==
    /\ worker.pc = "graphics" /\ ~latched
    /\ server' = [server EXCEPT !.display = TRUE]
    /\ UNCHANGED <<worker, rx, pending, latched, stop, caller, published, asked>>

\* Deactivate-All.
BeginReactivation ==
    /\ worker.pc = "graphics"
    /\ worker.reactivations < MaxReactivations
    /\ worker' = [worker EXCEPT !.pc = "reactivating", !.reactivations = @ + 1]
    /\ UNCHANGED <<rx, pending, latched, stop, caller, server, published, asked>>

\* drive_reactivation returns: a drain comes before every look at the sequence.  A server
\* that displays starts the new graphics with a keyframe.
FinishReactivation ==
    /\ worker.pc = "reactivating" /\ rx = <<>>
    /\ worker' = [worker EXCEPT !.pc = "graphics"]
    /\ asked' = [asked EXCEPT !.refresh = @ /\ ~server.display]
    /\ UNCHANGED <<rx, pending, latched, stop, caller, server, published>>

-----------------------------------------------------------------------------
Caller == PointerMove \/ Press \/ RequestRefresh \/ SendReturns \/ SessionStop
              \/ JoinReturns \/ \E allow \in BOOLEAN : SetSuppressOutput(allow)

\* The steps the worker takes by itself.
Turn == DrainCommand \/ DrainStops \/ BeginHandshake \/ SendControl \/ SendInput \/ SendNext
            \/ InputDrained \/ LoopStops \/ EndTurn \/ FinishReactivation \/ Activate
            \/ Reconnect

\* What the server and the network do to it.
Server == Fail \/ Handoff \/ RecoverBitmap \/ BeginReactivation

Next == Caller \/ MediaReady \/ Turn \/ Server

Spec == Init /\ [][Next]_vars

\* The worker polls its sockets every IO_POLL_TIMEOUT and bounds every phase, so it always
\* takes its next step.  A send asleep on the channel is woken by every command received;
\* the hints that could take its place are a few per video frame, the channel holds 1024.
FairSpec == Spec /\ WF_vars(Turn) /\ WF_vars(JoinReturns) /\ SF_vars(SendReturns)

-----------------------------------------------------------------------------
\* Properties.

Connected == worker.pc \in {"input", "graphics", "reactivating"}

\* All commands that have not been sent, in the order they will be.
Waiting == pending.control \o pending.input \o rx \o <<caller.cmd>>

\* On a connection with no suppress call left to send, the server displays exactly when the
\* last call said so: the calls made while the worker connected, was reactivated or waited
\* to reconnect are coalesced and kept, but the last one always wins (drain_commands,
\* reset_session_state, run_active, recover_bitmap).
LastToggleWins == Connected /\ Toggles(Waiting) = {} => server.display = asked.display

\* Keys, buttons and wheel steps of a connection reach it once, in order, and none is lost to
\* a full queue or a reactivation; none that was queued when a connection ended is sent to
\* the next one (enqueue_command, drain_commands, reset_session_state, run_active).
EdgesKept ==
    LET all   == server.edges \o Waiting
        Edges == {i \in DOMAIN all : IsEdge(all[i])}
    IN  Connected => /\ {all[i] : i \in Edges} = asked.edges
                     /\ \A i, j \in Edges : i < j => all[i].n < all[j].n

\* No call blocks the SDL thread for ever: a send to a full queue and a stop return whatever
\* the worker is doing and however the session ends (ffi.rs:103-108, 190-200).
CallsReturn == caller.pc \in {"sending", "joining"} ~> caller.pc \in {"idle", "stopped"}

\* "One queued refresh is as good as many": a refresh asked for after the display was resumed
\* is sent to a displaying server (drain_commands).
RefreshHeeded ==
    Connected /\ Toggles(Waiting) = {} /\ ~Contains(Waiting, Refresh) => ~asked.refresh

=============================================================================
