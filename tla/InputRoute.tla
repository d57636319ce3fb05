------------------------------ MODULE InputRoute ------------------------------
(***************************************************************************)
(* From a hand on the mouse or keyboard to the server on the screen:       *)
(* input_evdev.c, native_input_route.c, native_pointer.c, the input part   *)
(* of native_sdl_events.c and native_mixer_overlay.c, and the places where *)
(* the screen changes hands.                                               *)
(*                                                                         *)
(* While the grab is held a USB device is read by the evdev thread; what   *)
(* is not grabbed reaches the compositor and comes back as SDL events.     *)
(* The SDL thread goes round native_run_app_loop: drain evdev, handle SDL  *)
(* events (or pump the preconnect screen), tick, present.  It and the      *)
(* reader exclude each other by input->lock, held for a whole sweep, and   *)
(* by the join in a stop.  Motion and the wheel are left out, and so is    *)
(* time: an idle panel, a moved volume are choices.                        *)
(***************************************************************************)
EXTENDS EventQueue, SequencesExt

CONSTANTS
    Slots,      \* the session slots, whose colour keys are controls too
    None,
    Scenarios   \* what there is to press and what may happen: a set of Scenario

Usb == {"mouse", "keyboard"}
Devices == Usb \cup {"pointer"}             \* the compositor's own pointer
Forwarded == {"left", "key"}                \* what a server is sent
Buttons == {"left", "extra", "side"}
Codes == Forwarded \cup Buttons \cup Slots
Mishaps == {"blur", "away", "unplug", "plug", "dead", "volume", "reconnect", "end"}

\* What there is on a device.  The pointer's remote has the colour keys too.
Has == [mouse |-> Buttons, keyboard |-> {"key"} \cup Slots, pointer |-> Buttons \cup Slots]

\* Controls are pairs of a device and a code; edges bounds what the user does.
IsScenario(sc) ==
    /\ DOMAIN sc = {"controls", "plugged", "mishaps", "edges"}
    /\ sc.controls \subseteq {c \in Devices \X Codes : c[2] \in Has[c[1]]}
    /\ sc.plugged \subseteq Usb
    /\ sc.mishaps \subseteq Mishaps
    /\ sc.edges \in Nat

\* There is a session slot, and a colour key is no other control.
ASSUME SlotsAssumption == Slots # {} /\ Slots \cap (Forwarded \cup Buttons) = {}

ASSUME InputScenariosAssumption == Scenarios # {} /\ \A sc \in Scenarios : IsScenario(sc)

VARIABLES
    app,        \* App: screen, panel, held inputs, and where the SDL thread is
    evdev,      \* NativeEvdevInput and its thread
    tv,         \* the kernel, the compositor and the user's hands
    server,     \* the sessions: their state, and what each server holds down
    scenario    \* the scenario of this behaviour, never changed

vars == <<app, evdev, tv, server, scenario>>

Event == [time: Nat, kind: Usb, code: Codes, down: BOOLEAN]
SdlEvent == [kind: {"button", "colour", "lost", "gained", "away", "back"},
             code: Codes \cup {None}, down: BOOLEAN]

App == [slot: Slots, streaming: BOOLEAN, hub: BOOLEAN, armed: BOOLEAN,
        unfocused: BOOLEAN, away: BOOLEAN,
        panel: BOOLEAN, mask: SUBSET Buttons, dismiss: Buttons \cup {None},
        closing: BOOLEAN, drag: BOOLEAN,
        held: SUBSET Forwarded, side: BOOLEAN, batch: Seq(Event), last: Nat,
        phase: {"drain", "sdl", "pump", "tick", "present"}, sampling: BOOLEAN]
Evdev == [started: BOOLEAN, running: BOOLEAN, grabbed: SUBSET Usb,
          queue: [events: Seq(Event), reset: BOOLEAN, before: Nat],
          sweeping: BOOLEAN, scan: BOOLEAN, todo: SUBSET Usb, cutoff: Nat, queued: BOOLEAN]
Tv == [pressed: SUBSET (Devices \X Codes), plugged: SUBSET Usb, news: BOOLEAN,
       ready: SUBSET Usb, hung: SUBSET Usb, focus: {"ours", "lost", "away"}, now: Nat,
       fd: [Usb -> Seq(Event)], sdl: Seq(SdlEvent), stale: SUBSET Buttons]
Server == [state: {"active", "connecting", "ended", "gone"}, down: SUBSET Forwarded]

TypeOK ==
    /\ app \in App
    /\ evdev \in Evdev
    /\ tv \in Tv
    /\ server \in [Slots -> Server]
    /\ scenario \in Scenarios

\* A grabbed live stream of one of the slots, which are alike, all connected.
Init ==
    /\ scenario \in Scenarios
    /\ LET s == CHOOSE x \in Slots : TRUE
       IN app = [slot |-> s, streaming |-> TRUE, hub |-> FALSE, armed |-> TRUE,
                unfocused |-> FALSE, away |-> FALSE,
                panel |-> FALSE, mask |-> {}, dismiss |-> None,
                closing |-> FALSE, drag |-> FALSE,
                held |-> {}, side |-> FALSE, batch |-> <<>>, last |-> 0,
                phase |-> "drain", sampling |-> FALSE]
    /\ evdev = [started |-> TRUE, running |-> TRUE, grabbed |-> scenario.plugged,
                queue |-> EmptyQueue, sweeping |-> FALSE, scan |-> FALSE, todo |-> {},
                cutoff |-> 0, queued |-> FALSE]
    /\ tv = [pressed |-> {}, plugged |-> scenario.plugged, news |-> FALSE,
             ready |-> {}, hung |-> {}, focus |-> "ours", now |-> 0,
             fd |-> [d \in Usb |-> <<>>], sdl |-> <<>>, stale |-> {}]
    /\ server = [s \in Slots |-> [state |-> "active", down |-> {}]]

World == [app |-> app, evdev |-> evdev, tv |-> tv, server |-> server]
Become(w) ==
    /\ app' = w.app /\ evdev' = w.evdev /\ tv' = w.tv /\ server' = w.server
    /\ UNCHANGED scenario

-----------------------------------------------------------------------------
(* native_input_*, native_track_*, native_flush_held_inputs                *)

Connected(w) == w.server[w.app.slot].state = "active"
Ready(w) == w.app.armed /\ w.server[w.app.slot].state # "gone"

\* A session that is not active has no server to hold anything.
Send(w, code, down) ==
    IF ~(Ready(w) /\ Connected(w)) THEN w
    ELSE [w EXCEPT !.server[w.app.slot].down = IF down THEN @ \cup {code} ELSE @ \ {code}]

Track(w, code, down) ==
    [w EXCEPT !.app.held = IF down THEN @ \cup {code} ELSE @ \ {code}]

\* The release of everything held, to the server input is wired to.
Flush(w) ==
    LET up == IF Ready(w) /\ Connected(w)
              THEN [w EXCEPT !.server[w.app.slot].down = @ \ w.app.held] ELSE w
    IN  [up EXCEPT !.app.held = {}]

-----------------------------------------------------------------------------
(* The grab: native_start_streaming_input, native_stop_streaming_input     *)

\* native_streaming_input_focused: SDL's keyboard focus agrees with the focus
\* events that were handled.
Focused(w) == ~w.app.unfocused /\ ~w.app.away

\* tv.stale is history: the buttons whose release SDL may never give out.  Here
\* are those whose press it has queued among its first n events.
Queued(w, n) ==
    {b \in Buttons : \E i \in 1..n : /\ w.tv.sdl[i].kind = "button" /\ w.tv.sdl[i].down
                                     /\ w.tv.sdl[i].code = b}

\* Every node that is there is opened and grabbed; nothing was read from it.
Start(w) ==
    IF ~Focused(w) \/ w.evdev.started THEN w
    ELSE [w EXCEPT !.evdev = [@ EXCEPT !.started = TRUE, !.running = TRUE,
                                       !.grabbed = w.tv.plugged],
                   !.tv.stale = (@ \cap w.app.held) \cup Queued(w, Len(w.tv.sdl))]

\* The join and the ungrab.  What was read and not drained is dropped.
Release(w) ==
    [w EXCEPT !.evdev = [@ EXCEPT !.started = FALSE, !.running = FALSE, !.grabbed = {},
                                  !.queue = EmptyQueue, !.queued = FALSE],
              !.tv = [@ EXCEPT !.fd = [d \in Usb |-> <<>>], !.news = FALSE,
                               !.ready = {}, !.hung = {}]]

\* With the panel up the buttons that are down are sampled once the mice are
\* ungrabbed (Sample), the next step of this stop.
\* Mutant: the buttons held at the handoff are those that were forwarded.
StopUnsampled(w) ==
    LET off == [Flush(w) EXCEPT !.app.armed = FALSE, !.app.side = FALSE]
    IN  IF ~off.evdev.started THEN off ELSE Release(off)

Stop(w) ==
    LET off == [Flush(w) EXCEPT !.app.armed = FALSE, !.app.side = FALSE]
    IN  IF ~off.evdev.started THEN off
        ELSE [Release(off) EXCEPT !.app.sampling = w.app.panel /\ "mouse" \in w.evdev.grabbed]

-----------------------------------------------------------------------------
(* The mixer panel: native_mixer_overlay_show, _hide, _force_hide          *)

\* A device that was lost, and whose reset is not drained, may have held them.
ShowPanel(w) ==
    LET up == [w EXCEPT !.app = [@ EXCEPT !.panel = TRUE, !.drag = FALSE, !.dismiss = None,
                                          !.closing = FALSE, !.mask = w.app.held \cap Buttons],
                        !.tv.stale = IF w.evdev.queue.reset THEN @ \cup (w.app.held \cap Buttons)
                                     ELSE @]
    IN  [Stop(up) EXCEPT !.app.armed = FALSE]

\* Mutant: the panel closes without the grab.
HideUngrabbed(w) ==
    IF ~w.app.panel THEN w
    ELSE IF w.app.dismiss # None \/ w.app.mask # {} THEN [w EXCEPT !.app.closing = TRUE]
    ELSE [w EXCEPT !.app.panel = FALSE, !.app.drag = FALSE, !.app.closing = FALSE]

\* A close waits for every button that is down; then the stream gets the grab
\* back, if it is the one on screen.
Hide(w) ==
    IF ~w.app.panel THEN w
    ELSE IF w.app.dismiss # None \/ w.app.mask # {} THEN [w EXCEPT !.app.closing = TRUE]
    ELSE LET down == [w EXCEPT !.app.panel = FALSE, !.app.drag = FALSE, !.app.closing = FALSE]
         IN  IF w.app.streaming /\ ~w.app.unfocused /\ Connected(w) THEN Start(down) ELSE down

ForceHide(w) == Hide([w EXCEPT !.app.dismiss = None, !.app.closing = FALSE, !.app.mask = {}])

-----------------------------------------------------------------------------
(* The screen changes hands                                                *)

\* native_show_hub
ShowHub(w) ==
    IF ~w.app.streaming \/ w.app.panel THEN w
    ELSE [Stop(w) EXCEPT !.app.streaming = FALSE, !.app.hub = TRUE]

\* Mutant: what is held is released once input drives the new session.
HandoffFirst(w, t) ==
    IF t = w.app.slot THEN w
    ELSE [Flush([Hide(w) EXCEPT !.app.slot = t]) EXCEPT !.app.armed = FALSE]

\* native_complete_session_switch, as far as input goes.
Handoff(w, t) ==
    IF t = w.app.slot THEN w
    ELSE [Flush(Hide(w)) EXCEPT !.app.armed = FALSE, !.app.slot = t]

\* native_request_session_switch.  A target that is not ready is prepared and
\* handed over later (SessionSwitch); here it takes over at once.
RequestSwitch(w, t) ==
    LET state == w.server[t].state
    IN  IF w.app.panel THEN IF t = w.app.slot THEN Hide(w) ELSE w
        ELSE IF state = "active"
        THEN LET out == [w EXCEPT !.app.hub = FALSE]
             IN  IF t = w.app.slot /\ w.app.streaming THEN ShowPanel(out) ELSE Handoff(out, t)
        ELSE IF state = "gone"
        THEN LET away == IF t # w.app.slot THEN Stop(w) ELSE w
             IN  [away EXCEPT !.app.slot = t, !.app.streaming = FALSE]
        ELSE w

-----------------------------------------------------------------------------
(* native_drain_evdev_input                                                *)

\* The reader holds input->lock for its sweep; a stop joins the reader.
Unlocked == ~evdev.sweeping /\ ~app.sampling

UiAt(phase) == app.phase = phase /\ Unlocked

\* The top of native_run_app_loop: a live stream on screen is drained,
\* anything else only pumps system events.
TopOf(w) == IF w.app.streaming /\ Connected(w) THEN "drain" ELSE "pump"

DrainReset ==
    /\ UiAt("drain") /\ app.batch = <<>>
    /\ evdev.started /\ NextKind(evdev.queue) = "reset"
    /\ LET taken == [World EXCEPT !.evdev.queue = TakeReset(@)]
       IN  Become([Flush(taken) EXCEPT !.app.side = FALSE])

TakeBatch ==
    /\ UiAt("drain") /\ app.batch = <<>>
    /\ evdev.started /\ NextKind(evdev.queue) \in Usb
    /\ Become([World EXCEPT !.app.batch = Batch(evdev.queue),
                            !.evdev.queue = WithoutBatch(@)])

\* Side opens the HUB on its release; extra shows the panel on its press.  What
\* is left of the batch goes with the grab.
RouteMouse(w, e) ==
    IF e.code = "side"
    THEN LET edge == [w EXCEPT !.app.side = e.down]
         IN  IF e.down \/ ~w.app.side \/ w.app.panel THEN edge
             ELSE LET hub == ShowHub(edge)
                  IN  IF hub.app.hub THEN [hub EXCEPT !.app.batch = <<>>] ELSE hub
    ELSE IF e.code = "extra"
    THEN IF ~e.down THEN w
         ELSE IF w.app.panel THEN Hide(w)
         ELSE IF w.app.streaming THEN [ShowPanel(w) EXCEPT !.app.batch = <<>>] ELSE w
    ELSE Track(Send(w, e.code, e.down), e.code, e.down)

\* The rest of a batch is dropped once the reader is stopped; a key that was
\* not sent is not tracked.
RouteKeyboard(w, e) ==
    IF ~w.evdev.started THEN [w EXCEPT !.app.batch = <<>>]
    ELSE IF e.code \in Slots THEN IF e.down THEN RequestSwitch(w, e.code) ELSE w
    ELSE IF Ready(w) THEN Track(Send(w, e.code, e.down), e.code, e.down) ELSE w

RouteEvent ==
    /\ UiAt("drain") /\ app.batch # <<>>
    /\ LET e == Head(app.batch)
           w == [World EXCEPT !.app.batch = Tail(@), !.app.last = e.time]
       IN  Become(IF e.kind = "mouse" THEN RouteMouse(w, e) ELSE RouteKeyboard(w, e))

DrainDone ==
    /\ UiAt("drain") /\ app.batch = <<>>
    /\ evdev.started => NextKind(evdev.queue) = "none"
    /\ Become([World EXCEPT !.app.phase = "sdl"])

-----------------------------------------------------------------------------
(* native_handle_sdl_event                                                 *)

\* native_evdev_input_mouse_active
MouseActive(w) ==
    w.evdev.started /\ ("mouse" \in w.evdev.grabbed \/ NextKind(w.evdev.queue) = "mouse")

\* native_resume_streaming_input
\* Mutant: the grab comes back under the panel.
ResumeAnyway(w) ==
    IF ~Focused(w) \/ ~w.app.streaming \/ ~Connected(w) THEN w ELSE Start(w)

Resume(w) ==
    IF ~Focused(w) \/ ~w.app.streaming \/ ~Connected(w) \/ w.app.panel THEN w ELSE Start(w)

\* A focus loss swallows releases: the panel forgets its buttons, and a close
\* under way is finished.
FocusLost(w) ==
    LET lost == [w EXCEPT !.app.unfocused = TRUE]
        free == [lost EXCEPT !.app.mask = {}, !.app.drag = FALSE]
        shut == IF w.app.dismiss # None \/ w.app.closing
                THEN Hide([free EXCEPT !.app.dismiss = None, !.app.closing = FALSE]) ELSE free
    IN  Stop(IF w.app.panel THEN shut ELSE lost)

\* The panel's own buttons: a click outside and an extra button close it, on
\* the release that leaves no button down.
PanelUp(w, code) ==
    LET up == [w EXCEPT !.app.mask = @ \ {code}, !.app.drag = @ /\ code # "left"]
        ask == IF w.app.dismiss # code THEN up
               ELSE [up EXCEPT !.app.dismiss = None, !.app.closing = TRUE]
    IN  IF ask.app.closing /\ ask.app.mask = {}
        THEN Hide([ask EXCEPT !.app.closing = FALSE]) ELSE ask

PanelDown(w, code, where) ==
    LET down == [w EXCEPT !.app.mask = @ \cup {code}]
        ask == IF w.app.dismiss = None THEN [down EXCEPT !.app.dismiss = code] ELSE down
    IN  IF code # "left" THEN IF w.app.drag THEN down ELSE ask
        ELSE IF where = "outside" THEN [ask EXCEPT !.app.drag = FALSE]
        ELSE [down EXCEPT !.app.drag = @ \/ where = "fader"]

\* A button of the compositor's pointer on the stream, or on the HUB that an event
\* before it has opened: there the pump will take its release.
StreamButton(w, code, down) ==
    IF w.app.unfocused \/ MouseActive(w) THEN w
    ELSE IF code = "side"
    THEN IF down THEN [w EXCEPT !.app.side = @ \/ w.app.streaming]
         ELSE LET edge == [w EXCEPT !.app.side = FALSE]
              IN  IF w.app.side THEN ShowHub(edge) ELSE edge
    ELSE IF code = "extra"
    THEN IF down /\ w.app.streaming THEN ShowPanel(w) ELSE w
    ELSE LET edge == Track(Send(w, code, down), code, down)
         IN  IF down /\ ~w.app.streaming THEN [edge EXCEPT !.tv.stale = @ \cup {code}] ELSE edge

Button(w, e, where) ==
    IF ~w.app.panel THEN StreamButton(w, e.code, e.down)
    ELSE IF e.down THEN PanelDown(w, e.code, where) ELSE PanelUp(w, e.code)

HandleSdl(w, e, where) ==
    CASE e.kind = "button" -> Button(w, e, where)
      [] e.kind = "colour" -> IF e.down THEN RequestSwitch(w, e.code) ELSE w
      [] e.kind = "lost"   -> FocusLost(w)
      [] e.kind = "gained" -> Resume([w EXCEPT !.app.unfocused = (w.tv.focus # "ours")])
      [] e.kind = "away"   -> Stop([w EXCEPT !.app.away = TRUE, !.app.drag = FALSE])
      [] e.kind = "back"   -> Resume([w EXCEPT !.app.away = FALSE,
                                               !.app.unfocused = (w.tv.focus # "ours")])

\* SDL_PollEvent: everything, in order.
PollSdl ==
    /\ UiAt("sdl") /\ tv.sdl # <<>>
    /\ \E where \in {"outside", "fader", "body"} :
         Become(HandleSdl([World EXCEPT !.tv.sdl = Tail(@)], Head(tv.sdl), where))

\* The order native_pump_preconnect_system_events takes the events in.
PumpRank(kind) ==
    CASE kind \in {"away", "back"}   -> 1
      [] kind = "colour"            -> 2
      [] kind \in {"lost", "gained"} -> 3
      [] kind = "button"            -> 4

\* What the pump takes: not the buttons, which wait in the queue unless the
\* preconnect screen is up to eat them.  They are then handled after a loss of
\* focus that came after them.
Pumped == {i \in DOMAIN tv.sdl : tv.sdl[i].kind = "button" => ~app.streaming}

PumpSdl ==
    /\ UiAt("pump")
    /\ \E i \in Pumped :
         LET e == tv.sdl[i]
             w == [World EXCEPT !.tv.sdl = RemoveAt(@, i),
                                !.tv.stale = IF e.kind = "lost" THEN @ \cup Queued(World, i)
                                             ELSE @]
         IN  /\ \A j \in Pumped \ {i} :
                  \/ PumpRank(e.kind) < PumpRank(tv.sdl[j].kind)
                  \/ PumpRank(e.kind) = PumpRank(tv.sdl[j].kind) /\ i < j
             /\ Become(IF e.kind = "button" THEN w ELSE HandleSdl(w, e, "body"))

\* The end of the events; native_system_volume_tick may raise the panel.
EventsDone ==
    /\ \/ UiAt("sdl") /\ tv.sdl = <<>>
       \/ UiAt("pump") /\ Pumped = {}
    /\ \E raised \in IF "volume" \in scenario.mishaps /\ app.streaming /\ ~app.panel
                     THEN BOOLEAN ELSE {FALSE} :
         LET w == [World EXCEPT !.app.phase = "tick"]
         IN  Become(IF raised THEN ShowPanel(w) ELSE w)

-----------------------------------------------------------------------------
(* The tick                                                                *)

Survivors(w) == {s \in Slots : s # w.app.slot /\ w.server[s].state = "active"}

\* native_stop_slot
Buried(w, s) ==
    LET off == IF s = w.app.slot THEN [w EXCEPT !.app.armed = FALSE] ELSE w
    IN  [off EXCEPT !.server[s] = [state |-> "gone", down |-> {}]]

\* native_session_supervisor_tick, for the first slot it finds ended.
Supervised(w) ==
    LET ended == {s \in Slots : w.server[s].state = "ended"}
    IN  IF ended = {} THEN w
        ELSE LET s == CHOOSE x \in ended : TRUE
             IN  IF s # w.app.slot \/ (Survivors(w) # {} /\ ~w.app.streaming) THEN Buried(w, s)
                 ELSE IF Survivors(w) # {}
                 THEN Buried(Handoff(w, CHOOSE x \in Survivors(w) : TRUE), s)
                 ELSE ForceHide([Buried(Stop(w), s) EXCEPT !.app.streaming = FALSE])

\* loop_arm_streaming_input
Armed(w) ==
    [w EXCEPT !.app.armed = w.app.streaming /\ Connected(w) /\ ~w.app.panel /\ Focused(w)]

\* native_streaming_transition_tick
Entered(w) ==
    IF ~Connected(w) \/ w.app.streaming \/ w.app.hub THEN w
    ELSE [Start(w) EXCEPT !.app.streaming = TRUE]

Supervise ==
    /\ UiAt("tick")
    /\ LET w == Entered(Armed(Supervised(World)))
       IN  Become([w EXCEPT !.app.phase = "present"])

\* native_present_streaming_frame hides a panel left alone; the user may leave
\* the HUB by BACK.  Then the loop turns.
Present ==
    /\ UiAt("present")
    /\ \E idle \in BOOLEAN, leave \in BOOLEAN :
         /\ idle => app.panel /\ app.streaming /\ ~app.drag /\ app.dismiss = None
         /\ leave => app.hub
         /\ LET w == IF idle THEN Hide(World) ELSE World
            IN  Become([w EXCEPT !.app.hub = @ /\ ~leave, !.app.phase = TopOf(w)])

\* native_evdev_input_stop_with_buttons reads which buttons are down now.
Sample ==
    /\ app.sampling
    /\ Become([World EXCEPT !.app.sampling = FALSE,
                            !.app.mask = {b \in Buttons : <<"mouse", b>> \in tv.pressed}])

Ui ==
    \/ DrainReset \/ TakeBatch \/ RouteEvent \/ DrainDone
    \/ PollSdl \/ PumpSdl \/ EventsDone \/ Supervise \/ Present \/ Sample

-----------------------------------------------------------------------------
(* evdev_thread                                                            *)

\* A poll that returns: something to read, a device gone, news of a node, or
\* the 1 ms timeout of a queue that is not empty.
SweepBegin ==
    /\ evdev.running /\ ~evdev.sweeping /\ ~app.sampling
    /\ evdev.queued \/ tv.news \/ (tv.ready \cup tv.hung) \cap evdev.grabbed # {}
    /\ evdev' = [evdev EXCEPT !.sweeping = TRUE, !.scan = tv.news, !.todo = evdev.grabbed,
                              !.cutoff = tv.now + 1, !.queued = FALSE]
    /\ UNCHANGED <<app, tv, server, scenario>>

\* One turn of evdev_drain_device, which reads to the end, or to the first event
\* newer than the sweep.
Drained(w, d) ==
    IF w.tv.fd[d] = <<>> THEN [w EXCEPT !.evdev.todo = @ \ {d}, !.tv.ready = @ \ {d}]
    ELSE LET e == Head(w.tv.fd[d])
             read == [w EXCEPT !.evdev.queue = Push(@, e), !.tv.fd[d] = Tail(@)]
         IN  IF e.time < w.evdev.cutoff THEN read
             ELSE [read EXCEPT !.evdev.todo = @ \ {d}, !.evdev.queued = TRUE,
                               !.tv.ready = @ \ {d}]

\* evdev_remove_device
\* Mutant: the events of a device that is gone are kept, without a reset.
RemovedQuietly(w, d) ==
    [w EXCEPT !.evdev.grabbed = @ \ {d}, !.evdev.todo = @ \ {d}, !.tv.fd[d] = <<>>,
              !.tv.hung = @ \ {d}, !.tv.ready = @ \ {d}]

Removed(w, d) ==
    [w EXCEPT !.evdev.grabbed = @ \ {d}, !.evdev.todo = @ \ {d},
              !.evdev.queue = Reset(@), !.tv.fd[d] = <<>>,
              !.tv.hung = @ \ {d}, !.tv.ready = @ \ {d}]

SweepDevice ==
    /\ evdev.sweeping
    /\ \E d \in evdev.todo :
         Become(IF d \in tv.hung THEN Removed(World, d) ELSE Drained(World, d))

\* evdev_handle_hotplug: every node that is there and not in the table.
Rescanned(w) ==
    IF ~w.evdev.scan THEN w
    ELSE [w EXCEPT !.evdev.grabbed = @ \cup w.tv.plugged, !.tv.news = FALSE,
                   !.tv.stale = @ \cup Queued(w, Len(w.tv.sdl))]

\* Mutant: a sweep publishes all that it read.
SweepDoneAll ==
    /\ evdev.sweeping /\ evdev.todo = {}
    /\ LET queue == PublishBefore(evdev.queue, tv.now + 1)
       IN  Become(Rescanned([World EXCEPT !.evdev = [evdev EXCEPT
               !.queue = queue, !.sweeping = FALSE, !.queued = @ \/ queue.events # <<>>]]))

\* The publication, and the rescan that follows the unlock.
SweepDone ==
    /\ evdev.sweeping /\ evdev.todo = {}
    /\ LET queue == PublishBefore(evdev.queue, evdev.cutoff)
       IN  Become(Rescanned([World EXCEPT !.evdev = [evdev EXCEPT
               !.queue = queue, !.sweeping = FALSE, !.queued = @ \/ queue.events # <<>>]]))

\* Too many failed polls: the devices go back to the compositor.
ReaderDies ==
    /\ "dead" \in scenario.mishaps
    /\ evdev.running /\ ~evdev.sweeping /\ ~app.sampling
    /\ Become([World EXCEPT !.evdev = [evdev EXCEPT !.running = FALSE, !.grabbed = {},
                                                    !.queue = Reset(@), !.queued = FALSE],
                            !.tv.fd = [d \in Usb |-> <<>>], !.tv.ready = {}, !.tv.hung = {}])

Reader == SweepBegin \/ SweepDevice \/ SweepDone

-----------------------------------------------------------------------------
(* The world outside: hands, compositor, kernel and servers                *)

\* Each thing that happens has a time of its own.
Happens(mishap) == mishap \in scenario.mishaps /\ tv.now < scenario.edges

\* The compositor's events reach a window that has the focus.
Pointed(code, down) ==
    [kind |-> IF code \in Slots THEN "colour" ELSE "button", code |-> code, down |-> down]

Delivered(w, code, down) ==
    IF w.tv.focus # "ours" \/ code \notin Buttons \cup Slots THEN w
    ELSE [w EXCEPT !.tv.sdl = Append(@, Pointed(code, down))]

\* A control goes down or up.
Edge ==
    /\ tv.now < scenario.edges
    /\ \E c \in scenario.controls :
         LET down == c \notin tv.pressed
             w == [World EXCEPT !.tv = [tv EXCEPT !.now = @ + 1,
                       !.pressed = IF down THEN @ \cup {c} ELSE @ \ {c}]]
             e == [time |-> tv.now + 1, kind |-> c[1], code |-> c[2], down |-> down]
         IN  /\ c[1] \in Usb => c[1] \in tv.plugged
             /\ Become(IF c[1] \in evdev.grabbed /\ c[1] \notin tv.hung
                       THEN [w EXCEPT !.tv.fd[c[1]] = Append(@, e), !.tv.ready = @ \cup {c[1]}]
                       ELSE Delivered(w, c[2], down))

Notice(kind) == [kind |-> kind, code |-> None, down |-> FALSE]

FocusChange(focus, notices) ==
    /\ tv.now < scenario.edges
    /\ Become([World EXCEPT !.tv = [tv EXCEPT !.now = @ + 1, !.focus = focus,
                                              !.sdl = @ \o notices]])

\* A system overlay takes the focus; the application goes to the background.
Blur == Happens("blur") /\ tv.focus = "ours" /\ FocusChange("lost", <<Notice("lost")>>)
GoAway ==
    /\ Happens("away") /\ tv.focus = "ours"
    /\ FocusChange("away", <<Notice("lost"), Notice("away")>>)
Refocus ==
    \/ tv.focus = "lost" /\ FocusChange("ours", <<Notice("gained")>>)
    \/ tv.focus = "away" /\ FocusChange("ours", <<Notice("back"), Notice("gained")>>)

\* A device that goes takes its controls with it; the compositor says so of
\* those it knew to be down.  The reader notices before it can go again.
Unplug ==
    /\ Happens("unplug")
    /\ \E d \in tv.plugged \ tv.hung :
         LET lost == {c \in tv.pressed : c[1] = d}
             seen == IF d \in evdev.grabbed \/ tv.focus # "ours" THEN <<>>
                     ELSE SetToSeq({c[2] : c \in lost} \cap Buttons)
             w == [World EXCEPT !.tv = [tv EXCEPT !.now = @ + 1, !.plugged = @ \ {d},
                       !.pressed = @ \ lost, !.fd[d] = <<>>,
                       !.hung = IF d \in evdev.grabbed THEN @ \cup {d} ELSE @,
                       !.sdl = @ \o [i \in DOMAIN seen |-> Pointed(seen[i], FALSE)]]]
         IN  Become(w)

Plug ==
    /\ Happens("plug")
    /\ \E d \in Usb \ tv.plugged :
         Become([World EXCEPT !.tv = [tv EXCEPT !.now = @ + 1, !.plugged = @ \cup {d},
                                                !.news = evdev.running]])

\* The worker loses its connection, gets it back, or gives up.
Reconnect ==
    /\ Happens("reconnect")
    /\ server[app.slot].state = "active"
    /\ Become([World EXCEPT !.tv.now = @ + 1,
                            !.server[app.slot] = [state |-> "connecting", down |-> {}]])
Reconnected ==
    \E s \in Slots :
        /\ server[s].state = "connecting"
        /\ server' = [server EXCEPT ![s].state = "active"]
        /\ UNCHANGED <<app, evdev, tv, scenario>>
End ==
    /\ Happens("end")
    /\ \E s \in Slots :
         /\ server[s].state \in {"active", "connecting"}
         /\ Become([World EXCEPT !.tv.now = @ + 1,
                                 !.server[s] = [state |-> "ended", down |-> {}]])

Outside ==
    \/ Edge \/ Blur \/ GoAway \/ Refocus \/ Unplug \/ Plug
    \/ Reconnect \/ Reconnected \/ End

Next == Ui \/ Reader \/ ReaderDies \/ Outside

Spec == Init /\ [][Next]_vars

\* Two threads that run, over a mutex neither is kept from for ever; a worker
\* that reconnects.
FairSpec == Spec /\ SF_vars(Ui) /\ WF_vars(Reader) /\ WF_vars(Reconnected)

-----------------------------------------------------------------------------
(* Properties                                                              *)

\* What a server holds down is what the application will release when the
\* screen, the focus or the panel takes its input away, and no server that
\* input does not drive holds anything (native_flush_held_inputs, called
\* before each retarget, disarm and ungrab).
HeldIsTracked ==
    \A s \in Slots : server[s].down # {} => s = app.slot /\ server[s].down \subseteq app.held

\* The devices are never held back from the panel, the preconnect screens or
\* the TV's own overlays, except from those whose notice is still on its way.
GrabIsOurs ==
    evdev.started =>
        /\ app.streaming /\ ~app.panel
        /\ Focused(World) \/ \E i \in DOMAIN tv.sdl : tv.sdl[i].kind = "lost"

\* The events on their way that decide whether the panel waits for a button.
Says(b) ==
    {i \in DOMAIN tv.sdl : \/ tv.sdl[i].kind = "lost"
                           \/ tv.sdl[i].kind = "button" /\ tv.sdl[i].code = b}

EndsDown(b) ==
    \E i \in Says(b) : /\ tv.sdl[i].kind = "button" /\ tv.sdl[i].down
                       /\ \A j \in Says(b) : j <= i

\* The buttons a panel waits for, once the events on their way are handled.
AfterEdges(mask) == {b \in Buttons : EndsDown(b) \/ (Says(b) = {} /\ b \in mask)}

Pressed == {c[2] : c \in tv.pressed}

\* A panel never waits for the release of a button that nobody holds, but for
\* those in tv.stale: a press SDL had queued from before the mouse was grabbed, or
\* from before a loss of focus the pump has taken first; one the stream took when
\* the HUB was already up; and one of a device that was lost just before.
MaskIsHonest ==
    app.panel /\ ~app.sampling /\ tv.focus = "ours"
        => AfterEdges(app.mask) \subseteq Pressed \cup tv.stale

\* Devices are read in any order and mid-sweep; the application sees their
\* events in the order of their times (native_event_queue_publish_before).
InTimeOrder == [][app'.last >= app.last]_vars

\* What nobody presses any more is not left down on a server, over lost
\* events, a device unplugged, a dead reader, a panel or a switch.
NothingStuck ==
    \A code \in Forwarded, s \in Slots :
        <>[](\A c \in tv.pressed : c[2] # code) => []<>(code \notin server[s].down)

LiveStream ==
    app.streaming /\ Connected(World) /\ ~app.panel /\ Focused(World) /\ tv.focus = "ours"

\* While every session stays connected, a live stream that has the focus has the
\* grab, or will: over panels, switches, the HUB and lost focus.
SteadyGrab ==
    [](\A s \in Slots : server[s].state = "active") => []<>(LiveStream => evdev.started)

\* The same, whatever becomes of the sessions (docs/native-runbook.md:319: "the
\* grab and the session's cursor shape come back when it closes").
GrabReturns == []<>(LiveStream => evdev.started)
=============================================================================
