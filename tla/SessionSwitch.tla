---------------------------- MODULE SessionSwitch ----------------------------
(***************************************************************************)
(* Switching the screen between live sessions: native_switch*.c, the       *)
(* session supervisor, the transition into a stream and the HUB actions    *)
(* that connect or stop a slot, on the SDL thread, against one RDP worker  *)
(* and one server per slot.                                                *)
(*                                                                         *)
(* A worker callback is one step: it holds video_lock, or writes one       *)
(* atomic.  An SDL function is one step too, except where a worker can     *)
(* come between its sections and be noticed: between choosing a survivor   *)
(* and handing it the screen (app.step = "handoff"), and between           *)
(* publishing the new owner and giving it its cached frames ("resume").    *)
(* A frame on the wire when a command is sent is the same to the client as *)
(* a command the server has not applied yet, so there is no queue of       *)
(* frames.  Time is a choice: an armed deadline may be found passed, and a *)
(* stream found quiet, at any look.                                        *)
(***************************************************************************)
EXTENDS VideoSlots

CONSTANT Scenarios  \* what servers, workers and the user may do: a set of Scenario

MishapKinds == {"end", "retry", "protocol", "reload", "mode", "profile", "late"}

\* Servers that send RemoteFX tiles as well, servers that answer a refresh with
\* a seed, what connecting and a unit may meet, what else may happen, and a
\* bound on the user's actions (None leaves them unbounded).
IsScenario(sc) ==
    /\ DOMAIN sc = {"bitmap", "obliging", "fates", "lucks", "mishaps", "presses"}
    /\ sc.bitmap \subseteq Slots /\ sc.obliging \subseteq Slots
    /\ sc.fates \subseteq Fates /\ sc.fates # {}
    /\ sc.lucks \subseteq Lucks /\ "ok" \in sc.lucks
    /\ sc.mishaps \subseteq MishapKinds
    /\ sc.presses = None \/ sc.presses \in Nat

ASSUME ScenariosAssumption == Scenarios # {} /\ \A sc \in Scenarios : IsScenario(sc)

VARIABLES
    app,    \* App: navigation, pending switch, watchdog
    ses,    \* App.sessions
    scr,    \* decoder and canvas, under video_lock
    peer,   \* the servers
    scenario,  \* the scenario of this behaviour, never changed
    presses    \* user actions so far, when they are bounded
vars == <<app, ses, scr, peer, scenario, presses>>
given == <<scenario, presses>>

App == [active: Slots, running: BOOLEAN, streaming: BOOLEAN, hub: BOOLEAN,
        hubTarget: Slots \cup {None}, deferred: Slots \cup {None},
        watch: BOOLEAN, progress: BOOLEAN, reconnected: BOOLEAN,
        step: {"loop", "handoff", "resume"}, direct: BOOLEAN,
        heir: Slots \cup {None}, dead: Slots \cup {None}]

TypeOK ==
    /\ app \in App
    /\ ses \in [Slots -> Slot]
    /\ scr \in Screen
    /\ peer \in [Slots -> Peer]
    /\ scenario \in Scenarios
    /\ presses \in Nat

Init ==
    /\ \E s \in Slots :
         app = [active |-> s, running |-> TRUE, streaming |-> FALSE, hub |-> FALSE,
                hubTarget |-> None, deferred |-> None,
                watch |-> FALSE, progress |-> FALSE, reconnected |-> FALSE,
                step |-> "loop", direct |-> FALSE, heir |-> None, dead |-> None]
    /\ ses = [s \in Slots |-> EmptySlot]
    /\ scr = DarkScreen
    /\ peer = [s \in Slots |-> NoPeer]
    /\ scenario \in Scenarios
    /\ presses = 0

World == [app |-> app, ses |-> ses, scr |-> scr, peer |-> peer]
Become(w) == /\ app' = w.app /\ ses' = w.ses /\ scr' = w.scr /\ peer' = w.peer

\* One outcome for every connect a step may make.
Fortunes == [Slots -> scenario.fates]

(***************************************************************************)
(* Handoff: native_complete_session_switch                                 *)
(***************************************************************************)
Accepts(w, t) == w.ses[t].rdp /\ ~w.ses[t].failed

\* The owner changes under video_lock.  A target still waiting for its seed
\* gives the cache up, so that the seed reaches the decoder.
\* Mutant: the cache of a pending target stays armed.
PublishKeepsCache(w, t) ==
    LET direct == w.ses[t].pending
        cleared == IF direct THEN [w EXCEPT !.ses[t].pending = FALSE] ELSE w
    IN  [CloseRgba(cleared) EXCEPT !.app.deferred = None, !.app.progress = FALSE,
                                   !.app.active = t, !.app.direct = direct,
                                   !.app.step = "resume", !.scr.refresh = FALSE]

\* Mutant: the old owner's keyframe request survives the switch.
PublishKeepsRefresh(w, t) ==
    LET direct == w.ses[t].pending
        cleared == IF direct
                   THEN [w EXCEPT !.ses[t].pending = FALSE, !.ses[t].cache = NoCache,
                                  !.ses[t].ready = FALSE]
                   ELSE w
    IN  [CloseRgba(cleared) EXCEPT !.app.deferred = None, !.app.progress = FALSE,
                                   !.app.active = t, !.app.direct = direct,
                                   !.app.step = "resume"]

Publish(w, t) ==
    LET direct == w.ses[t].pending
        cleared == IF direct
                   THEN [w EXCEPT !.ses[t] = [@ EXCEPT !.pending = FALSE, !.cache = NoCache,
                                                       !.ready = FALSE]]
                   ELSE w
    IN  [CloseRgba(cleared) EXCEPT !.app = [@ EXCEPT !.deferred = None, !.progress = FALSE,
                                                     !.active = t, !.direct = direct,
                                                     !.step = "resume"],
                                   !.scr.refresh = FALSE]

Complete(w, t, fortune) ==
    IF ~Accepts(w, t) \/ w.app.active = t THEN w
    ELSE Background(Publish(w, t), w.app.active, fortune[w.app.active])

StartWatch(w) == [w EXCEPT !.app = [@ EXCEPT !.watch = TRUE, !.reconnected = FALSE]]

\* Mutant: the server is not told to resume after a replay.
ReenterStaysQuiet(w, t, quiet, luck, fate) ==
    LET woken == [w EXCEPT !.ses[t].suppressed = FALSE]
        played == Replay(woken, t, quiet, luck)
    IN  IF Replays(w, t, quiet) /\ luck \notin {"notready", "error"} THEN played
        ELSE IF played.ses[t].failed THEN played
        ELSE IF played.ses[t].deaf THEN Reconnect(played, t, FALSE, fate)
        ELSE Refresh(Resume(played, t), t)

\* Keep the stream: replay, else reconnect a deaf server, else ask.
Reenter(w, t, quiet, luck, fate) ==
    LET woken == [w EXCEPT !.ses[t].suppressed = FALSE]
        played == Replay(woken, t, quiet, luck)
    IN  IF Replays(w, t, quiet) /\ luck \notin {"notready", "error"} THEN Resume(played, t)
        ELSE IF played.ses[t].failed THEN played
        ELSE IF played.ses[t].deaf THEN Reconnect(played, t, FALSE, fate)
        ELSE Refresh(Resume(played, t), t)

Handed(w) == [StartWatch(w) EXCEPT !.app = [@ EXCEPT !.step = "loop", !.direct = FALSE,
                                                     !.heir = None, !.dead = None]]

ResumeTarget(quiet, luck, fate) ==
    LET t == app.active
        entered == IF ~app.direct /\ ses[t].suppressed
                   THEN Reenter(World, t, quiet, luck, fate) ELSE World
        buried == IF app.dead = None THEN entered ELSE StopMedia(StopSlot(entered, app.dead))
    IN  /\ app.step = "resume"
        /\ Become(Handed(buried))

FinishSwitch == \E quiet \in BOOLEAN, luck \in scenario.lucks, fate \in scenario.fates :
                    ResumeTarget(quiet, luck, fate)

(***************************************************************************)
(* Deferred switches: native_prepare_pending_switch, native_switch_tick    *)
(***************************************************************************)
Idle == app.running /\ app.step = "loop"

Prepare(w, t, fortune) ==
    LET slot == w.ses[t]
        again == slot.deaf \/ SnapshotForce
        marked == [w EXCEPT !.ses[t].retried = TRUE]
        hidden == Reconnect(marked, t, TRUE, fortune[t])
        cache == IF fortune[t].memory THEN ArmedCache ELSE NoCache
        armed == [w EXCEPT !.ses[t] = [@ EXCEPT !.cache = cache, !.ready = FALSE]]
        cached == IF again THEN hidden ELSE armed
        waiting == [cached EXCEPT !.ses[t] = [@ EXCEPT !.pending = TRUE, !.suppressed = FALSE]]
    IN  IF slot.pending THEN w
        ELSE IF again /\ ~fortune[t].starts THEN hidden
        ELSE IF ~fortune[t].memory
        THEN Complete([cached EXCEPT !.app.deferred = None], t, fortune)
        ELSE IF again THEN waiting
        ELSE Refresh(Resume(waiting, t), t)

\* Answer the press with the immediate switch.
SwitchAnyway(w, t, fortune) == Complete([w EXCEPT !.app.deferred = None], t, fortune)

Silenced(w, s) == [Suppress(w, s) EXCEPT !.ses[s].pending = FALSE]

Waiting(s) == ses[s].pending /\ s # app.active /\ ses[s].rdp /\ ses[s].state = "active"

\* The hidden stream has its seed: silence it.
SeedCached(s) ==
    /\ Idle /\ Waiting(s) /\ ses[s].ready
    /\ Become(Silenced(World, s))

\* The cache was voided: silence it without one.
CacheVoided(s) ==
    /\ Idle /\ Waiting(s) /\ ~ses[s].ready /\ ~ses[s].cache.armed
    /\ \E fortune \in Fortunes :
         Become(IF s = app.deferred THEN SwitchAnyway(Silenced(World, s), s, fortune)
                ELSE Silenced(World, s))

\* No seed within the keyframe timeout: once, try a hidden reconnect.
SeedOverdue(s) ==
    /\ Idle /\ Waiting(s) /\ ~ses[s].ready /\ ses[s].cache.armed
    /\ \E fortune \in Fortunes :
         LET again == s = app.deferred /\ ~ses[s].retried /\ ~ses[s].bitmap
             learned == [World EXCEPT !.ses[s] = [@ EXCEPT !.deaf = TRUE, !.pending = FALSE]]
             bare == Silenced([World EXCEPT !.ses[s].cache = NoCache], s)
         IN  Become(IF again THEN Prepare(learned, s, fortune)
                    ELSE IF s = app.deferred THEN SwitchAnyway(bare, s, fortune)
                    ELSE bare)

DeferredGone ==
    /\ Idle /\ app.deferred # None /\ ~Accepts(World, app.deferred)
    /\ Become([World EXCEPT !.app.deferred = None])

\* The cache is ready and its stream quiet.
DeferredReady ==
    /\ Idle /\ app.deferred # None /\ Accepts(World, app.deferred)
    /\ LET slot == ses[app.deferred] IN ~slot.pending /\ slot.suppressed /\ slot.ready
    /\ \E fortune \in Fortunes : Become(SwitchAnyway(World, app.deferred, fortune))

\* The press has waited too long.
DeferredTimedOut ==
    /\ "late" \in scenario.mishaps /\ Idle /\ app.deferred # None /\ Accepts(World, app.deferred)
    /\ \E fortune \in Fortunes : Become(SwitchAnyway(World, app.deferred, fortune))

\* A worker asked for a keyframe of the stream on screen.
RefreshWanted ==
    /\ Idle /\ scr.refresh
    /\ LET w == [World EXCEPT !.scr.refresh = FALSE]
       IN  Become(IF ses[app.active].rdp /\ ses[app.active].state = "active"
                  THEN StartWatch(Refresh([w EXCEPT !.app.progress = FALSE], app.active))
                  ELSE w)

WatchSatisfied ==
    /\ Idle /\ app.watch /\ app.progress
    /\ Become([World EXCEPT !.app.watch = FALSE])

\* Mutant: the watchdog learns, but does not reconnect.
WatchExpiredGivesUp ==
    /\ Idle /\ app.watch /\ ~app.progress
    /\ ~StillConnecting(World, app.active)
    /\ Become([World EXCEPT !.app.watch = FALSE, !.ses[app.active].deaf = TRUE])

\* No frame within the timeout, counted from ACTIVE: reconnect once, then give up.
WatchExpired ==
    /\ Idle /\ app.watch /\ ~app.progress
    /\ ~StillConnecting(World, app.active)
    /\ LET a == app.active
           learned == [World EXCEPT !.ses[a].deaf = TRUE,
                                    !.app = [@ EXCEPT !.progress = FALSE, !.reconnected = TRUE]]
       IN  \E fate \in scenario.fates :
             Become(IF ~app.reconnected /\ ses[a].rdp THEN Reconnect(learned, a, FALSE, fate)
                    ELSE [World EXCEPT !.app.watch = FALSE])

(***************************************************************************)
(* Navigation                                                              *)
(***************************************************************************)
ReadyNow(s, quiet) ==
    \/ ses[s].bitmap
    \/ ~ses[s].pending /\ (~ses[s].suppressed \/ (ses[s].ready /\ quiet))

\* native_request_session_switch on a live target.
Defer(w, t, fortune) ==
    LET set == [w EXCEPT !.app.deferred = t, !.ses[t].retried = FALSE]
    IN  IF w.ses[t].suppressed /\ w.ses[t].ready THEN set ELSE Prepare(set, t, fortune)

CancelDeferred(t) ==
    /\ Idle /\ t = app.active /\ app.deferred # None
    /\ Become([World EXCEPT !.app.deferred = None])

SwitchTo(t) ==
    /\ Idle /\ LiveTarget(World, t) /\ ~(t = app.active /\ app.deferred # None)
    /\ \E quiet \in BOOLEAN, fortune \in Fortunes :
         LET w == [World EXCEPT !.app = [@ EXCEPT !.hub = FALSE, !.hubTarget = None]]
         IN  Become(IF (t = app.active /\ app.streaming) \/ t = app.deferred THEN w
                    ELSE IF ReadyNow(t, quiet) THEN SwitchAnyway(w, t, fortune)
                    ELSE Defer(w, t, fortune))

\* native_show_slot_configurator, for a slot that holds no session.
ShowConfigurator(t) ==
    /\ Idle /\ ~ses[t].rdp /\ ~(t = app.active /\ app.deferred # None)
    /\ \E fortune \in Fortunes :
         LET old == app.active
             w == [World EXCEPT !.app = [@ EXCEPT !.deferred = None, !.hubTarget = None,
                                                  !.streaming = FALSE]]
             moved == [CloseRgba(w) EXCEPT !.app = [@ EXCEPT !.active = t, !.watch = FALSE]]
         IN  Become(IF old = t THEN w ELSE Background(moved, old, fortune[old]))

ShowHub ==
    /\ Idle /\ app.streaming
    /\ Become([World EXCEPT !.app = [@ EXCEPT !.deferred = None, !.streaming = FALSE,
                                              !.hub = TRUE, !.hubTarget = None]])

\* native_hub_actions_drain_connect: the user connects a profile.
UserConnect(t) ==
    /\ Idle /\ ~app.streaming /\ ~StillConnecting(World, t)
    /\ \E fortune \in Fortunes, newEndpoint \in BOOLEAN :
         LET old == app.active
             stopped == StopSlot(World, t)
             forgot == [stopped EXCEPT !.ses[t].deaf = @ /\ ~newEndpoint]
             asked == IF old # t /\ forgot.ses[old].rdp /\ ~forgot.ses[old].suppressed
                      THEN [forgot EXCEPT !.peer[old].want = FALSE] ELSE forgot
             target == IF app.hub THEN t ELSE None
             moved == [CloseRgba(asked) EXCEPT !.app = [@ EXCEPT !.deferred = None, !.watch = FALSE,
                                                                 !.active = t, !.hubTarget = target],
                                               !.scr.refresh = FALSE]
             demoted == IF old = t THEN moved ELSE Background(moved, old, fortune[old])
             connected == Connect(demoted, t, FALSE, fortune[t])
         IN  Become(IF fortune[t].starts THEN connected
                    ELSE StopMedia([connected EXCEPT !.app.hubTarget = None]))

\* A profile edit that changes the connection, or deletes it, stops the slot.
ProfileChanged(t) ==
    /\ "profile" \in scenario.mishaps /\ Idle /\ ~app.streaming
    /\ ses[t].rdp /\ ~StillConnecting(World, t)
    /\ \E newEndpoint \in BOOLEAN :
         Become(StopMedia([StopSlot(World, t) EXCEPT !.ses[t].deaf = @ /\ ~newEndpoint]))

\* A new camera mode reconnects the sessions that negotiated the old one.
CameraModeChanged(t) ==
    /\ "mode" \in scenario.mishaps /\ Idle /\ ~app.streaming
    /\ ses[t].rdp /\ ~StillConnecting(World, t)
    /\ \E fate \in scenario.fates :
         LET back == t # app.active
             again == Reconnect(World, t, back, fate)
         IN  Become(IF fate.starts /\ back THEN AwaitSeed(again, t) ELSE again)

\* native_streaming_transition_tick: the UI gives way to the stream.
EnterStream ==
    LET a == app.active
    IN  /\ Idle /\ ses[a].rdp /\ ses[a].state = "active" /\ ~app.streaming
        /\ app.deferred = None /\ (~app.hub \/ app.hubTarget = a)
        /\ LET w == [World EXCEPT !.app = [@ EXCEPT !.streaming = TRUE, !.hub = FALSE,
                                                    !.hubTarget = IF app.hubTarget = a THEN None
                                                                 ELSE app.hubTarget]]
               woken == [w EXCEPT !.ses[a].suppressed = FALSE, !.app.progress = FALSE]
           IN  Become(IF ses[a].suppressed
                      THEN StartWatch(Refresh(Resume(woken, a), a)) ELSE w)

(***************************************************************************)
(* Supervisor: native_session_supervisor_tick drains one failed slot       *)
(***************************************************************************)
Survivors(s) == {t \in Slots \ {s} : LiveTarget(World, t) /\ ses[t].state = "active"}

Unhub(w, s) == [w EXCEPT !.app.hubTarget = IF @ = s THEN None ELSE @]

ToForm(w, s) ==
    StopMedia([StopSlot(w, s) EXCEPT !.app = [@ EXCEPT !.watch = FALSE, !.streaming = FALSE]])

DrainBackground(s) ==
    /\ Idle /\ ses[s].failed /\ s # app.active
    /\ Become(StopMedia(StopSlot(Unhub(World, s), s)))

DrainActive ==
    LET s == app.active
        w == Unhub(World, s)
    IN  /\ Idle /\ ses[s].failed
        /\ \/ /\ Survivors(s) = {}
              /\ Become(ToForm(w, s))
           \/ /\ Survivors(s) # {} /\ ~app.streaming
              /\ Become(StopMedia(StopSlot(w, s)))
           \/ \E heir \in Survivors(s) :
                /\ app.streaming
                /\ Become([w EXCEPT !.app = [@ EXCEPT !.step = "handoff", !.heir = heir,
                                                       !.dead = s]])

\* Mutant: the dead slot is stopped as if the survivor had taken the screen.
HandOffUnchecked ==
    /\ app.running /\ app.step = "handoff"
    /\ \E fortune \in Fortunes :
         Become(IF Accepts(World, app.heir) THEN Complete(World, app.heir, fortune)
                ELSE [StopMedia(StopSlot(World, app.dead)) EXCEPT
                        !.app.step = "loop", !.app.heir = None, !.app.dead = None])

\* The chosen survivor may have failed since; then nobody takes the screen.
HandOff ==
    /\ app.running /\ app.step = "handoff"
    /\ \E fortune \in Fortunes :
         Become(IF Accepts(World, app.heir) THEN Complete(World, app.heir, fortune)
                ELSE [ToForm(World, app.dead) EXCEPT
                        !.app = [@ EXCEPT !.step = "loop", !.heir = None, !.dead = None]])

(***************************************************************************)
(* Workers and servers                                                     *)
(***************************************************************************)
Online(s) == ses[s].rdp /\ ses[s].state = "active"

WorkerConnected(s) ==
    /\ StillConnecting(World, s) /\ ~ses[s].failed
    /\ Become([World EXCEPT !.ses[s].state = "active",
                            !.peer[s] = [@ EXCEPT !.on = TRUE, !.fresh = TRUE]])

\* A network, protocol or peer end; refused by record_state after a terminal.
WorkerEnded(s) ==
    /\ "end" \in scenario.mishaps /\ ses[s].rdp /\ ~ses[s].failed
    /\ Become(ReportTerminal([World EXCEPT !.ses[s].state = "closed", !.peer[s].on = FALSE], s))

\* A callback rejects what it was given; the connection itself goes on.
CallbackRejects(s) ==
    /\ "protocol" \in scenario.mishaps /\ Online(s) /\ ~ses[s].failed
    /\ Become(ReportTerminal(World, s))

\* The Rust worker reconnects by itself: same slot, same connect_epoch.
WorkerRetries(s) ==
    /\ "retry" \in scenario.mishaps /\ Online(s) /\ ~ses[s].failed
    /\ Become([World EXCEPT !.ses[s].state = "connecting", !.peer[s].on = FALSE,
                            !.scr.level = @ /\ scr.owner # s])

UnitArrives(s) ==
    /\ Online(s) /\ peer[s].on
    /\ \E luck \in scenario.lucks :
         Become(Ingest([World EXCEPT !.peer[s].fresh = FALSE], s,
                       IF peer[s].fresh THEN "seed" ELSE "delta", luck))

TilesArrive(s) ==
    /\ s \in scenario.bitmap /\ Online(s) /\ peer[s].on
    /\ \E recent, fed \in BOOLEAN, luck \in scenario.lucks :
         Become(Bitmap(World, s, recent, fed, luck))

\* The server acts on the commands it was sent.
PeerApplies(s) ==
    /\ Online(s) /\ (peer[s].on # peer[s].want \/ peer[s].refresh)
    /\ LET seed == peer[s].refresh /\ s \in scenario.obliging
       IN  Become([World EXCEPT !.peer[s] = [@ EXCEPT !.on = peer[s].want, !.refresh = FALSE,
                                                      !.fresh = peer[s].fresh \/ seed]])

\* The shared pipeline reloads under the decoder.
PipelineReloads ==
    /\ "reload" \in scenario.mishaps /\ scr.owner # None /\ ~scr.needKey
    /\ Become([World EXCEPT !.scr.needKey = TRUE])

\* Whichever slot's worker attaches the first audio track closes the decoder
\* and asks for a keyframe of the slot on screen.
AudioAttached(s) ==
    /\ "reload" \in scenario.mishaps /\ Online(s) /\ scr.owner # None
    /\ Become([CloseDecoder(World) EXCEPT !.scr.refresh = TRUE])

Press ==
    /\ UNCHANGED scenario
    /\ IF scenario.presses = None THEN UNCHANGED presses
       ELSE presses < scenario.presses /\ presses' = presses + 1

User(s) ==
    /\ Press
    /\ \/ CancelDeferred(s) \/ SwitchTo(s) \/ ShowConfigurator(s) \/ UserConnect(s)
       \/ ProfileChanged(s) \/ CameraModeChanged(s)

OpenHub == Press /\ ShowHub

\* What the SDL loop does by itself.
Loop ==
    /\ UNCHANGED given
    /\ \/ FinishSwitch \/ HandOff \/ DrainActive \/ EnterStream
       \/ DeferredGone \/ DeferredReady \/ DeferredTimedOut
       \/ RefreshWanted \/ WatchSatisfied \/ WatchExpired
       \/ \E s \in Slots : SeedCached(s) \/ CacheVoided(s) \/ SeedOverdue(s) \/ DrainBackground(s)

Streams(s) == app.running /\ (WorkerConnected(s) \/ UnitArrives(s)) /\ UNCHANGED given
Obeys(s) == app.running /\ PeerApplies(s) /\ UNCHANGED given
Disturbs(s) ==
    /\ app.running /\ UNCHANGED given
    /\ \/ WorkerEnded(s) \/ CallbackRejects(s) \/ WorkerRetries(s)
       \/ TilesArrive(s) \/ AudioAttached(s)

Next ==
    \/ Loop \/ OpenHub
    \/ \E s \in Slots : User(s) \/ Streams(s) \/ Obeys(s) \/ Disturbs(s)
    \/ app.running /\ PipelineReloads /\ UNCHANGED given

Spec == Init /\ [][Next]_vars

\* The SDL loop keeps running, timers run out, workers connect, and a server
\* hears what it is told and sends what it owes.
Fairness ==
    /\ WF_vars(Loop)
    /\ \A s \in Slots : WF_vars(Streams(s)) /\ WF_vars(Obeys(s))

FairSpec == Spec /\ Fairness

(***************************************************************************)
(* Safety.  The SDL thread may rely on these between two of its functions. *)
(***************************************************************************)
AtRest == app.running /\ app.step = "loop"

\* When the streaming screen is up, the active slot holds a session, or a
\* failure the supervisor has yet to drain: a survivor that dies between being
\* chosen and taking over (the refusal of native_complete_session_switch) must
\* bring the connection form back, not leave a frozen picture.
VisibleIsAlive ==
    AtRest /\ app.streaming => ses[app.active].rdp \/ ses[app.active].failed

\* An armed cache swallows every unit of its slot, so a session on screen has
\* none and waits for none: whichever way a slot became active, its frames
\* reach the decoder (native_complete_session_switch, native_slot_connect).
ScreenIsFed ==
    AtRest /\ ses[app.active].rdp
        => ~ses[app.active].cache.armed /\ ~ses[app.active].pending

\* A live session on the streaming screen was last told to send graphics,
\* whatever brought it there: replay, refresh, reconnect, a pending target's
\* direct handoff or the UI giving way (native_complete_session_switch,
\* native_streaming_transition_tick).
ScreenIsAwake ==
    AtRest /\ app.streaming /\ LiveTarget(World, app.active)
        => ~ses[app.active].suppressed /\ peer[app.active].want

\* The keyframe request a worker left behind is for the stream on screen: a
\* switch cannot inherit the old owner's request, which would spend the
\* watchdog's one reconnect on the wrong server (video_refresh_needed is
\* written under video_lock and cleared where active_index is published).
RefreshIsOwn ==
    scr.refresh /\ ses[app.active].state = "active" => scr.owner \in {app.active, None}

\* At rest a canvas shows only the active slot, and one slot's connection never
\* owns both the canvas and the decoder (on_bitmap_update, the RGBA branch of
\* native_video_ingest_au_locked, and every change of active_index).
OnePicture ==
    scr.rgba # None => scr.rgba = app.active /\ ~(scr.rgbaCurrent /\ scr.current /\ scr.owner = scr.rgba)

\* When a switch resumes a server without asking it for a keyframe, the decoder
\* stands exactly where that server's next delta continues: no unit fell
\* between publishing the new owner and replaying its cache.  A connection that has failed
\* meanwhile shows nothing any more: the supervisor is about to drain it.
ReplayIsExact ==
    [][LET a == app.active
       IN  app.step = "resume" /\ app'.step = "loop" /\ app'.running
           /\ ~peer[a].want /\ peer'[a].want /\ ~peer'[a].refresh
           /\ ses'[a].state = "active" /\ ~ses'[a].failed
           => scr'.owner = a /\ scr'.level /\ ~scr'.broken]_vars

\* "If no decodable frame arrives within 2s of a switch, the client reconnects
\* that session once": the watchdog is satisfied only by a picture the decoder
\* can decode.  native_switch_tick counts the units the backend accepted, which
\* a delta with a missing reference is one of.
WatchIsHonest ==
    [][app.watch /\ ~app'.watch /\ app.progress /\ app'.active = app.active /\ app'.streaming
         => ~scr.broken]_vars

(***************************************************************************)
(* Liveness                                                                *)
(***************************************************************************)
Leaves(s) == ~app.running \/ app.active # s \/ ~app.streaming

\* A slot that keeps the streaming screen gets the decoder, even from a server
\* that answers no keyframe request: replay, refresh, or the watchdog's
\* reconnect gets it a seed.
PictureArrives ==
    \A s \in Slots :
        app.streaming /\ app.active = s ~> Leaves(s) \/ (scr.owner = s /\ scr.current)

\* A session that stays connected in the background is told to stop sending.
BackgroundSilenced ==
    \A s \in Slots :
        Online(s) /\ app.active # s
            ~> ~app.running \/ ~Online(s) \/ app.active = s \/ ~peer[s].want

=============================================================================
