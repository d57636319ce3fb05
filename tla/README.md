# A TLA+ model of lgnome

lgnome is an RDP client for webOS televisions: a C shell (`native/`) around a Rust RDP worker
(`webrdp-min/`). It keeps up to four remote sessions alive, one per colour key of the remote
control, and shows one of them through the television's single hardware decoder. The hard parts
are not in the protocols but between the threads: a worker per session, the SDL thread, an audio
pump, a camera worker and a microphone worker share slots, queues and one decoder.

Paths below are relative to the source tree; `R/` stands for `webrdp-min/src/native/`, `N/` for
`native/src/`.

## 1. Inventory

### The parts and their threads

| Part | Code | State | Operations | Modelled |
|---|---|---|---|---|
| Media gate | `R/media_mailbox.rs`, `drain_media` in `R/active_io.rs` | capture epoch, one camera slot, a bounded microphone queue, payload permits, a transition mutex | open, close (waits for a write in flight), submit, drain, revalidate, write | yes |
| Camera redirection (RDPECAM) | `R/rdpecam/*.rs` | announcement, device object and channel, stream generation, pending sample requests, the one credit | channel handlers, availability, answers, callbacks | yes |
| Camera capture side | `N/capture_slots.c`, `capture_redirect.c`, `capture_camera_worker.c` | slots, foreground, owner epoch, credit | foreground changes, callbacks, submit, give up | the credit protocol |
| Microphone | `N/capture_audio_worker.c`, `audio_input_pcm.c`, `R/rdpeai.rs`, `N/capture_slots.c` | stream, slot and session generations, a packet being filled | open, close, look, read, hand over, attach, detach | yes, except the device and resampling |
| Session switching | `N/native_switch*.c`, `au_snapshot.c` | active slot, deferred switch, watchdog, caches of access units | press, complete, background, resume, recover | yes, except badge and cursor |
| Session life | `N/native_session*.c`, `native_rdp_state.c`, `native_rdp_callbacks.c`, `native_streaming_transition.c`, `native_hub_actions_*.c` | slots, terminal state, HUB or stream | connect, stop, terminal event, supervise, enter the stream | partly |
| Decoder and canvas | `N/native_rdp_video.c`, `native_rgba_owner.c` | owner and epoch, keyframe wait, path switches | ingest, tiles, replay, reset | partly |
| Worker and commands | `webrdp-min/src/native.rs`, `R/ffi.rs`, `active.rs`, `active_io.rs`, `input.rs`, `disconnect.rs` | bounded channel, commands put aside, latched suppression, attempt | calls of the shell, drain, dispatch, reactivate, reconnect, stop | yes |
| Audio source | `N/audio_pipeline_source.c`, `audio_jitter.c` | lock-free ring, format and talkspurt generations, playout state | set format, close, push, render | partly |
| Mixing, duck, sink | `N/audio_pipeline.c`, `audio_opus.c`, `native_rdp_audio.c` | gains, envelopes, encoder | mix, duck, encode | no |
| Input | `N/input_evdev.c`, `input_event_queue.c`, `native_input_route.c`, `native_sdl_events.c`, `native_pointer.c`, `input_sdl.c` | grabbed devices, event queue, held keys and buttons | sweep, publish, drain, flush, focus | yes, except motion and the wheel |
| Mixer panel | `N/native_mixer_overlay.c`, `ui_mixer*.c` | faders, dirty settings, the level last seen, pressed buttons, grab handed over | edit, show, hide, poll, watch, save | yes, except drawing |
| HUB, cursor, presentation | `N/ui_*.c`, `cursor_sdl.c`, `native_presentation.c` | widgets, one cursor shape | draw, act | actions only |
| Volume client | `N/luna_volume.c` | one set and one get in flight, edit generation | set, poll, stall, reply | yes |
| Settings | `N/native_config*.c`, `settings_json.c`, `config_paths.c` | one file in one of several places | load, save by rename | storage, not parsing |
| Platform and log | `N/main.c`, `native_loop.c`, `native_lifecycle.c`, `webos_platform.c`, `ndl_adapter/`, `category_log.c` | the loop | tick | the tick's order |
| Connection, authentication, other channels | `R/connection.rs`, `transport.rs`, `egfx.rs`, `rdpsnd.rs`, `rdpedisp.rs`, `credssp.rs`, `ntlm.rs`, ... | a handshake, codecs | connect, decode | as one phase |

### How they interact

- The SDL thread calls a worker only through `R/ffi.rs`: a bounded channel of commands, a stop
  flag, and `rdp_set_capture_active`. The first and the last may make it wait.
- A worker calls the shell only through callbacks: video units and tiles (under `video_lock`),
  state and errors (atomics), audio packets (the ring), camera and microphone events (under
  `impl->lock` of the capture side).
- The supervisor, the switch and the HUB run on the SDL thread and read what the workers left.
- `impl->lock` is held by the SDL thread while it waits for a payload permit, and by the worker's
  callbacks; a permit is held by the worker while it writes.

### What is hard, and the properties that make each part correct

- *Media gate.* A close races a batch in the worker's hand and a reopen by another thread.
  Correct: after a close has returned nothing captured before it leaves; closes return; an answer
  the server waits for is not lost.
- *Camera.* Devices, channels and streams are replaced in any order while a credit is on its way
  through four threads. Correct: one credit is in one place; every request is answered once; the
  announced device converges to what the user and the hardware want; no lock cycle.
- *Microphone.* The worker looks at the slot, reads the device and hands over at three different
  times, while streams, sessions and connections come and go. Correct: what leaves was recorded for
  the stream and the session it leaves on; an open stream in the foreground is heard.
- *Switching.* The new owner is published in one critical section and fed from its cache in another
  while both servers stream; sessions die in between; some servers never answer a keyframe request.
  Correct: the slot on screen is fed and awake; a replay continues the delta chain exactly; every
  background server is silenced; a kept slot gets its picture.
- *Worker.* Calls are coalesced while the worker connects, is reactivated or waits to reconnect.
  Correct: the last suppress call wins; key edges are neither lost, reordered nor carried to
  another connection; no call blocks the shell for ever.
- *Audio.* Cursors, generations, rate and talkspurt are separate atomics. Correct: nothing heard
  is stale, unpublished or overwritten; a short burst is played.
- *Input.* Devices are read by one thread in sweeps, drained by another, and change hands between
  the application and the compositor. Correct: what a live server holds is tracked and belongs to
  the slot that input drives; when the user holds nothing, in the end no server does; events keep
  their time order across devices; the grab is held on a live focused stream and nowhere else; a
  panel waits for the buttons that are down and for no other.
- *Volume.* Edits are shown before they are made, and calls are slow, lost or refused. Correct: the
  knob never goes back to a reading older than the user's edit, and settles on the TV's level; the
  last edit is sent although a call is never answered; the panel does not raise itself unasked.
- *Settings.* A save crosses a temporary file, a rename and two syncs, in one of several places.
  Correct: after a crash a launch loads nothing older than what a save was acknowledged for, and
  edits are saved in the end.

`PROJECT.json` lists the hazards with their lines; those with no property carry the reason.

## 2. Modules

| Module | Models | Correspondence |
|---|---|---|
| `MediaMailbox` | `MediaMailbox`, one operator per method | each runs under the mailbox mutex, so it is one step wherever it is used |
| `MediaGate` (extends it) | setters, producers, the worker's `drain_media` | an action per section between locks; the condition variable with spurious wakeups; a permit is `outbound` |
| `CapturePrivacy` | the abstract promise of the gate: periods, closing, sending | `MediaGate!Privacy` is the refinement mapping |
| `MediaGateProofs` | theorems about `MediaGate` | section 5 |
| `CameraBridge` | `CameraState`, one operator per method | every method takes the bridge mutex once |
| `CameraDevices` (extends it) | the RDPECAM handlers on the worker's thread against a server that opens and closes channels freely | handler, then its callback |
| `CameraCredit` (extends `CameraBridge`, `MediaMailbox`) | bridge, mailbox and capture slot with their three threads and `impl->lock` | lock and permit acquisition are steps of their own |
| `Microphone` (extends `CameraCredit`) | rdpeai.rs, the microphone worker, stops and starts of the session, handoffs, and the packets of `drain_media` | one step per look, read, hand-over and packet; `set_slot` is two steps where it waits for a permit |
| `VideoSlots` | slots, caches, decoder and canvas, as operators on a world record | functions of `native_rdp_video.c`, `au_snapshot.c`, `native_session.c` |
| `SessionSwitch` (extends it) | the SDL loop, the user, the workers, the servers | a worker callback is a step, an SDL function is a step except where a worker can come between its sections |
| `WorkerCommands` | channel, worker phases, caller, server | one step per command sent or put aside, and per phase |
| `AudioRing` | one source: worker and pump | one step per access to an atomic that the other thread writes |
| `EventQueue` | `input_event_queue.c`, as operators on a queue | an operator per function, under `input->lock` |
| `InputRoute` (extends it) | reader thread, SDL loop, panel and HUB, compositor, servers that hold keys | a step per event routed, per device of a sweep, per SDL event; `Ui` follows the phases of one turn of the loop |
| `LunaVolume` | the volume client: the SDL thread's half, the loop thread's sources, the bus | one step per section of the cache lock and per GMainLoop source; `sources` is the loop's queue |
| `SettingsStore` | places, temporary file, rename, syncs, process and power | one step per system call that a crash can come between |
| `MixerPanel` (extends both) | the panel's faders, poll, watch and save on the SDL thread | a save blocks that thread (`Free`) |
| `CameraDevicesProofs`, `SessionSwitchProofs`, `WorkerCommandsProofs`, `InputRouteProofs`, `AudioRingProofs` | theorems about the module each is named after | section 5 |
| `MicrophoneProofs` | theorems about `CameraCredit` and `Microphone` | section 5 |
| `MixerPanelProofs` | lemmas about `SettingsStore` and `LunaVolume`, theorems about their composition | section 5 |
| `MC*` | instances for TLC | values of the constants |

`VideoSlots` and `MediaMailbox` are operators on values so that a component that composes them
takes the same definitions, and so that the proofs can state what an operator returns once.

### Abstractions

- *Data.* A payload is its generation and epoch; an access unit is a seed or a delta; a key is its
  place in the order of the calls; an audio frame is what it was pushed as, and where.
- *Epochs* of slots are compared only with the owner's, so `VideoSlots` keeps whether the owner's
  is current instead of a number.
- *Time* is a choice: an armed deadline may be found passed at any look (SessionSwitch), a phase
  may end in a network error at any step (WorkerCommands), `age` says whether the last packet is
  old (AudioRing). A property that holds for every choice holds for the code's values.
- *Frames on the wire.* A frame sent before a server has applied a command is the same to the
  client as a command applied late, so there is no queue of frames; `peer` has what a server has
  been told and has not done yet.
- *Undefined or platform outcomes.* Whether the backend takes a unit, a cache can be allocated, or a
  worker starts, is a choice (`lucks`, `fates`).
- *External code.* Servers are modelled from what the code relies on: one that obeys suppress calls,
  keeps that state through a reactivation, and may or may not answer a keyframe request.

Not in the switching model: the indicator badge, the cursor, input retargeting (`InputRoute` has it),
the frozen canvas kept for a return from the HUB, a change between H.264 and H.265 inside one
connection, and the state of the NDL backend. `SnapshotForce` (a debugging variable of the
environment) is FALSE in the runs. The "suppressed" branch of `native_streaming_transition.c:86-98`
is in the model but the navigation of today cannot reach it.

Not in the capture model: opening and configuring the devices, formats, resampling, gain and pacing;
the size of a packet, of which two reads make one; the version and format negotiation of RDPEAI; a
new audio device or a changed permission while a stream is up (`capture_redirect.c`); the stop of a session
that has a camera (`CameraDevices` has the camera's side of a reconnection); more than one slot.
A packet is known by when its oldest sound was recorded. The model has two behaviours that no property
speaks of, because the repository does not say what should happen: a packet half full when the foreground
leaves may be finished when it is back, if that takes less than one turn of the worker's loop, for
the same stream of the same session; and a handoff (`reset_session_state`, `native.rs:202-220`) leaves the
stream open and the mailbox full, so that packets may go out on the next connection before its server has
opened a stream, unless the channel library closes its processors when the connection is dropped.

Not in the worker model: which server errors are handoffs, the PDUs of a phase, the value of
deadlines. `drain_commands` takes what there is; the model puts one command aside at a time and enters the
next phase when the channel is empty, so that a call may come between two of them. The shell holds none of its locks in `rdp_send_*`, so a waiting send blocks the SDL
thread alone; it refreshes only a session it displays and resumes only one it suppressed. An error
while a batch is dispatched is a network error and ends the attempt; it is never retried.

Not in the audio model: rate correction, envelopes, gains, metering, duck and statistics. The
jitter estimate is a choice among the targets it may return. The code's constants satisfy
`RingConstants`: (260 + 20) * 192 = 53760 frames fit in 65536, and 2^32 is far more than
three capacities. While a format is being changed, frames of the format before it may be converted
at the next rate: `pending_sample_rate` is stored before the generation (`set_source_format`), and a
pump that is a generation behind reads the two in the wrong company. `HeardIsCurrent` excepts exactly
that window. The decision to play (`source_prepare_playout`) is one step, because it moves only the
reader's own cursor.

Not in the input model: motion, warps and the wheel; the remote's OK and channel keys, which act as
the colour keys and the side button do; the codes; lock keys. A switch whose target is not ready
hands over at once (the preparing is `SessionSwitch`'s). A rescan of the nodes is part of the step
that ends its sweep, and a device that went is noticed before it goes again. `tv.stale` is a history
variable, the buttons whose release the application may never see: a press SDL had queued from before the
mouse was grabbed (its release went to evdev) or from before a loss of focus that the pump took out of its
turn; one the stream took with the HUB already up; one of a mouse that was unplugged before the panel
opened. In the last case `native_evdev_input_stop_with_buttons` (`input_evdev.c:716`) has no mouse left to sample
and returns the mask it was given, so that a panel waits for a click although
`docs/native-runbook.md:839-840` says the sampling keeps consumed releases from stranding it. A panel with
such a button closes after the next click of it. The run keeps the compositor's pointer apart from
a mouse that is plugged in: `native_sdl_events.c:232` ignores the pointer's release once a USB mouse
is grabbed, so `NothingStuck` would not hold there, and nothing in the repository says that it should.

Not in the mixer model: the mute flag, gains, the keys of the panel, and the start of the loop
thread (calls before it are dropped). Edits and saves carry a number instead of a value. Slow, lost
and refused calls share one budget (`MaxFaults`); a call that the bus refuses loses its level
(`tv.missed`), as the code's comment accepts. `panel.doubt` is history: a reading was still out when
the stream came up, and may raise the panel. A place for settings does not vanish and come back, and
keeps over a power cut what was synced; a tmpfs does not, and is not meant to.

## 3. Runs

| Run | Instance | Shows |
|---|---|---|
| `media_gate` | 2 setters, queue of 2, 4 gate changes | privacy, no overtaking, no lost wakeup, closes return, `CapturePrivacy` implemented |
| `camera_devices` | 2 channels, 3 device objects, 2 pending requests, 4 starts and stops of the stream | identity of the device, one answer per request, capture follows the stream |
| `capture_session` | with a camera: 1 channel, 2 openings, 3 starts and stops of the stream, 3 gate changes; with a microphone: 2 streams or ends of one, a handoff or a second session | one place per credit, no deadlock between `impl->lock` and the permit, answers keep coming, availability converges, packets carry their own stream's sound, an open stream is heard |
| `switch_screen` | 2 slots: pipeline reloads and unbounded presses; tiles and 3 presses; ends, rejections, failed allocations and starts; retries and camera modes | the slot on screen alive, fed and awake, requests its own, exact replay, one picture |
| `switch_settles` | 2 slots, 3 presses, fairness | pictures arrive, background silenced |
| `switch_watchdog` | as above, no server answers | a finding, see below |
| `worker_commands` | queue of 2, 2 attempts, 1 reactivation, 2 keys, 4 control calls | last toggle wins, edges kept, calls return |
| `worker_refresh` | the same with 6 control calls | a finding |
| `audio_ring` | ring of 2 frames, cursors that wrap at 6, 2 formats of one or two rates, or a gap | nothing stale or overwritten is heard, bursts played |
| `input_route` | 2 slots, queue of 2, 3 to 5 edges in each of ten scenarios | held keys tracked, none stuck, time order, grab and mask where they belong |
| `input_grab` | the watched session ends under its panel | a finding |
| `mixer_panel` | 2 levels, 1 fault, 2 places, up to 3 edits and 4 mishaps in four scenarios | knob not yanked and settling, edits land and are saved, nothing pops up, acknowledged settings survive |

The properties are the modules' own. A `TypeOK` says what a component's variables hold (for the ring
it is `Types`, in `AudioRingProofs`; for the commands it is in `WorkerCommandsProofs`); they are proved (section 5).

**Bounds.** Every bound is a constant. Two setters are enough for an overtaking and one to wait
behind it; a queue of two can be full, half full and empty; four changes of the gate let
data of one period meet the next open period and its close. Two slots give every relation between the slot on screen and another;
what a third adds is the choice among survivors, which depends on no state the two do not have.
A cache of two units (`MaxCache`) can hold a seed, a seed and a delta, and overflow. Three presses
make a switch, a switch back and one more in between; with reloads in `switch_screen` presses are unbounded,
so the states are those of any number of switches. Two streams and two connections let a packet begun for
one meet the other, with the same stream number when the sessions differ. Six control calls are what the finding needs.
A ring of two frames under packets of one and two meets an empty, a full and an overrun ring at
each alignment, with a cursor that has wrapped. A queue of two events (`Capacity`) under four edges
overflows, and holds one published and one newer event; five edges make a press, a panel or a loss of
focus, its return and a release. Two volumes are enough for a stale one; one fault leaves every reply
that comes after it to be honest. Two places give a preferred one that is lost and a fallback.

**Scenarios.** `Microphone` takes a set of `Profiles`, of which the initial state picks one: the
run has a session with a camera and a session with a microphone. Both at once is a legal profile
that the model allows and no run checks, because TLC could not finish it; the two halves share the gate's
epochs, the permits and `impl->lock`, and neither reads what the other writes besides. `SessionSwitch`, `InputRoute` and `MixerPanel` take a set of `Scenarios` and `AudioRing` a set of `Limits`; the
initial state picks one and no step changes it. A run then covers several small instances (for
example reloads with unbounded presses, or tiles with four) instead of the product of everything,
which TLC could not finish. A property must hold in each.

**Deadlock** is checked in the camera, capture and mixer runs. In the others the system may stop, and the configuration
says so: the gate changes are used up, the program has ended, a session has been stopped, or the
user has nothing left to press. There, liveness properties say what may not get stuck.

### Fairness

- `MediaGate`: writes end (`write_all` has a deadline and sees the stop flag) and a setter that is
  inside the call keeps running. Producers and users owe nothing.
- `Microphone` (with `CameraCredit`'s actions): each thread runs, and the camera worker answers a
  credit with a picture or, after its limits, an error. `SF(MicReads)`: an open device has sound or
  fails in the end, however often it has nothing yet, and without one the worker makes silence.
  A session that is started is attached. Servers, the camera and the user owe nothing.
- `SessionSwitch`: the SDL loop keeps running (`WF(Loop)`, which includes finding that a timer has
  run out), and servers send what they owe and apply what they are told. User actions are not fair;
  without end they could take every turn of the one loop, which is why the liveness run bounds them.
- `WorkerCommands`: the worker polls with a timeout and takes its next step. `SF(SendReturns)`: a
  sleeping send competes with wake hints for a free place; the channel has 1024 places, the hints are few
  per frame, and none come once `native_stop_slot` has detached the capture workers.
- `AudioRing`: a call of the worker ends, the pump renders every 10 ms, time passes.
- `InputRoute`: the SDL loop turns (`SF(Ui)`: a sweep holds `input->lock` only while it reads what is
  there, so the loop gets it in the end), the reader takes its next step, a reconnecting
  worker comes back. Hands, devices and the focus owe nothing.
- `MixerPanel`: both threads run, the 200 ms poll and the stall ceiling come, the service does or
  loses a call, a drag ends and a left stream is entered again. `SF(IdleSave)`: a save may be
  put off by each new drag, but not by all of them. Edits, the remote and mishaps are not fair.

## 4. Findings

- `switch_watchdog`: the runbook (`docs/native-runbook.md:233-236`) says that a switch with no
  *decodable* frame for two seconds reconnects the session once. The watchdog counts *accepted*
  units, and a delta whose reference was dropped while the slot was in the background is accepted.
- `worker_refresh`: a comment (`native.rs:444-445`) says one queued refresh is as good as many.
  Coalescing keeps the oldest refresh and the newest toggle, so the refresh can go out ahead
  of the resume it was asked with, to a server that does not display.
- `input_grab`: the runbook (`docs/native-runbook.md:319-320`) says that the grab comes back when the
  panel closes. If the watched session ends under an open panel, the handoff to the survivor
  closes the panel while the dead slot is still the active one, so `native_mixer_overlay_hide` does not
  grab, and nothing does later: the survivor is streamed without USB mouse or keyboard until the focus
  changes or the panel is opened again. A focus regained while the session reconnects
  (`native_input_route.c:449-454`) is the same gap by another way.

## 5. Proofs

Each theorem holds for every value of the constants that satisfies the modules' own assumptions.
Those say that bounds are naturals, that `None`, `Nobody` and the like are not members of the sets they
stand beside, and that a scenario is one of the kind the module describes; four say more:
`ServerChannelAssumption` (`CameraCredit`: there is a channel 1, which its server uses),
`PlacesAssumption` (`SettingsStore`: there is at least one place), `SlotsAssumption` (`InputRoute`: there
is a slot, and the colour keys that stand for slots are no keys that are forwarded) and `RingConstants` (`AudioRing`: the
wrap is a multiple of the capacity and at least three of it, no rate and no target is zero, and what a trim
keeps fits in the ring; the code's constants satisfy it, section 2). The bounds that keep TLC's
instances finite (`MaxEpoch`, `MaxGen`, `MaxToken`, `presses`, ...) are arbitrary in the proofs.

| Module | Theorem | Statement |
|---|---|---|
| `MediaGateProofs` | `GateTypeOK` | `Spec => []TypeOK` |
| | `PayloadPrivacy` | `Spec => []NoPayloadAfterClose` |
| | `NoOvertaking` | `Spec => []CloseNotOvertaken` |
| | `NoWakeupLost` | `Spec => []NoLostWakeup` |
| | `GateImplementsPrivacy` | `Spec => ImplementsPrivacy` |
| `CameraDevicesProofs` | `TypeCorrect` | `Spec => []TypeOK` |
| | `AttachedIsCurrent` | `Spec => []DeviceIsCurrent` |
| | `NothingForgotten` | `Spec => []NothingOwedForgotten` |
| | `CaptureFollows` | `Spec => []CaptureFollowsStream` |
| `SessionSwitchProofs` | `TypeCorrect` | `Spec => []TypeOK` |
| | `ScreenFed` | `Spec => []ScreenIsFed` |
| | `ScreenAwake` | `Spec => []ScreenIsAwake` |
| | `VisibleAlive` | `Spec => []VisibleIsAlive` |
| | `RefreshOwned` | `Spec => []RefreshIsOwn` |
| | `OnePictureOnly` | `Spec => []OnePicture` |
| | `ReplayExact` | `Spec => ReplayIsExact` |
| `MixerPanelProofs` | `TypeCorrect` | `Spec => []TypeOK` |
| | `SavedSurvives` | `Spec => []AcknowledgedSurvives` |
| | `NeverYanked` | `Spec => KnobNotYanked` |
| | `NoPopUp` | `Spec => NothingPops` |
| `WorkerCommandsProofs` | `TypeCorrect` | `Spec => []TypeOK` |
| | `LastWins` | `Spec => []LastToggleWins` |
| | `AllEdgesKept` | `Spec => []EdgesKept` |
| `InputRouteProofs` | `TypeCorrect` | `Spec => []TypeOK` |
| | `Tracked` | `Spec => []HeldIsTracked` |
| | `GrabKept` | `Spec => []GrabIsOurs` |
| | `MaskHonest` | `Spec => []MaskIsHonest` |
| | `InOrder` | `Spec => InTimeOrder` |
| `AudioRingProofs` | `TypeCorrect` | `Spec => []Types` |
| | `HeardCurrent` | `Spec => []HeardIsCurrent` |
| | `HeardPushed` | `Spec => HeardAsPushed` |
| `MicrophoneProofs` | `CreditKept` | `Spec => []CreditInOnePlace` (`CameraCredit` alone) |
| | `TypeCorrect` | `MicSpec => []MicTypeOK` |
| | `CreditNeverLost` | `MicSpec => []CreditInOnePlace` |
| | `MicrophoneIsOwn` | `MicSpec => []MicIsOwn` |

Each module also has `Invariance`, the inductive invariant as a theorem. None of the properties is
inductive alone; what had to be added, and why, is the content of the proofs.

*The gate.* That a payload on the wire is of a later epoch than the last completed close survives
`CloseReturns` only because a close returns when no permit is out, and that means nothing is on the
wire; that a reopen does not overtake a draining close needs that a setter inside the call owns the
mutex. `IInv` is therefore the conjunction of

- `PermitForWire`: permits and the wire agree, and both with the worker's step;
- `TransitionOwned`: who is inside the call owns the mutex, and while it drains the gate is closed;
- `CloseBehind`: the last completed close is at or behind the epoch, strictly behind an open gate;
- `PayloadBounded`: what is on the wire lies between the two;
- `NoLostWakeup` and `TypeOK`.

The lemmas `MailboxClosed` and `MailboxFrame` say what each mailbox operator preserves; `TypeStep`
and `IInvStep` have a step per action. For the refinement, each action maps to a step of
`CapturePrivacy` or to a stutter, and `IInv` gives the guards of those steps.

*Camera devices.* An attached processor is current because tokens are handed out in order and an
announcement retires those before it (`TokensOrdered`); requests are neither lost nor answered
twice because a stream that has stopped waits for nothing and a device in use is attached
(`UseNeedsDevice`). The bridge's operators have a lemma each, so an action's proof is a
composition.

*Switching.* The operations are functions of a world record, so the invariant is a predicate
`Sound` of a world, and each operation has a lemma that it keeps `Sound` or says exactly what it
breaks. `Sound` is the conjunction of

- `SlotsSound`: on any slot, an armed cache means a slot that is pending or suppressed, a pending
  slot is not suppressed, an unsuppressed live one was told to send, and a cache with units in it has
  every unit since its seed. `ScreenIsFed` and `ScreenIsAwake` speak of the active slot only, but
  any slot may become active;
- `StepSound`: between the sections of a handoff, the dead slot is the active one before the new
  owner is published and not afterwards. Otherwise burying the dead would take the new owner away;
- `ActiveSound`: the slot on screen after its resume is fed and awake; before it, it has a session
  and does not wait for a seed (its cache may still be armed: that is what will be replayed);
- `PictureSound` and `RefreshSound`: the canvas, and whose request is out. `RefreshIsOwn` is about
  an active connection, but a request outlives a reconnect, so the invariant says it of every session.

Two lemmas carry the workers' half: `IngestFacts` and `BitmapFacts` (a unit or a tile of slot s changes
the notes of s alone, and the screen only in ways that leave it darker or wholly s's). `ReplayExact` follows the
switch's second section: `OnlyFinish` says nothing else ends a switch, `ReenterIsExact` that of its
outcomes only a whole replay wakes the server without a keyframe, and then `CacheSound` says the chain
has no gap. The property excepts a connection that has failed: a callback may reject a unit after
the new owner is published and the connection stay active; then the replay closes the canvas and
takes no decoder, and the supervisor drains the slot. TLC refuted the unqualified form in an instance
with rejected units and tiles together.

*Panel, volume and settings.* `StoreInv` says what each power cut can leave: a file older than
what was acknowledged always has a place before it that has a file too (`Covered`), which a save keeps because it
goes to the first place that takes it (`SaveOnItsWay`). `LunaInv` is about readings: one that was asked for
with no edit since has nothing of the user's between it and the service (`ReadingInv`), also after
stalled calls are cancelled and their replies come late; tokens are never used twice while either is
out. `Steady` adds the panel's memory of what it last saw, for `NothingPops`.

*Audio ring.* The cursors wrap, so no invariant of theirs alone says which of two is ahead. `IInv` says
that there are positions, naturals that never wrap, of which the cursors are remainders (`Sound`): the
reader's, the writer's, the last stored boundary of a format and of a talkspurt, where the frames of the
current ones begin, and how far the converter saw the writer. Of these

- `Ordered` and `Queued`: the queue, with what is being copied into it, fits in the ring, and each place
  in it holds the frame pushed at its position;
- `BehindFormat` and `BehindSpurt`: a reader that has still to apply a boundary is less than two
  capacities past it, whatever it trims or drops meanwhile. Its distance then cannot be taken for
  that of a boundary ahead (`Advanced`), which is why the wrap must be three capacities: a boundary
  left behind looks further ahead than the ring is long. A trim waits for a fade that is not over before
  the block has looked at the boundaries (`Fading`), so a trim does not pass the same boundary twice;
- `Generations` and `Converting`: the pump is not ahead of what is published, and what the converter
  saw of the queue belongs to the generation and the talkspurt it looked at *afterwards*; the order of the
  three loads in `source_convert_frames` is what makes this true, and what its mutant breaks;
- `RateKnown`: nothing is converted before a rate is known.

A lemma per step says which positions the next state has (`r` moves over a trim, a drop or a conversion, `w`
over a publication). The lemmas under them are about remainders: `SameRemainder`, `AheadFacts` and
`Distance` turn a difference of cursors into one of positions, and are proved with explicit
multiples because the provers know little of `%` by a constant they are not given.

*Credit and microphone.* `CreditInv` has a place for the credit on each step of its way (`OneCredit`)
and says that no thread has seen a stream the bridge has not begun (`NoneAhead`), because a slot
that is told late compares generations. `MicInv` adds what was recorded for whom: what the
worker holds for the slot as it is now was recorded in its session between two generations
(`MicSound`), and so were the packets in the mailbox and in the channel's hand (`PacketsSound`).

*Worker commands.* What is on its way lies in four places: with the server, put aside, in the channel and with
the caller. The properties speak of the concatenation, the steps of one place, so the invariant says
it piece by piece, and lemmas (`ToggleJoined`, `EdgesJoined`) say what a concatenation has
of its parts. `CallUnderWay`: the last call is the caller's command, the last toggle in the channel,
the last put aside, or what the worker believes (`latched`); `Believed`: a server that has been sent what
was put aside displays what the worker believes. Both hold in every phase, because a handoff
(`KeptSuppression`) and the next `run_active` (`Relatched`) carry the belief from one connection to the
next. `InPieces`: the edges of the connection, in order, over the four places; that a press asleep over a
handoff is the new connection's comes from `Orderly` (what is not asleep is not outside the channel).

*Input.* The operations of the SDL thread are functions of a world, as in switching, and `Good` is a
predicate of a world. It is the conjunction of

- `Typed` and `ReaderOK`: what is queued of a device is that device's; a mouse the reader has lost left
  nothing in the queue but a request to release everything;
- `TimesOK`: batch, queue and each device's unread events are in order, each no older than those before
  it on the way. Across devices this holds only because a sweep publishes what is older than its start
  (`cutoff`): a device already read has nothing left from before that, one still to be read may have;
- `GrabOK`, `FocusOK`, `ArmedOK`, `PanelOK`: what the thread believes of focus and panel, up to the notices
  in SDL's queue. `LostAgain` (a notice that the focus is back has a later loss behind it, while it is
  in fact lost) is what keeps a stale notice from ending in a grab under an overlay;
- `HeldOK`: with `HeldIsTracked`, that only an armed slot in an active session holds anything;
- `QueuedOK`, `MaskOK`, `ClicksOK`: a button that the queue, the mask or the held inputs have down is down on
  a device SDL hears, or a word about it is on its way, or it is in `tv.stale`. `MaskIsHonest` alone says
  nothing before a panel is up; `ClicksOK` is the same of the inputs from which its mask is made;
- `BatchOK`: a batch of clicks is routed while its mouse is grabbed or a reset is pending.

`Core` is the part that the operators of the SDL thread keep, whatever the queues hold: they leave the
queues alone or empty them (`Within`, `Carried`), for which `CarriedIsGood` gives the rest. A step of the drain or
to another phase changes the queues and nothing else (`TurnedKeeps`); the reader's steps have lemmas of
their own, from `Push` over a device (`EventReadKeeps`) to a sweep (`SweepKeeps`); what happens outside
grows SDL's queue by one event (`EventAppended`), for which `LeavesDown` is computed once. `Push` and the
sorted insertion are defined with CHOOSE over the places of the queue, and `RunLength` as the first
place that ends a run: their lemmas (`InsertedInOrder`, `BatchIsRun`) take the greatest or the least of a set
of numbers, which stands in for an induction over the queue.

### Only model-checked, and why

Every safety property of every run that passes is proved. What is left:

- Every liveness property (`CloseTerminates`, `LeaveCompletes`, `AnswersKeepComing`, `AvailabilityConverges`,
  `MicIsHeard`, `PictureArrives`, `BackgroundSilenced`, `CallsReturn`, `BurstIsPlayed`, `NothingStuck`,
  `SteadyGrab`, `EditLands`, `KnobSettles`, `EditsSaved`): fairness and ENABLED are outside the prover.
- The three findings, which are refutations.

## 6. Plan

The cursor's mailbox, the duck controller, `rdpsnd`, `rdpedisp` and frame acknowledgement in `egfx` have state
of their own that one thread keeps; they would be modules beside these.

What will stay outside: drawing, parsing of settings and bitstreams, cryptography, and the
platform's libraries. They keep no state that two threads share.
