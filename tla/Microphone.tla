----------------------------- MODULE Microphone -----------------------------
(***************************************************************************)
(* The microphone of the session of CameraCredit: it shares the camera's   *)
(* mailbox, gate, foreground and locks, and the worker that sends both.    *)
(*                                                                         *)
(*  - The server opens a stream over RDPEAI (rdpeai.rs); the callbacks     *)
(*    start and stop it in the capture slot (capture_slots.c).             *)
(*  - The microphone worker of the C shell looks at the slot under         *)
(*    impl->lock, then reads the device and fills packets without it       *)
(*    (capture_audio_worker.c): what it looked at may be gone by then.     *)
(*  - The SDL thread stops and starts sessions (native_session.c).  The    *)
(*    worker of a session runs before its handle is in the slot, and until *)
(*    it is joined after the handle has left it.                           *)
(*  - A server that hands over ends one connection and begins another in   *)
(*    the same session (native.rs).                                        *)
(*                                                                         *)
(* Two reads fill one packet.  A packet is known by when its oldest sound  *)
(* was recorded; silence counts as sound.  A session with a camera stays   *)
(* connected here: CameraDevices has the camera's side of a reconnection.  *)
(***************************************************************************)
EXTENDS CameraCredit

CONSTANTS
    Profiles,       \* what the profile of the session may redirect
    MaxStreams,     \* bound on streams and their ends in one session
    MaxConnections  \* bound on connections, by new sessions and by handoffs

ASSUME ProfilesAssumption == Profiles \subseteq SUBSET {"camera", "microphone"}
ASSUME MicrophoneBounds == MaxStreams \in Nat /\ MaxConnections \in Nat

VARIABLES
    redirect,   \* what this profile redirects
    life,       \* where the SDL thread is with the session of the slot
    session,    \* the number of the session
    slotGen,    \* slot_generation of the slot
    link,       \* the connection of the session, and how many there have been
    peer,       \* the server's side: its AUDIO_INPUT channel and stream
    rdpeai,     \* the AudioInputState of the session
    micSlot,    \* audio_streaming and audio_generation of the slot
    micCalls,   \* the callbacks that the worker is about to invoke
    mic,        \* the microphone worker: step, stream, sound read, unfinished packet
    sound,      \* history: when the packets in the mailbox were recorded
    heldAudio,  \* the packets of the batch in the worker's hand
    micWire     \* the packet that is being written under a permit

sessionVars == <<redirect, life, session, slotGen, link, peer>>
micVars == <<sessionVars, rdpeai, micSlot, micCalls, mic, sound, heldAudio, micWire>>
allVars == <<vars, micVars>>

NoStream == [slot |-> 0, gen |-> 0]
NoSound == [session |-> 0, gen |-> 0]
NoPacket == [sub |-> [gen |-> 0, epoch |-> 0], since |-> NoSound]
NewRdpeai == [channel |-> FALSE, open |-> FALSE, gen |-> 0]
NoPeer == [channel |-> FALSE, stream |-> FALSE]
IdleMic == [at |-> "look", stream |-> NoStream, read |-> NoSound, part |-> NoSound]

Sounds == [session: Nat, gen: Nat]
Packets == [sub: [gen: Nat, epoch: Nat], since: Sounds]

MicTypeOK ==
    /\ TypeOK
    /\ redirect \in Profiles /\ session \in Nat /\ slotGen \in Nat
    /\ life \in {"starting", "attached", "detaching", "joining", "gone"}
    /\ link \in [state: {"connecting", "active", "ended"}, count: Nat]
    /\ peer \in [channel: BOOLEAN, stream: BOOLEAN]
    /\ rdpeai \in [channel: BOOLEAN, open: BOOLEAN, gen: Nat]
    /\ micSlot \in [streaming: BOOLEAN, gen: Nat]
    /\ micCalls \in Seq(Callback)
    /\ mic \in [at: {"look", "read", "push"}, stream: [slot: Nat, gen: Nat],
                read: Sounds, part: Sounds]
    /\ sound \in Seq(Sounds) /\ Len(sound) = Len(mbox.audio)
    /\ heldAudio \in Seq(Packets) /\ micWire \in Packets

MicInit ==
    /\ Init
    /\ redirect \in Profiles
    /\ life = IF "camera" \in redirect THEN "attached" ELSE "starting"
    /\ session = 1 /\ slotGen = 1
    /\ link = [state |-> IF "camera" \in redirect THEN "active" ELSE "connecting", count |-> 1]
    /\ peer = NoPeer /\ rdpeai = NewRdpeai
    /\ micSlot = [streaming |-> FALSE, gen |-> 0]
    /\ micCalls = <<>> /\ sound = <<>> /\ heldAudio = <<>>
    /\ mic = IdleMic /\ micWire = NoPacket

WorkerRuns == link.state = "active"

\* The worker has nothing of the microphone's in hand, and may turn to the next thing.
MicIdle == heldAudio = <<>> /\ micWire = NoPacket /\ micCalls = <<>>

-----------------------------------------------------------------------------
(* The camera's half, as in CameraCredit *)

\* A gate that closes or opens drops the packets in the mailbox.
MoveForeground ==
    /\ life = "attached"
    /\ UiStep
    /\ sound' = IF mbox'.epoch = mbox.epoch THEN sound ELSE <<>>
    /\ UNCHANGED <<sessionVars, rdpeai, micSlot, micCalls, mic, heldAudio, micWire>>

\* Without a session the foreground moves and no gate does.
MoveForegroundGone ==
    /\ life = "gone" /\ owner < MaxEpoch
    /\ foreground' = ~foreground /\ owner' = owner + 1
    /\ UNCHANGED <<bridge, mbox, desired, slot, physical, target, uiVars, workerVars, micVars>>

CameraRuns == "camera" \in redirect /\ CameraStep /\ UNCHANGED micVars

CameraRequest == "camera" \in redirect /\ MicIdle /\ ServerStep /\ UNCHANGED micVars

CameraInvoke == Invoke /\ UNCHANGED micVars

\* drain_media takes the packets with the camera's submission, and sends them after it.
BeginDrain == WorkerRuns /\ MicIdle /\ Reconcile /\ UNCHANGED micVars

DrainCamera == WorkerRuns /\ (Discard \/ Prepare \/ Written \/ Notify) /\ UNCHANGED micVars

DrainTakes ==
    /\ Take
    /\ heldAudio' = [i \in DOMAIN mbox.audio |-> [sub |-> mbox.audio[i], since |-> sound[i]]]
    /\ sound' = <<>>
    /\ UNCHANGED <<sessionVars, rdpeai, micSlot, micCalls, mic, micWire>>

-----------------------------------------------------------------------------
(* drain_media: the packets *)

Packet == Head(heldAudio)

\* AudioInputBridge::submit_pcm
MayCarry(p) == rdpeai.channel /\ rdpeai.open /\ rdpeai.gen = p.sub.gen

MaySend(p) == AudioMaySend(mbox, p.sub) /\ MayCarry(p)

AtPackets == worker = "idle" /\ call = NoCall /\ heldAudio # <<>> /\ micWire = NoPacket

SendPacket ==
    /\ AtPackets /\ MaySend(Packet)
    /\ mbox' = AfterPrepareAudio(mbox, Packet.sub)
    /\ micWire' = Packet
    /\ heldAudio' = Tail(heldAudio)
    /\ UNCHANGED <<bridge, shellVars, uiVars, workerVars, sessionVars, rdpeai, micSlot,
                   micCalls, mic, sound>>

\* The packet of another epoch gets no permit; that of another stream drops its permit.
DropPacket ==
    /\ AtPackets /\ ~MaySend(Packet)
    /\ heldAudio' = Tail(heldAudio)
    /\ UNCHANGED <<vars, sessionVars, rdpeai, micSlot, micCalls, mic, sound, micWire>>

PacketWritten ==
    /\ micWire # NoPacket
    /\ mbox' = ReleasePermit(mbox)
    /\ micWire' = NoPacket
    /\ UNCHANGED <<bridge, shellVars, uiVars, workerVars, sessionVars, rdpeai, micSlot,
                   micCalls, mic, sound, heldAudio>>

\* A write that fails ends the worker; the batch goes with it.
PacketFails ==
    /\ micWire # NoPacket /\ "camera" \notin redirect
    /\ mbox' = ReleasePermit(mbox)
    /\ micWire' = NoPacket /\ heldAudio' = <<>>
    /\ link' = [link EXCEPT !.state = "ended"]
    /\ UNCHANGED <<bridge, shellVars, uiVars, workerVars, redirect, life, session, slotGen, peer,
                   rdpeai, micSlot, micCalls, mic, sound>>

-----------------------------------------------------------------------------
(* The server, and the handlers of rdpeai.rs *)

MicRequests == WorkerRuns /\ MicIdle /\ RequestsArrive /\ "microphone" \in redirect

\* AudioInputHandler::start
StartChannel ==
    /\ MicRequests /\ ~peer.channel
    /\ peer' = [peer EXCEPT !.channel = TRUE]
    /\ rdpeai' = [rdpeai EXCEPT !.channel = TRUE]
    /\ UNCHANGED <<vars, redirect, life, session, slotGen, link, micSlot, micCalls, mic, sound,
                   heldAudio, micWire>>

\* handle_open, of a valid request; a stream that is open is stopped first.
OpenStream ==
    /\ MicRequests /\ peer.channel /\ rdpeai.gen < MaxStreams
    /\ peer' = [peer EXCEPT !.stream = TRUE]
    /\ rdpeai' = [channel |-> TRUE, open |-> TRUE, gen |-> rdpeai.gen + 1]
    /\ micCalls' = IF rdpeai.open
                   THEN <<Call("stop", rdpeai.gen), Call("start", rdpeai.gen + 1)>>
                   ELSE <<Call("start", rdpeai.gen + 1)>>
    /\ UNCHANGED <<vars, redirect, life, session, slotGen, link, micSlot, mic, sound, heldAudio,
                   micWire>>

\* AudioInputHandler::close
CloseChannel ==
    /\ MicRequests /\ peer.channel /\ (rdpeai.open => rdpeai.gen < MaxStreams)
    /\ peer' = NoPeer
    /\ rdpeai' = [channel |-> FALSE, open |-> FALSE,
                  gen |-> IF rdpeai.open THEN rdpeai.gen + 1 ELSE rdpeai.gen]
    /\ micCalls' = IF rdpeai.open THEN <<Call("stop", rdpeai.gen)>> ELSE <<>>
    /\ UNCHANGED <<vars, redirect, life, session, slotGen, link, micSlot, mic, sound, heldAudio,
                   micWire>>

\* The callbacks, under impl->lock: audio_start and audio_stop of capture_slots.c.
MicInvoke ==
    /\ micCalls # <<>> /\ ~lock
    /\ LET c == Head(micCalls) IN
         micSlot' = IF c.kind = "start" THEN [streaming |-> TRUE, gen |-> c.gen]
                    ELSE IF micSlot.gen = c.gen THEN [micSlot EXCEPT !.streaming = FALSE]
                    ELSE micSlot
    /\ micCalls' = Tail(micCalls)
    /\ UNCHANGED <<vars, sessionVars, rdpeai, mic, sound, heldAudio, micWire>>

\* The server ends the connection for another one.  reset_session_state leaves the mailbox
\* and the AudioInputState as they are.
Handoff ==
    /\ MicRequests /\ "camera" \notin redirect
    /\ life \in {"starting", "attached"} /\ link.count < MaxConnections
    /\ link' = [state |-> "connecting", count |-> link.count + 1]
    /\ peer' = NoPeer
    /\ UNCHANGED <<vars, redirect, life, session, slotGen, rdpeai, micSlot, micCalls, mic, sound,
                   heldAudio, micWire>>

Connect ==
    /\ link.state = "connecting" /\ life # "gone"
    /\ link' = [link EXCEPT !.state = "active"]
    /\ UNCHANGED <<vars, redirect, life, session, slotGen, peer, rdpeai, micSlot, micCalls, mic,
                   sound, heldAudio, micWire>>

-----------------------------------------------------------------------------
(* The SDL thread: native_stop_slot and native_slot_connect.  Both return before
   it does anything else. *)

Unlocked == ui = "idle" /\ ~lock

\* set_slot without a session: close the gate, wait for the permit in flight ...
Detach ==
    /\ life = "attached" /\ Unlocked /\ "camera" \notin redirect
    /\ lock' = TRUE /\ life' = "detaching"
    /\ mbox' = SetCaptureActive(mbox, FALSE)
    /\ sound' = IF mbox.active THEN <<>> ELSE sound
    /\ UNCHANGED <<bridge, shellVars, ui, workerVars, redirect, session, slotGen, link, peer,
                   rdpeai, micSlot, micCalls, mic, heldAudio, micWire>>

\* ... and forget the session and its stream.
Detached ==
    /\ life = "detaching" /\ mbox.outbound = 0
    /\ lock' = FALSE /\ life' = "joining"
    /\ slotGen' = slotGen + 1
    /\ micSlot' = [micSlot EXCEPT !.streaming = FALSE]
    /\ UNCHANGED <<bridge, mbox, shellVars, ui, workerVars, redirect, session, link, peer, rdpeai,
                   micCalls, mic, sound, heldAudio, micWire>>

\* The worker is joined when it is between two steps or has ended; set_slot again drops
\* what a last callback has started.
Joined ==
    /\ life = "joining" /\ Unlocked
    /\ MicIdle /\ worker = "idle" /\ call = NoCall
    /\ life' = "gone"
    /\ micSlot' = [micSlot EXCEPT !.streaming = FALSE]
    /\ link' = [link EXCEPT !.state = "ended"]
    /\ UNCHANGED <<vars, redirect, session, slotGen, peer, rdpeai, micCalls, mic, sound,
                   heldAudio, micWire>>

\* rdp_session_start: a session of its own, whose worker runs from here on.
StartSession ==
    /\ life = "gone" /\ link.count < MaxConnections
    /\ life' = "starting" /\ session' = session + 1
    /\ link' = [state |-> "connecting", count |-> link.count + 1]
    /\ mbox' = EmptyMailbox /\ sound' = <<>>
    /\ peer' = NoPeer /\ rdpeai' = NewRdpeai
    /\ UNCHANGED <<bridge, shellVars, uiVars, workerVars, redirect, slotGen, micSlot, micCalls, mic,
                   heldAudio, micWire>>

\* Mutant: set_slot drops the stream of every session that it meets for the first time.
AttachForgetsStream ==
    /\ life = "starting" /\ Unlocked
    /\ life' = "attached"
    /\ slotGen' = slotGen + 1
    /\ mbox' = SetCaptureActive(mbox, foreground)
    /\ sound' = IF mbox'.epoch = mbox.epoch THEN sound ELSE <<>>
    /\ micSlot' = [micSlot EXCEPT !.streaming = FALSE]
    /\ UNCHANGED <<bridge, shellVars, uiVars, workerVars, redirect, session, link, peer, rdpeai,
                   micCalls, mic, heldAudio, micWire>>

\* set_slot with the session: a stream that the worker has negotiated before is kept, if
\* the profile may have one.
Attach ==
    /\ life = "starting" /\ Unlocked
    /\ life' = "attached"
    /\ slotGen' = slotGen + 1
    /\ mbox' = SetCaptureActive(mbox, foreground)
    /\ sound' = IF mbox'.epoch = mbox.epoch THEN sound ELSE <<>>
    /\ UNCHANGED <<bridge, shellVars, uiVars, workerVars, redirect, session, link, peer, rdpeai,
                   micSlot, micCalls, mic, heldAudio, micWire>>

-----------------------------------------------------------------------------
(* The microphone worker: capture_audio_worker_main *)

micOthers == <<sessionVars, rdpeai, micSlot, micCalls, heldAudio, micWire>>

\* The handle is in the slot.
Registered == life = "attached"

\* Mutant: a session is known by its address, which the next one may be given.
WantedByAddress ==
    IF "microphone" \in redirect /\ Registered /\ foreground /\ micSlot.streaming
    THEN [slot |-> 1, gen |-> micSlot.gen] ELSE NoStream

\* audio_collect_desired_locked
Wanted ==
    IF "microphone" \in redirect /\ Registered /\ foreground /\ micSlot.streaming
    THEN [slot |-> slotGen, gen |-> micSlot.gen] ELSE NoStream

\* The top of the loop; a stream that is not the one in hand starts with an empty packet.
MicLooks ==
    /\ mic.at = "look" /\ ~lock
    /\ mic' = IF mic.stream # Wanted
              THEN [IdleMic EXCEPT !.stream = Wanted, !.at = IF Wanted = NoStream THEN "look" ELSE "read"]
              ELSE [mic EXCEPT !.at = IF Wanted = NoStream THEN "look" ELSE "read"]
    /\ UNCHANGED <<vars, micOthers, sound>>

\* The device has sound, or there is none to open and the worker makes silence ...
MicReads ==
    /\ mic.at = "read"
    /\ mic' = [mic EXCEPT !.at = "push", !.read = [session |-> session, gen |-> rdpeai.gen]]
    /\ UNCHANGED <<vars, micOthers, sound>>

\* ... or it has nothing yet, or it fails and is closed.
MicReadsNothing ==
    /\ mic.at = "read"
    /\ mic' = [mic EXCEPT !.at = "look"]
    /\ UNCHANGED <<vars, micOthers, sound>>

\* native_audio_input_pcm_push: begin a packet ...
MicBeginsPacket ==
    /\ mic.at = "push" /\ mic.part = NoSound
    /\ mic' = [mic EXCEPT !.at = "look", !.part = mic.read, !.read = NoSound]
    /\ UNCHANGED <<vars, micOthers, sound>>

\* ... or fill it; audio_packet, under impl->lock, hands it over if the slot still wants it.
MicFillsPacket ==
    /\ mic.at = "push" /\ mic.part # NoSound /\ ~lock
    /\ IF Wanted = mic.stream
       THEN /\ mbox' = EnqueueAudio(mbox, mic.stream.gen)
            /\ sound' = IF mbox.active
                        THEN Append(IF Len(sound) = QueueDepth THEN Tail(sound) ELSE sound, mic.part)
                        ELSE sound
       ELSE UNCHANGED <<mbox, sound>>
    /\ mic' = [mic EXCEPT !.at = "look", !.part = NoSound, !.read = NoSound]
    /\ UNCHANGED <<bridge, shellVars, uiVars, workerVars, micOthers>>

-----------------------------------------------------------------------------
Camera == CameraRuns \/ CameraRequest \/ CameraInvoke

SessionStep == Detach \/ Detached \/ Joined \/ StartSession \/ Attach

Serve == StartChannel \/ OpenStream \/ CloseChannel \/ Handoff

SendPackets == BeginDrain \/ DrainCamera \/ DrainTakes \/ SendPacket \/ DropPacket \/ PacketWritten

MicStep == MicLooks \/ MicReads \/ MicReadsNothing \/ MicBeginsPacket \/ MicFillsPacket

MicNext == \/ MoveForeground \/ MoveForegroundGone \/ Camera
           \/ SendPackets \/ PacketFails
           \/ Serve \/ MicInvoke \/ Connect
           \/ SessionStep \/ MicStep

\* Every thread runs.  The camera worker answers a credit with a picture or, after its
\* frame, seed and retry limits, with an error; a microphone has sound or fails in the end;
\* a session that is started is attached.  Nothing is assumed of the server, of the camera,
\* or of a user who moves the foreground.
MicSpec ==
    /\ MicInit /\ [][MicNext]_allVars
    /\ WF_allVars(MoveForeground /\ (CloseGate \/ GateClosed \/ PublishDevice))
    /\ WF_allVars(CameraInvoke) /\ WF_allVars(SendPackets)
    /\ WF_allVars(CameraRuns /\ Retarget) /\ WF_allVars(CameraRuns /\ CameraAnswers)
    /\ WF_allVars(MicInvoke) /\ WF_allVars(Connect)
    /\ WF_allVars(Detached) /\ WF_allVars(Joined) /\ WF_allVars(Attach)
    /\ WF_allVars(MicLooks) /\ SF_allVars(MicReads)
    /\ WF_allVars(MicBeginsPacket) /\ WF_allVars(MicFillsPacket)

-----------------------------------------------------------------------------
(* Properties *)

\* What goes out was recorded for the stream it goes out on: no packet that was begun for
\* an earlier stream or session of the slot is finished for the next, although the worker
\* looks at the slot, reads and hands over at three different times, and the next
\* session counts its streams from one again (audio_collect_desired_locked,
\* audio_stream_sync, audio_packet, submit_pcm).
MicIsOwn ==
    micWire # NoPacket => micWire.since = [session |-> session, gen |-> rdpeai.gen]

\* A server that has opened a stream hears it, or silence, as long as the session has the
\* foreground: also one that opened it before the session was attached
\* (native_capture_redirect_set_slot).
MicIsHeard ==
    <>[](life = "attached" /\ foreground /\ link.state = "active" /\ rdpeai.open)
        => []<>(micWire # NoPacket)
=============================================================================
