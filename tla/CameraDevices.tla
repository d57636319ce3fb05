---------------------------- MODULE CameraDevices ----------------------------
(***************************************************************************)
(* CameraBridge against a server that opens, abandons and closes channels  *)
(* in any order: webrdp-min/src/native/rdpecam/ on the session's worker    *)
(* thread, which runs one handler at a time and invokes the callback of a  *)
(* handler before the next one.                                            *)
(*                                                                         *)
(* A processor object exists for each token that the channel factory has   *)
(* handed out and remembers the channel that started it; an object can     *)
(* outlive the announcement it was created for, and the server may use a   *)
(* channel number again.                                                   *)
(***************************************************************************)
EXTENDS CameraBridge

CONSTANTS
    MaxToken,   \* bound on the processors that are created
    MaxGen,     \* bound on stream starts and stops
    MaxRefs     \* bound on nested activations

ASSUME BoundsAssumption == MaxToken \in Nat /\ MaxGen \in Nat /\ MaxRefs \in Nat

VARIABLES
    bridge,     \* the CameraState
    enumerator, \* the enumerator processor's own channel_id
    procs,      \* channel_id of the device processor of each token
    slot,       \* what the callbacks have told the capture side
    answer,     \* the generation of the camera answer in the mailbox, or 0
    server      \* what the messages have told the server

vars == <<bridge, enumerator, procs, slot, answer, server>>

Tokens == 1..MaxToken

TypeOK ==
    /\ bridge \in Bridge
    /\ enumerator \in Channels \cup {NoChannel}
    /\ procs \in [Tokens -> Channels \cup {NoChannel}]
    /\ slot \in [streaming: BOOLEAN, gen: Nat, credit: 0..1]
    /\ answer \in Nat
    /\ server \in [added: BOOLEAN, addedAt: Nat, owed: 0..MaxPending]

Init ==
    /\ bridge = EmptyBridge
    /\ enumerator = NoChannel
    /\ procs = [t \in Tokens |-> NoChannel]
    /\ slot = [streaming |-> FALSE, gen |-> 0, credit |-> 0]
    /\ answer = 0
    /\ server = [added |-> FALSE, addedAt |-> 0, owed |-> 0]

\* camera_start, camera_stop and sample_request of capture_slots.c.
Heard(s, call) ==
    CASE call.kind = "start"  -> [streaming |-> TRUE, gen |-> call.gen, credit |-> 0]
      [] call.kind = "stop"   -> IF s.gen # call.gen THEN s
                                 ELSE [s EXCEPT !.streaming = FALSE, !.credit = 0]
      [] call.kind = "sample" -> IF s.streaming /\ s.gen = call.gen
                                 THEN [s EXCEPT !.credit = 1] ELSE s
      [] OTHER -> s

\* One handler: the bridge becomes b, C hears call.
Handle(b, call) == bridge' = b /\ slot' = Heard(slot, call)

\* The server learns of an announcement by DeviceAdded; what it is owed dies with the
\* channel it was asked on.
Announced(b) ==
    IF b.advertised /\ ~bridge.advertised THEN [added |-> TRUE, addedAt |-> b.nextToken, owed |-> 0]
    ELSE server
Withdrawn == [server EXCEPT !.added = FALSE, !.owed = 0]

-----------------------------------------------------------------------------
(* drain_media: the C shell's wish for the device *)

SetAvailableStep(available) ==
    /\ bridge.available # available
    /\ Handle(SetAvailable(bridge, available), SetAvailableCall(bridge, available))
    /\ server' = IF available THEN Announced(SetAvailable(bridge, TRUE)) ELSE Withdrawn
    /\ answer' = IF available THEN answer ELSE 0
    /\ UNCHANGED <<enumerator, procs>>

-----------------------------------------------------------------------------
(* The enumerator channel *)

StartEnumerator(c) ==
    /\ Handle(EnumeratorStart(bridge, c), StopCall(bridge))
    /\ enumerator' = c
    /\ server' = Withdrawn
    /\ UNCHANGED <<procs, answer>>

VersionResponse ==
    /\ enumerator # NoChannel /\ bridge.enumChannel = enumerator
    /\ Handle(EnumeratorVersion(bridge), NoCall)
    /\ server' = Announced(EnumeratorVersion(bridge))
    /\ UNCHANGED <<enumerator, procs, answer>>

CloseEnumerator ==
    /\ enumerator # NoChannel
    /\ enumerator' = NoChannel
    /\ IF bridge.enumChannel = enumerator
       THEN Handle(EnumeratorClose(bridge), StopCall(bridge)) /\ server' = Withdrawn
       ELSE UNCHANGED <<bridge, slot, server>>
    /\ UNCHANGED <<procs, answer>>

-----------------------------------------------------------------------------
(* The device channels *)

CreateProcessor ==
    /\ bridge.nextToken < MaxToken
    /\ Handle(AllocateToken(bridge), NoCall)
    /\ UNCHANGED <<enumerator, procs, answer, server>>

\* CameraDevice::start.  A channel number is used by one live processor at a time.
StartDevice(t, c) ==
    /\ t <= bridge.nextToken
    /\ \A u \in Tokens \ {t} : procs[u] # c
    /\ procs' = [procs EXCEPT ![t] = c]
    /\ LET d == [token |-> t, channel |-> c] IN
         /\ Handle(DeviceStart(bridge, d), DeviceStartCall(bridge, d))
         /\ server' = IF MayAttach(bridge, t) /\ bridge.device.token # t
                      THEN [server EXCEPT !.owed = 0] ELSE server
    /\ UNCHANGED <<enumerator, answer>>

CloseDevice(t) ==
    /\ procs[t] # NoChannel
    /\ procs' = [procs EXCEPT ![t] = NoChannel]
    /\ IF bridge.device = [token |-> t, channel |-> procs[t]]
       THEN /\ Handle(DeviceClose(bridge), StopCall(bridge))
            /\ server' = [server EXCEPT !.owed = 0]
       ELSE UNCHANGED <<bridge, slot, server>>
    /\ UNCHANGED <<enumerator, answer>>

\* process_request drops whatever comes on a channel that is not the attached one.
FromAttached(t) ==
    procs[t] # NoChannel /\ bridge.device = [token |-> t, channel |-> procs[t]]

ActivateRequest(t) ==
    /\ FromAttached(t) /\ bridge.refs < MaxRefs
    /\ Handle(Activate(bridge), NoCall)
    /\ UNCHANGED <<enumerator, procs, answer, server>>

\* Mutant: the pending requests are not answered by a stop.
ErrorsOnStopNone(stops) == 0

\* One SampleError for each pending request of a stream that the server stops.
ErrorsOnStop(stops) == IF stops THEN bridge.pending ELSE 0

DeactivateRequest(t) ==
    /\ FromAttached(t)
    /\ Handle(Deactivate(bridge), DeactivateCall(bridge))
    /\ server' = [server EXCEPT !.owed = @ - ErrorsOnStop(bridge.refs = 1)]
    /\ UNCHANGED <<enumerator, procs, answer>>

StartStreamsRequest(t, mediaTypeMatches) ==
    /\ FromAttached(t) /\ bridge.gen < MaxGen
    /\ Handle(StartStreams(bridge, mediaTypeMatches), StartStreamsCall(bridge, mediaTypeMatches))
    /\ UNCHANGED <<enumerator, procs, answer, server>>

StopStreamsRequest(t) ==
    /\ FromAttached(t)
    /\ Handle(StopStreams(bridge), StopStreamsCall(bridge))
    /\ server' = [server EXCEPT !.owed = @ - ErrorsOnStop(Active(bridge))]
    /\ UNCHANGED <<enumerator, procs, answer>>

\* A refused sample request is answered at once, so only a queued one is owed.
SampleRequestStep(t, streamIsZero) ==
    /\ FromAttached(t)
    /\ Handle(SampleRequest(bridge, streamIsZero), SampleRequestCall(bridge, streamIsZero))
    /\ server' = IF MayQueueSample(bridge, streamIsZero)
                 THEN [server EXCEPT !.owed = @ + 1] ELSE server
    /\ UNCHANGED <<enumerator, procs, answer>>

-----------------------------------------------------------------------------
(* Answers: the camera worker spends its credit on a submission, drain_media sends it
   and then tells the next credit. *)

Capture ==
    /\ slot.streaming /\ slot.credit = 1 /\ answer = 0
    /\ answer' = slot.gen
    /\ slot' = [slot EXCEPT !.credit = 0]
    /\ UNCHANGED <<bridge, enumerator, procs, server>>

SendAnswer ==
    /\ answer # 0
    /\ answer' = 0
    /\ IF MayAnswer(bridge, answer)
       THEN bridge' = Answer(bridge, answer) /\ server' = [server EXCEPT !.owed = @ - 1]
       ELSE UNCHANGED <<bridge, server>>
    /\ UNCHANGED <<enumerator, procs, slot>>

NotifyNextCredit ==
    /\ bridge.armed # 0
    /\ Handle(NextCreditTaken(bridge), NextCreditCall(bridge))
    /\ UNCHANGED <<enumerator, procs, answer, server>>

-----------------------------------------------------------------------------
Next ==
    \/ \E available \in BOOLEAN : SetAvailableStep(available)
    \/ \E c \in Channels : StartEnumerator(c)
    \/ VersionResponse \/ CloseEnumerator
    \/ CreateProcessor
    \/ \E t \in Tokens :
         \/ \E c \in Channels : StartDevice(t, c)
         \/ CloseDevice(t) \/ ActivateRequest(t) \/ DeactivateRequest(t)
         \/ StopStreamsRequest(t)
         \/ \E ok \in BOOLEAN : StartStreamsRequest(t, ok) \/ SampleRequestStep(t, ok)
    \/ Capture \/ SendAnswer \/ NotifyNextCredit

Spec == Init /\ [][Next]_vars

-----------------------------------------------------------------------------
(* Properties *)

\* The attached processor is one the server created after the announcement it answers,
\* and it is still listening on the channel it was attached with.
DeviceIsCurrent ==
    bridge.device # NoDevice =>
        LET t == bridge.device.token IN
        /\ bridge.available /\ bridge.advertised
        /\ t > bridge.retired /\ t > server.addedAt
        /\ procs[t] = bridge.device.channel

\* Every sample request that was accepted is answered once: what the server still waits
\* for is what the bridge still counts as pending.
NothingOwedForgotten == server.owed = bridge.pending

\* The capture side streams exactly while the bridge does, for the same generation.
CaptureFollowsStream ==
    /\ slot.streaming = Streaming(bridge)
    /\ slot.streaming => slot.gen = bridge.gen

=============================================================================
