---------------------------- MODULE CameraBridge ----------------------------
(***************************************************************************)
(* The RDPECAM client of one session, as values and operators:             *)
(* webrdp-min/src/native/rdpecam/.  One synthetic camera with one stream;  *)
(* the server asks for samples one credit at a time.                       *)
(*                                                                         *)
(* Every method takes the bridge mutex once, so each is one operator; what *)
(* it makes the C shell hear is a callback that is invoked after the       *)
(* mutex is released, and what it tells the server is a message.           *)
(* CameraDevices runs the bridge against a server that opens and closes    *)
(* channels; CameraCredit runs it against the capture threads.             *)
(*                                                                         *)
(* Media types, versions and property lists are constant answers that      *)
(* change no state, so a request is its kind and whether it is well-formed *)
(* for this device.  The u64 generation cannot wrap in a session's life.   *)
(***************************************************************************)
EXTENDS Naturals

CONSTANTS
    MaxPending,     \* MAX_PENDING_SAMPLE_REQUESTS (8 in the code)
    Channels        \* dynamic channel identifiers the server may use

ASSUME MaxPendingAssumption == MaxPending \in Nat \ {0}
ASSUME ChannelsAssumption == Channels \subseteq Nat \ {0}

NoChannel == 0
NoDevice == [token |-> 0, channel |-> NoChannel]
Device == [token: Nat, channel: Channels \cup {NoChannel}]

Bridge == [available: BOOLEAN, advertised: BOOLEAN, negotiated: BOOLEAN,
           enumChannel: Channels \cup {NoChannel},
           nextToken: Nat, retired: Nat, device: Device, refs: Nat,
           lifecycle: {"deactivated", "activated", "streaming"}, gen: Nat,
           pending: 0..MaxPending, credit: BOOLEAN, armed: Nat]

EmptyBridge ==
    [available |-> FALSE, advertised |-> FALSE, negotiated |-> FALSE,
     enumChannel |-> NoChannel, nextToken |-> 0, retired |-> 0, device |-> NoDevice,
     refs |-> 0, lifecycle |-> "deactivated", gen |-> 0, pending |-> 0,
     credit |-> FALSE, armed |-> 0]

\* DeferredCameraCallback
NoCall == [kind |-> "none", gen |-> 0]
Call(kind, g) == [kind |-> kind, gen |-> g]
Callback == [kind: {"none", "start", "stop", "sample"}, gen: Nat]

Streaming(b) == b.lifecycle = "streaming"
Active(b) == b.lifecycle # "deactivated"

\* arm_next_credit_locked hands out a credit when a request waits and none is out.
CanArm(b) == Streaming(b) /\ b.pending > 0 /\ ~b.credit
ArmCredit(b) == IF CanArm(b) THEN [b EXCEPT !.credit = TRUE] ELSE b

\* stop_capture_locked: a stream that stops takes its generation with it.
StopCapture(b) ==
    [b EXCEPT !.lifecycle = IF Streaming(b) THEN "activated" ELSE @,
              !.gen = IF Streaming(b) THEN @ + 1 ELSE @,
              !.pending = 0, !.credit = FALSE, !.armed = 0]

\* Mutant: nobody is told that the stream has ended.
StopCallForgotten(b) == NoCall

StopCall(b) == IF Streaming(b) THEN Call("stop", b.gen) ELSE NoCall

RetireDevice(b) ==
    [StopCapture(b) EXCEPT !.lifecycle = "deactivated", !.refs = 0, !.device = NoDevice,
                           !.retired = b.nextToken]

ReplaceDevice(b, d) ==
    [StopCapture(b) EXCEPT !.lifecycle = "deactivated", !.refs = 0, !.device = d,
                           !.retired = IF b.device.token > @ THEN b.device.token ELSE @]

\* advertise_device_locked: processors older than this DeviceAdded are retired with it.
MayAdvertise(b) ==
    b.available /\ ~b.advertised /\ b.negotiated /\ b.enumChannel # NoChannel

\* Mutant: processors created before the announcement stay eligible.
AdvertiseKeepsOld(b) == IF MayAdvertise(b) THEN [b EXCEPT !.advertised = TRUE] ELSE b

Advertise(b) ==
    IF MayAdvertise(b) THEN [b EXCEPT !.advertised = TRUE, !.retired = b.nextToken] ELSE b

\* CameraBridge::set_available
SetAvailable(b, available) ==
    IF b.available = available THEN b
    ELSE IF available THEN Advertise([b EXCEPT !.available = TRUE])
    ELSE RetireDevice([b EXCEPT !.available = FALSE, !.advertised = FALSE])

SetAvailableCall(b, available) ==
    IF b.available /\ ~available THEN StopCall(b) ELSE NoCall

-----------------------------------------------------------------------------
(* CameraEnumerator: the channel on which the device is announced. *)

EnumeratorStart(b, c) ==
    RetireDevice([b EXCEPT !.enumChannel = c, !.negotiated = FALSE, !.advertised = FALSE])

EnumeratorVersion(b) == Advertise([b EXCEPT !.negotiated = TRUE])

EnumeratorClose(b) ==
    RetireDevice([b EXCEPT !.enumChannel = NoChannel, !.negotiated = FALSE,
                           !.advertised = FALSE])

-----------------------------------------------------------------------------
(* CameraDevice: the channel of one opening of the device. *)

AllocateToken(b) == [b EXCEPT !.nextToken = @ + 1]

\* CameraDevice::start refuses a processor of an older announcement, or older than the
\* current one; a processor seen again only moves to its channel.
MayAttach(b, token) ==
    b.available /\ b.advertised /\ token > b.retired /\ b.device.token <= token

DeviceStart(b, d) ==
    IF ~MayAttach(b, d.token) THEN b
    ELSE IF b.device.token = d.token THEN [b EXCEPT !.device = d]
    ELSE ReplaceDevice(b, d)

DeviceStartCall(b, d) ==
    IF MayAttach(b, d.token) /\ b.device.token # d.token THEN StopCall(b) ELSE NoCall

\* CameraDevice::close, of the channel that is attached.
DeviceClose(b) ==
    [StopCapture(b) EXCEPT !.lifecycle = "deactivated", !.refs = 0, !.device = NoDevice,
                           !.retired = IF b.device.token > @ THEN b.device.token ELSE @]

-----------------------------------------------------------------------------
(* CameraDevice::process_request, for a request of the attached channel. *)

Activate(b) ==
    IF b.available /\ b.advertised
    THEN [b EXCEPT !.refs = @ + 1,
                   !.lifecycle = IF @ = "deactivated" THEN "activated" ELSE @]
    ELSE b

\* The last deactivation stops the stream and answers what is pending with errors.
Deactivate(b) ==
    IF b.refs = 0 THEN b
    ELSE IF b.refs > 1 THEN [b EXCEPT !.refs = @ - 1]
    ELSE [StopCapture(b) EXCEPT !.refs = 0, !.lifecycle = "deactivated"]

DeactivateCall(b) == IF b.refs = 1 THEN StopCall(b) ELSE NoCall

MayStartStreams(b, mediaTypeMatches) == Active(b) /\ mediaTypeMatches /\ ~Streaming(b)

StartStreams(b, mediaTypeMatches) ==
    IF MayStartStreams(b, mediaTypeMatches)
    THEN [b EXCEPT !.lifecycle = "streaming", !.gen = @ + 1, !.pending = 0,
                   !.credit = FALSE, !.armed = 0]
    ELSE b

StartStreamsCall(b, mediaTypeMatches) ==
    IF MayStartStreams(b, mediaTypeMatches) THEN Call("start", b.gen + 1) ELSE NoCall

StopStreams(b) == IF Active(b) THEN StopCapture(b) ELSE b

StopStreamsCall(b) == IF Active(b) THEN StopCall(b) ELSE NoCall

\* A sample request is queued, or refused at once with a SampleError.
MayQueueSample(b, streamIsZero) == Streaming(b) /\ streamIsZero /\ b.pending < MaxPending

SampleRequest(b, streamIsZero) ==
    IF MayQueueSample(b, streamIsZero) THEN ArmCredit([b EXCEPT !.pending = @ + 1]) ELSE b

SampleRequestCall(b, streamIsZero) ==
    IF MayQueueSample(b, streamIsZero) /\ CanArm([b EXCEPT !.pending = @ + 1])
    THEN Call("sample", b.gen) ELSE NoCall

-----------------------------------------------------------------------------
(* CameraBridge::submit_h264 and submit_error: an answer consumes the credit it was
   captured for, and the next credit is armed, to be told after the answer has left. *)

MayAnswer(b, g) ==
    Streaming(b) /\ b.gen = g /\ b.pending > 0 /\ b.credit /\ b.device # NoDevice

Answer(b, g) ==
    LET spent == [b EXCEPT !.pending = @ - 1, !.credit = FALSE] IN
    [ArmCredit(spent) EXCEPT !.armed = IF CanArm(spent) THEN b.gen ELSE 0]

\* CameraBridge::notify_next_credit
NextCreditCall(b) == IF b.armed = 0 THEN NoCall ELSE Call("sample", b.armed)
NextCreditTaken(b) == [b EXCEPT !.armed = 0]
=============================================================================
