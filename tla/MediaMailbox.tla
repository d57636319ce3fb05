---------------------------- MODULE MediaMailbox ----------------------------
(***************************************************************************)
(* The bounded camera/microphone mailbox of one RDP session, as values and *)
(* operators: webrdp-min/src/native/media_mailbox.rs.  Each operator is    *)
(* what one method does while it holds the mailbox mutex; MediaGate and    *)
(* CameraCredit put the threads around them.                               *)
(*                                                                         *)
(* A payload is known by the stream generation it was captured for and by  *)
(* the capture epoch that was current when it was enqueued: its bytes      *)
(* matter to no method.  capture_epoch is a u64 that no session can wrap,  *)
(* so it is a natural number here.                                         *)
(***************************************************************************)
EXTENDS Naturals, Sequences

CONSTANTS
    QueueDepth,     \* AUDIO_INPUT_QUEUE_DEPTH (8 in the code)
    Generations     \* the stream generations that submissions may carry

ASSUME QueueDepthAssumption == QueueDepth \in Nat \ {0}
ASSUME GenerationsAssumption == Generations \subseteq Nat

(***************************************************************************)
(* CameraSubmission.  A DeferredError carries no epoch (epoch 0 here).     *)
(***************************************************************************)
NoSubmission == [kind |-> "none", gen |-> 0, epoch |-> 0]
H264(g, e) == [kind |-> "h264", gen |-> g, epoch |-> e]
Error(g, e) == [kind |-> "error", gen |-> g, epoch |-> e]
DeferredError(g) == [kind |-> "deferred", gen |-> g, epoch |-> 0]

Submission == [kind: {"none", "h264", "error", "deferred"}, gen: Nat, epoch: Nat]
AudioSubmission == [gen: Nat, epoch: Nat]

Mailbox == [active: BOOLEAN, epoch: Nat, camera: Submission,
            audio: Seq(AudioSubmission), outbound: Nat]

EmptyMailbox ==
    [active |-> FALSE, epoch |-> 0, camera |-> NoSubmission, audio |-> <<>>, outbound |-> 0]

EpochIsActive(m, e) == m.active /\ m.epoch = e

\* MediaMailbox::set_capture_active.  Both directions start a new epoch and drop the
\* queued audio; closing keeps the camera's answer owed to the server as a DeferredError.
SetCaptureActive(m, active) ==
    IF m.active = active THEN m
    ELSE [active |-> active,
          epoch |-> m.epoch + 1,
          audio |-> <<>>,
          camera |-> IF ~active /\ m.camera.kind # "none" THEN DeferredError(m.camera.gen)
                                                          ELSE m.camera,
          outbound |-> m.outbound]

\* The camera slot takes one submission, and only while capture is open.
CanEnqueueCamera(m) == m.active /\ m.camera.kind = "none"

EnqueueCameraH264(m, g) ==
    IF CanEnqueueCamera(m) THEN [m EXCEPT !.camera = H264(g, m.epoch)] ELSE m

EnqueueCameraError(m, g) ==
    IF CanEnqueueCamera(m) THEN [m EXCEPT !.camera = Error(g, m.epoch)] ELSE m

\* try_enqueue_audio_pcm: a full queue drops its oldest packet.
EnqueueAudio(m, g) ==
    IF m.active
    THEN [m EXCEPT !.audio = Append(IF Len(@) = QueueDepth THEN Tail(@) ELSE @,
                                    [gen |-> g, epoch |-> m.epoch])]
    ELSE m

\* take_pending empties the mailbox; the batch is m.camera and m.audio.
TakePending(m) == [m EXCEPT !.camera = NoSubmission, !.audio = <<>>]

DiscardCamera(m) == [m EXCEPT !.camera = NoSubmission]

\* prepare_camera_send: a submission of the open epoch goes out as it is; any other
\* owes the server an error, sent under the open epoch or parked until the gate opens.
StillCurrent(m, sub) == sub.kind \in {"h264", "error"} /\ EpochIsActive(m, sub.epoch)

\* Mutant: the epoch of an access unit is not compared.
CameraToSendAnyEpoch(m, sub) ==
    IF m.active /\ sub.kind = "h264" THEN sub
    ELSE IF m.active THEN Error(sub.gen, m.epoch)
    ELSE NoSubmission

CameraToSend(m, sub) ==
    IF StillCurrent(m, sub) THEN sub
    ELSE IF m.active THEN Error(sub.gen, m.epoch)
    ELSE NoSubmission

AfterPrepareCamera(m, sub) ==
    IF m.active THEN [m EXCEPT !.outbound = @ + 1]
    ELSE IF m.camera.kind = "none" THEN [m EXCEPT !.camera = DeferredError(sub.gen)]
    ELSE m

\* prepare_audio_send: a packet of another epoch is dropped.
\* Mutant: any open gate will do.
AudioMaySendAnyEpoch(m, sub) == m.active

AudioMaySend(m, sub) == EpochIsActive(m, sub.epoch)

\* Mutant: the permit of a dropped packet is leaked.
AfterPrepareAudioLeaks(m, sub) == [m EXCEPT !.outbound = @ + 1]

AfterPrepareAudio(m, sub) ==
    IF AudioMaySend(m, sub) THEN [m EXCEPT !.outbound = @ + 1] ELSE m

\* Drop for CaptureSendPermit (the counter saturates at zero).
ReleasePermit(m) == [m EXCEPT !.outbound = IF @ = 0 THEN 0 ELSE @ - 1]

=============================================================================
