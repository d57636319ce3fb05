---------------------------- MODULE CameraCredit ----------------------------
(***************************************************************************)
(* The way of a camera credit through one session: the RDPECAM bridge, the *)
(* media mailbox and the capture slot of the C shell, with the threads     *)
(* that share them.                                                        *)
(*                                                                         *)
(*  - The session's worker handles the server's requests, runs drain_media *)
(*    and invokes the callbacks of both; a callback takes impl->lock.      *)
(*  - The camera worker of the C shell submits access units and errors     *)
(*    under impl->lock (capture_camera_worker.c).                          *)
(*  - The SDL thread moves the foreground away and back; it closes the     *)
(*    gate under impl->lock and waits there for the payload write that     *)
(*    holds a permit (capture_slots.c).                                    *)
(*                                                                         *)
(* The other slots are seen only as they take the foreground away.         *)
(* The waiting close is one step here: MediaGate shows that it            *)
(* wakes.                                                                  *)
(***************************************************************************)
EXTENDS CameraBridge, MediaMailbox

CONSTANTS
    MaxEpoch,   \* bound on gate changes
    MaxGen,     \* bound on streams
    MaxToken    \* bound on openings of the device

ASSUME CreditBounds == MaxEpoch \in Nat /\ MaxGen \in Nat /\ MaxToken \in Nat

\* Which channel the server opens tells nothing apart here: it is always this one.
ASSUME ServerChannelAssumption == 1 \in Channels

VARIABLES
    bridge,     \* the CameraState of the session
    mbox,       \* its media mailbox
    desired,    \* desired_camera_available, stored by the C shell
    slot,       \* camera_streaming, camera_generation and camera_credit
    foreground, \* impl->foreground_slot is this slot
    physical,   \* impl->camera_physical_available
    owner,      \* impl->camera_owner_epoch
    lock,       \* whether the SDL thread is inside set_foreground_slot
    ui,         \* where it is there
    target,     \* the stream and owner epoch that the camera worker captures for
    worker,     \* where the session's worker is
    call,       \* the callback it is about to invoke
    held        \* the camera submission of the batch in its hand

shellVars == <<slot, foreground, physical, owner, desired, target>>
uiVars == <<lock, ui>>
workerVars == <<worker, call, held>>
vars == <<bridge, mbox, shellVars, uiVars, workerVars>>

TypeOK ==
    /\ bridge \in Bridge /\ mbox \in Mailbox
    /\ slot \in [streaming: BOOLEAN, gen: Nat, credit: 0..1]
    /\ {desired, foreground, physical, lock} \subseteq BOOLEAN
    /\ owner \in Nat
    /\ ui \in {"idle", "close", "closing", "publish"}
    /\ target \in [gen: Nat, owner: Nat]
    /\ worker \in {"idle", "discard", "take", "prepare", "write", "notify"}
    /\ call \in Callback
    /\ held \in Submission

\* The enumerator has negotiated; the session is attached and may use the camera.
Init ==
    /\ bridge = [EmptyBridge EXCEPT !.negotiated = TRUE, !.enumChannel = 1]
    /\ mbox = EmptyMailbox
    /\ slot = [streaming |-> FALSE, gen |-> 0, credit |-> 0]
    /\ desired = FALSE /\ foreground = FALSE /\ physical = FALSE /\ lock = FALSE
    /\ owner = 0
    /\ ui = "idle" /\ worker = "idle"
    /\ target = [gen |-> 0, owner |-> 0]
    /\ call = NoCall
    /\ held = NoSubmission

-----------------------------------------------------------------------------
(* capture_camera_fail_credit_locked: spend the credit on a SampleError; a credit that
   the mailbox refuses stays. *)
HasCredit(g) == slot.streaming /\ slot.gen = g /\ slot.credit = 1

\* Mutant: the credit is spent whether or not the mailbox took the answer.
FailCreditRegardless(g) ==
    IF HasCredit(g)
    THEN mbox' = EnqueueCameraError(mbox, g) /\ slot' = [slot EXCEPT !.credit = 0]
    ELSE UNCHANGED <<mbox, slot>>

FailCredit(g) ==
    IF HasCredit(g) /\ CanEnqueueCamera(mbox)
    THEN mbox' = EnqueueCameraError(mbox, g) /\ slot' = [slot EXCEPT !.credit = 0]
    ELSE UNCHANGED <<mbox, slot>>

\* capture_update_camera_availability_locked
PublishAvailability(isForeground, isPhysical) == desired' = (isForeground /\ isPhysical)

-----------------------------------------------------------------------------
(* The SDL thread: native_capture_redirect_set_foreground_slot *)

\* The slot loses the foreground: first its credit is answered with an error ...
LeaveForeground ==
    /\ ui = "idle" /\ ~lock /\ foreground
    /\ lock' = TRUE /\ ui' = "close"
    /\ FailCredit(slot.gen)
    /\ UNCHANGED <<bridge, foreground, physical, owner, desired, target, workerVars>>

\* ... then its gate is closed, which waits for the write that holds a permit ...
CloseGate ==
    /\ ui = "close"
    /\ mbox' = SetCaptureActive(mbox, FALSE)
    /\ ui' = "closing"
    /\ UNCHANGED <<bridge, shellVars, lock, workerVars>>

\* ... then the owner changes and the device is withdrawn.
GateClosed ==
    /\ ui = "closing" /\ mbox.outbound = 0
    /\ foreground' = FALSE
    /\ owner' = owner + 1
    /\ PublishAvailability(FALSE, physical)
    /\ lock' = FALSE /\ ui' = "idle"
    /\ UNCHANGED <<bridge, mbox, slot, physical, target, workerVars>>

\* The slot gains the foreground: the gate opens before the device is announced.
EnterForeground ==
    /\ ui = "idle" /\ ~lock /\ ~foreground /\ mbox.epoch < MaxEpoch
    /\ lock' = TRUE /\ ui' = "publish"
    /\ mbox' = SetCaptureActive(mbox, TRUE)
    /\ foreground' = TRUE
    /\ owner' = owner + 1
    /\ UNCHANGED <<bridge, slot, physical, desired, target, workerVars>>

PublishDevice ==
    /\ ui = "publish"
    /\ PublishAvailability(foreground, physical)
    /\ lock' = FALSE /\ ui' = "idle"
    /\ UNCHANGED <<bridge, mbox, slot, foreground, physical, owner, target, workerVars>>

-----------------------------------------------------------------------------
(* The camera worker: capture_camera_worker_main *)

\* camera_stream_requested_locked
StreamRequested == foreground /\ slot.streaming

CurrentTarget == [gen |-> IF StreamRequested THEN slot.gen ELSE 0, owner |-> owner]

\* The top of the loop: a target that changed answers its credit and closes the device.
Retarget ==
    /\ ~lock
    /\ target # CurrentTarget
    /\ target' = CurrentTarget
    /\ IF target.gen # 0 THEN FailCredit(target.gen) ELSE UNCHANGED <<mbox, slot>>
    /\ UNCHANGED <<bridge, foreground, physical, owner, desired, uiVars, workerVars>>

\* camera_submit_queued; a refused access unit falls back on an error, refused alike.
SubmitQueued ==
    /\ ~lock /\ target.gen # 0
    /\ target = CurrentTarget /\ HasCredit(target.gen)
    /\ CanEnqueueCamera(mbox)
    /\ mbox' = EnqueueCameraH264(mbox, target.gen)
    /\ slot' = [slot EXCEPT !.credit = 0]
    /\ UNCHANGED <<bridge, foreground, physical, owner, desired, target, uiVars, workerVars>>

\* No frames, a broken device or access units that cannot be sent: camera_fail_credit.
GiveUpFrame ==
    /\ ~lock /\ target.gen # 0
    /\ HasCredit(target.gen)
    /\ FailCredit(target.gen)
    /\ UNCHANGED <<bridge, foreground, physical, owner, desired, target, uiVars, workerVars>>

\* Mutant: a device that comes or goes is not published.
DevicePresenceUnpublished(present) ==
    /\ ~lock /\ physical # present
    /\ physical' = present
    /\ UNCHANGED <<bridge, mbox, slot, foreground, owner, desired, target, uiVars, workerVars>>

\* capture_camera_set_physical_available
DevicePresence(present) ==
    /\ ~lock /\ physical # present
    /\ physical' = present
    /\ PublishAvailability(foreground, present)
    /\ UNCHANGED <<bridge, mbox, slot, foreground, owner, target, uiVars, workerVars>>

-----------------------------------------------------------------------------
(* The session's worker: requests of the server *)

\* A handler changes the bridge and leaves its callback to be invoked.
Handler(b, c) == bridge' = b /\ call' = c

RequestsArrive == worker = "idle" /\ call = NoCall

\* The server opens the announced device afresh: create, start and ActivateDeviceRequest.
OpenDevice ==
    /\ RequestsArrive
    /\ bridge.advertised /\ bridge.device = NoDevice /\ bridge.nextToken < MaxToken
    /\ LET b == AllocateToken(bridge)
           d == [token |-> b.nextToken, channel |-> 1]
       IN  Handler(Activate(DeviceStart(b, d)), DeviceStartCall(b, d))
    /\ UNCHANGED <<mbox, shellVars, uiVars, worker, held>>

Attached == bridge.device # NoDevice

StartStreamsRequest ==
    /\ RequestsArrive /\ Attached /\ bridge.gen < MaxGen
    /\ Handler(StartStreams(bridge, TRUE), StartStreamsCall(bridge, TRUE))
    /\ UNCHANGED <<mbox, shellVars, uiVars, worker, held>>

StopStreamsRequest ==
    /\ RequestsArrive /\ Attached
    /\ Handler(StopStreams(bridge), StopStreamsCall(bridge))
    /\ UNCHANGED <<mbox, shellVars, uiVars, worker, held>>

SampleRequestStep ==
    /\ RequestsArrive /\ Attached
    /\ Handler(SampleRequest(bridge, TRUE), SampleRequestCall(bridge, TRUE))
    /\ UNCHANGED <<mbox, shellVars, uiVars, worker, held>>

\* The callback of the handler, under impl->lock: camera_start, camera_stop or
\* camera_sample_request of capture_slots.c.
InvokeStart ==
    /\ call.kind = "start" /\ ~lock
    /\ IF HasCredit(slot.gen) /\ CanEnqueueCamera(mbox)
       THEN mbox' = EnqueueCameraError(mbox, slot.gen) ELSE UNCHANGED mbox
    /\ slot' = [streaming |-> TRUE, gen |-> call.gen, credit |-> 0]
    /\ call' = NoCall
    /\ UNCHANGED <<bridge, foreground, physical, owner, desired, target, uiVars, worker, held>>

InvokeStop ==
    /\ call.kind = "stop" /\ ~lock
    /\ slot' = IF slot.gen = call.gen THEN [slot EXCEPT !.streaming = FALSE, !.credit = 0]
                                      ELSE slot
    /\ call' = NoCall
    /\ UNCHANGED <<bridge, mbox, foreground, physical, owner, desired, target, uiVars,
                   worker, held>>

InvokeSampleRequest ==
    /\ call.kind = "sample" /\ ~lock
    /\ slot' = IF slot.streaming /\ slot.gen = call.gen THEN [slot EXCEPT !.credit = 1]
                                                        ELSE slot
    /\ call' = NoCall
    /\ UNCHANGED <<bridge, mbox, foreground, physical, owner, desired, target, uiVars,
                   worker, held>>

-----------------------------------------------------------------------------
(* The session's worker: drain_media *)

Reconcile ==
    /\ worker = "idle" /\ call = NoCall
    /\ Handler(SetAvailable(bridge, desired), SetAvailableCall(bridge, desired))
    /\ worker' = "discard"
    /\ UNCHANGED <<mbox, shellVars, uiVars, held>>

Discard ==
    /\ worker = "discard" /\ call = NoCall
    /\ mbox' = IF bridge.available THEN mbox ELSE DiscardCamera(mbox)
    /\ worker' = "take"
    /\ UNCHANGED <<bridge, shellVars, uiVars, call, held>>

Take ==
    /\ worker = "take"
    /\ held' = mbox.camera
    /\ mbox' = TakePending(mbox)
    /\ worker' = IF mbox.camera.kind = "none" THEN "notify" ELSE "prepare"
    /\ UNCHANGED <<bridge, shellVars, uiVars, call>>

\* prepare_camera_send, and submit_h264 or submit_error under its permit.
Prepare ==
    /\ worker = "prepare"
    /\ LET sub == CameraToSend(mbox, held) IN
         /\ mbox' = AfterPrepareCamera(mbox, held)
         /\ bridge' = IF sub.kind # "none" /\ MayAnswer(bridge, sub.gen)
                      THEN Answer(bridge, sub.gen) ELSE bridge
         /\ worker' = IF sub.kind = "none" THEN "notify" ELSE "write"
    /\ held' = NoSubmission
    /\ UNCHANGED <<shellVars, uiVars, call>>

\* Mutant: the next credit is told while the permit is still held.
WrittenAfterNotify ==
    /\ worker = "write"
    /\ call = NoCall
    /\ IF bridge.armed # 0
       THEN Handler(NextCreditTaken(bridge), NextCreditCall(bridge)) /\ UNCHANGED <<mbox, worker>>
       ELSE mbox' = ReleasePermit(mbox) /\ worker' = "notify" /\ UNCHANGED <<bridge, call>>
    /\ UNCHANGED <<shellVars, uiVars, held>>

\* The write is over and the permit is dropped.
Written ==
    /\ worker = "write"
    /\ mbox' = ReleasePermit(mbox)
    /\ worker' = "notify"
    /\ UNCHANGED <<bridge, shellVars, uiVars, call, held>>

\* Mutant: a credit that cannot be told now is forgotten.
NotifyForgets ==
    /\ worker = "notify"
    /\ bridge' = NextCreditTaken(bridge)
    /\ call' = IF mbox.active THEN NextCreditCall(bridge) ELSE call
    /\ worker' = "idle"
    /\ UNCHANGED <<mbox, shellVars, uiVars, held>>

\* The next credit is told only while capture is open.
Notify ==
    /\ worker = "notify"
    /\ IF mbox.active THEN Handler(NextCreditTaken(bridge), NextCreditCall(bridge))
                      ELSE UNCHANGED <<bridge, call>>
    /\ worker' = "idle"
    /\ UNCHANGED <<mbox, shellVars, uiVars, held>>

-----------------------------------------------------------------------------
UiStep == LeaveForeground \/ CloseGate \/ GateClosed \/ EnterForeground \/ PublishDevice

Invoke == InvokeStart \/ InvokeStop \/ InvokeSampleRequest

DrainMedia == Reconcile \/ Discard \/ Take \/ Prepare \/ Written \/ Notify

ServerStep == OpenDevice \/ StartStreamsRequest \/ StopStreamsRequest \/ SampleRequestStep

CameraAnswers == SubmitQueued \/ GiveUpFrame

CameraStep == Retarget \/ CameraAnswers \/ \E present \in BOOLEAN : DevicePresence(present)

Next == UiStep \/ Invoke \/ DrainMedia \/ ServerStep \/ CameraStep

Spec == Init /\ [][Next]_vars

-----------------------------------------------------------------------------
(* Properties *)

\* A credit that the bridge has handed out is in exactly one place, whatever the
\* foreground, the device and the mailbox have done meanwhile.
CreditPlaces(g) ==
    {p \in {"armed", "callback", "slot", "mailbox", "batch"} :
        \/ p = "armed" /\ bridge.armed = g
        \/ p = "callback" /\ call = Call("sample", g)
        \/ p = "slot" /\ HasCredit(g)
        \/ p = "mailbox" /\ mbox.camera.kind # "none" /\ mbox.camera.gen = g
        \/ p = "batch" /\ held.kind # "none" /\ held.gen = g}
CreditInOnePlace ==
    Streaming(bridge) =>
        IF bridge.credit THEN \E p \in CreditPlaces(bridge.gen) : CreditPlaces(bridge.gen) = {p}
        ELSE CreditPlaces(bridge.gen) = {}

\* impl->lock and the send permit are taken in both orders by nobody: moving the
\* foreground away always completes.
LeaveCompletes == (ui = "close") ~> (ui = "idle")

\* A camera that stays in the foreground keeps answering its server.
AnswersKeepComing ==
    <>[](foreground /\ physical) => []<>(~Streaming(bridge) \/ bridge.pending < MaxPending)

\* The announced device ends up where the user and the hardware have put it.
AvailabilityConverges ==
    /\ <>[](foreground /\ physical) => <>[]bridge.available
    /\ <>[]~(foreground /\ physical) => <>[]~bridge.available
=============================================================================
