------------------------------ MODULE MediaGate ------------------------------
(***************************************************************************)
(* The capture gate of one RDP session: the threads around MediaMailbox.   *)
(*                                                                         *)
(*  - Setters are the threads of the C shell that call                     *)
(*    rdp_set_capture_active.  They serialise on the mutex `transition`;   *)
(*    a close waits on the condition variable outbound_idle until no       *)
(*    payload write is in flight.                                          *)
(*  - The camera and microphone workers of the C shell enqueue.            *)
(*  - The session's worker thread runs drain_media: it takes the batch,    *)
(*    revalidates each item, and writes it while it holds a send permit.   *)
(*                                                                         *)
(* The mailbox mutex is held for one operator of MediaMailbox at a time,   *)
(* so each of those is one step.                                           *)
(***************************************************************************)
EXTENDS MediaMailbox

CONSTANTS
    Setters,    \* threads that open and close the gate
    Nobody,     \* the value of a free transition mutex
    MaxEpoch    \* bound on the number of gate changes that are explored

ASSUME NobodyAssumption == Nobody \notin Setters
ASSUME MaxEpochAssumption == MaxEpoch \in Nat

VARIABLES
    mbox,           \* the mailbox
    transition,     \* the owner of the transition mutex
    setter,         \* what each setter is doing
    worker,         \* the step of drain_media that the worker is at
    heldCamera,     \* the camera submission of the batch in hand
    heldAudio,      \* the rest of the audio packets of the batch in hand
    wire,           \* what is being written under a permit, or Nothing
    closedThrough   \* history: the epoch at which the last close returned

vars == <<mbox, transition, setter, worker, heldCamera, heldAudio, wire, closedThrough>>
workerVars == <<worker, heldCamera, heldAudio, wire>>

Nothing == [kind |-> "none", epoch |-> 0]
Wire == [kind: {"none", "h264", "error", "audio"}, epoch: Nat]

\* Captured data; a SampleError is an answer, not a payload.
IsPayload(w) == w.kind \in {"h264", "audio"}

SetterStates == {"idle", "opening", "closing", "waiting"}
WorkerStates == {"idle", "take", "camera", "cameraWrite", "audio", "audioWrite", "dead"}

TypeOK ==
    /\ mbox \in Mailbox
    /\ transition \in Setters \cup {Nobody}
    /\ setter \in [Setters -> SetterStates]
    /\ worker \in WorkerStates
    /\ heldCamera \in Submission
    /\ heldAudio \in Seq(AudioSubmission)
    /\ wire \in Wire
    /\ closedThrough \in Nat

Init ==
    /\ mbox = EmptyMailbox
    /\ transition = Nobody
    /\ setter = [s \in Setters |-> "idle"]
    /\ worker = "idle"
    /\ heldCamera = NoSubmission
    /\ heldAudio = <<>>
    /\ wire = Nothing
    /\ closedThrough = 0

-----------------------------------------------------------------------------
(* MediaGate::set_capture_active *)

\* Mutant: the transition mutex is not taken.
OpenUnserialised(s) ==
    /\ setter[s] = "idle"
    /\ mbox.epoch < MaxEpoch
    /\ transition' = s
    /\ mbox' = SetCaptureActive(mbox, TRUE)
    /\ setter' = [setter EXCEPT ![s] = "opening"]
    /\ UNCHANGED <<workerVars, closedThrough>>

\* Lock `transition`, then the mailbox, and change the gate.
Open(s) ==
    /\ setter[s] = "idle" /\ transition = Nobody
    /\ mbox.epoch < MaxEpoch
    /\ transition' = s
    /\ mbox' = SetCaptureActive(mbox, TRUE)
    /\ setter' = [setter EXCEPT ![s] = "opening"]
    /\ UNCHANGED <<workerVars, closedThrough>>

BeginClose(s) ==
    /\ setter[s] = "idle" /\ transition = Nobody
    /\ mbox.epoch < MaxEpoch
    /\ transition' = s
    /\ mbox' = SetCaptureActive(mbox, FALSE)
    /\ setter' = [setter EXCEPT ![s] = "closing"]
    /\ UNCHANGED <<workerVars, closedThrough>>

\* An open returns at once; the mutex is released by the return.
OpenReturns(s) ==
    /\ setter[s] = "opening"
    /\ transition' = Nobody
    /\ setter' = [setter EXCEPT ![s] = "idle"]
    /\ UNCHANGED <<mbox, workerVars, closedThrough>>

\* `while outbound_payloads != 0`: sleep on outbound_idle ...
CloseWaits(s) ==
    /\ setter[s] = "closing"
    /\ mbox.outbound # 0
    /\ setter' = [setter EXCEPT ![s] = "waiting"]
    /\ UNCHANGED <<mbox, transition, workerVars, closedThrough>>

\* ... or return with the gate drained.
CloseReturns(s) ==
    /\ setter[s] = "closing"
    /\ mbox.outbound = 0
    /\ transition' = Nobody
    /\ setter' = [setter EXCEPT ![s] = "idle"]
    /\ closedThrough' = mbox.epoch
    /\ UNCHANGED <<mbox, workerVars>>

\* A condition variable may wake its waiter for no reason.
SpuriousWakeup(s) ==
    /\ setter[s] = "waiting"
    /\ setter' = [setter EXCEPT ![s] = "closing"]
    /\ UNCHANGED <<mbox, transition, workerVars, closedThrough>>

-----------------------------------------------------------------------------
(* The producers: rdp_submit_camera_h264, rdp_submit_camera_error and
   rdp_submit_audio_input_pcm, called by the capture workers. *)

SubmitCamera(g) ==
    /\ mbox' \in {EnqueueCameraH264(mbox, g), EnqueueCameraError(mbox, g)}
    /\ UNCHANGED <<transition, setter, workerVars, closedThrough>>

SubmitAudio(g) ==
    /\ mbox' = EnqueueAudio(mbox, g)
    /\ UNCHANGED <<transition, setter, workerVars, closedThrough>>

-----------------------------------------------------------------------------
(* NativeWorker::drain_media *)

\* The camera's availability decides whether its pending answer is dropped first.
BeginDrain(cameraAvailable) ==
    /\ worker = "idle"
    /\ mbox' = IF cameraAvailable THEN mbox ELSE DiscardCamera(mbox)
    /\ worker' = "take"
    /\ UNCHANGED <<transition, setter, heldCamera, heldAudio, wire, closedThrough>>

TakeBatch ==
    /\ worker = "take"
    /\ heldCamera' = mbox.camera
    /\ heldAudio' = mbox.audio
    /\ mbox' = TakePending(mbox)
    /\ worker' = IF mbox.camera.kind = "none" THEN "audio" ELSE "camera"
    /\ UNCHANGED <<transition, setter, wire, closedThrough>>

PrepareCamera ==
    /\ worker = "camera"
    /\ LET sub == CameraToSend(mbox, heldCamera) IN
         /\ wire' = [kind |-> sub.kind, epoch |-> sub.epoch]
         /\ worker' = IF sub.kind = "none" THEN "audio" ELSE "cameraWrite"
    /\ mbox' = AfterPrepareCamera(mbox, heldCamera)
    /\ heldCamera' = NoSubmission
    /\ UNCHANGED <<transition, setter, heldAudio, closedThrough>>

PrepareAudio ==
    /\ worker = "audio" /\ heldAudio # <<>>
    /\ IF AudioMaySend(mbox, Head(heldAudio))
       THEN /\ wire' = [kind |-> "audio", epoch |-> Head(heldAudio).epoch]
            /\ worker' = "audioWrite"
       ELSE UNCHANGED <<wire, worker>>
    /\ mbox' = AfterPrepareAudio(mbox, Head(heldAudio))
    /\ heldAudio' = Tail(heldAudio)
    /\ UNCHANGED <<transition, setter, heldCamera, closedThrough>>

EndDrain ==
    /\ worker = "audio" /\ heldAudio = <<>>
    /\ worker' = "idle"
    /\ UNCHANGED <<mbox, transition, setter, heldCamera, heldAudio, wire, closedThrough>>

\* Mutant: the permit's drop does not notify.
WrittenSilently(next) ==
    /\ wire' = Nothing
    /\ mbox' = ReleasePermit(mbox)
    /\ worker' \in {next, "dead"}
    /\ UNCHANGED <<transition, setter, heldCamera, heldAudio, closedThrough>>

\* The permit is dropped when the write has ended, well or badly; the drop wakes the
\* waiting closers.  A failed write ends the worker.
Written(next) ==
    LET after == ReleasePermit(mbox) IN
    /\ wire' = Nothing
    /\ mbox' = after
    /\ setter' = [s \in Setters |->
                    IF after.outbound = 0 /\ setter[s] = "waiting" THEN "closing" ELSE setter[s]]
    /\ worker' \in {next, "dead"}
    /\ UNCHANGED <<transition, heldCamera, heldAudio, closedThrough>>

CameraWritten == worker = "cameraWrite" /\ Written("audio")
AudioWritten == worker = "audioWrite" /\ Written("audio")

-----------------------------------------------------------------------------
SetterStep(s) == Open(s) \/ BeginClose(s) \/ OpenReturns(s) \/ CloseWaits(s)
                   \/ CloseReturns(s) \/ SpuriousWakeup(s)

WorkerStep == \/ \E available \in BOOLEAN : BeginDrain(available)
              \/ TakeBatch \/ PrepareCamera \/ CameraWritten
              \/ PrepareAudio \/ AudioWritten \/ EndDrain

Next == \/ \E s \in Setters : SetterStep(s)
        \/ \E g \in Generations : SubmitCamera(g) \/ SubmitAudio(g)
        \/ WorkerStep

Spec == Init /\ [][Next]_vars

\* A running thread keeps running, and every write ends: write_all has a deadline and
\* watches the stop flag.  Nothing is assumed of producers or of who opens the gate.
Fairness == /\ WF_vars(CameraWritten) /\ WF_vars(AudioWritten)
            /\ \A s \in Setters : WF_vars(OpenReturns(s)) /\ WF_vars(CloseWaits(s))
                                    /\ WF_vars(CloseReturns(s))

FairSpec == Spec /\ Fairness

-----------------------------------------------------------------------------
(* Properties *)

\* Privacy: once rdp_set_capture_active(false) has returned, nothing captured before it
\* is on the wire, now or ever, however the gate is opened again afterwards.
NoPayloadAfterClose == IsPayload(wire) => wire.epoch > closedThrough

\* What the transition mutex is for: while a close is still draining no reopen has
\* overtaken it, so the gate its caller finds on return is the one it closed.
CloseNotOvertaken == \A s \in Setters : setter[s] \in {"closing", "waiting"} => ~mbox.active

\* A waiting close is never forgotten: as long as it sleeps there is a permit whose
\* release will wake it.
NoLostWakeup == (\E s \in Setters : setter[s] = "waiting") => wire # Nothing

\* Every close returns, whatever the producers and the other setters do.
CloseTerminates == \A s \in Setters : setter[s] = "closing" ~> setter[s] = "idle"

-----------------------------------------------------------------------------
(* The gate implements CapturePrivacy. *)

gateBar == IF mbox.active THEN "open"
           ELSE IF \E s \in Setters : setter[s] \in {"closing", "waiting"} THEN "closing"
           ELSE "closed"
sendingBar == IF IsPayload(wire) THEN wire.epoch ELSE 0

Privacy == INSTANCE CapturePrivacy
             WITH gate <- gateBar, period <- mbox.epoch, sending <- sendingBar

\* The specification that CapturePrivacy states, of this gate.
ImplementsPrivacy == Privacy!PrivacySpec
=============================================================================
