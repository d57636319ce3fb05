-------------------------- MODULE MediaGateProofs --------------------------
(***************************************************************************)
(* Proofs about MediaGate, for every number of setters, every queue depth  *)
(* and every set of generations.                                           *)
(***************************************************************************)
EXTENDS MediaGate, TLAPS

-----------------------------------------------------------------------------
(* What the operators of the mailbox return. *)

\* Every operation of the mailbox gives a mailbox.
LEMMA MailboxClosed ==
    ASSUME NEW m \in Mailbox
    PROVE  /\ \A a \in BOOLEAN : SetCaptureActive(m, a) \in Mailbox
           /\ \A g \in Nat : /\ EnqueueCameraH264(m, g) \in Mailbox
                             /\ EnqueueCameraError(m, g) \in Mailbox
                             /\ EnqueueAudio(m, g) \in Mailbox
           /\ TakePending(m) \in Mailbox
           /\ DiscardCamera(m) \in Mailbox
           /\ \A sub \in Submission : /\ CameraToSend(m, sub) \in Submission
                                      /\ AfterPrepareCamera(m, sub) \in Mailbox
           /\ \A pcm : AfterPrepareAudio(m, pcm) \in Mailbox
           /\ ReleasePermit(m) \in Mailbox
<1>0. <<>> \in Seq(AudioSubmission)
  OBVIOUS
<1>1. ASSUME NEW a \in BOOLEAN PROVE SetCaptureActive(m, a) \in Mailbox
  <2>1. DeferredError(m.camera.gen) \in Submission /\ m.camera \in Submission
    BY DEF Mailbox, Submission, DeferredError
  <2> QED BY <1>0, <2>1 DEF SetCaptureActive, Mailbox
<1>2. ASSUME NEW g \in Nat
      PROVE  EnqueueCameraH264(m, g) \in Mailbox /\ EnqueueCameraError(m, g) \in Mailbox
  BY DEF EnqueueCameraH264, EnqueueCameraError, CanEnqueueCamera, H264, Error, Mailbox, Submission
<1>3. ASSUME NEW g \in Nat PROVE EnqueueAudio(m, g) \in Mailbox
  <2> DEFINE pcm == [gen |-> g, epoch |-> m.epoch]
  <2>1. m.audio \in Seq(AudioSubmission) /\ pcm \in AudioSubmission
    BY DEF Mailbox, AudioSubmission
  <2>2. CASE Len(m.audio) = QueueDepth
    <3>1. m.audio # <<>>
      BY <2>1, <2>2, QueueDepthAssumption
    <3>2. Append(Tail(m.audio), pcm) \in Seq(AudioSubmission)
      BY <2>1, <3>1
    <3> QED BY <2>2, <3>2 DEF EnqueueAudio, Mailbox
  <2>3. CASE Len(m.audio) # QueueDepth
    <3>1. Append(m.audio, pcm) \in Seq(AudioSubmission)
      BY <2>1
    <3> QED BY <2>3, <3>1 DEF EnqueueAudio, Mailbox
  <2> QED BY <2>2, <2>3
<1>4. TakePending(m) \in Mailbox /\ DiscardCamera(m) \in Mailbox
  BY <1>0 DEF TakePending, DiscardCamera, NoSubmission, Mailbox, Submission
<1>5. ASSUME NEW sub \in Submission
      PROVE  CameraToSend(m, sub) \in Submission /\ AfterPrepareCamera(m, sub) \in Mailbox
  BY DEF CameraToSend, AfterPrepareCamera, StillCurrent, NoSubmission, DeferredError, Error,
         Mailbox, Submission
<1>6. ASSUME NEW pcm PROVE AfterPrepareAudio(m, pcm) \in Mailbox
  BY DEF AfterPrepareAudio, Mailbox
<1>7. ReleasePermit(m) \in Mailbox
  BY DEF ReleasePermit, Mailbox
<1> QED BY <1>1, <1>2, <1>3, <1>4, <1>5, <1>6, <1>7

\* Only a change of the gate touches its state and epoch, and only a permit the count.
LEMMA MailboxFrame ==
    ASSUME NEW m \in Mailbox
    PROVE  /\ \A g : \A n \in {EnqueueCameraH264(m, g), EnqueueCameraError(m, g),
                               EnqueueAudio(m, g), TakePending(m), DiscardCamera(m)} :
                 n.active = m.active /\ n.epoch = m.epoch /\ n.outbound = m.outbound
           /\ \A sub : \A n \in {AfterPrepareCamera(m, sub), AfterPrepareAudio(m, sub),
                                 ReleasePermit(m)} :
                 n.active = m.active /\ n.epoch = m.epoch
           /\ \A a \in BOOLEAN :
                /\ SetCaptureActive(m, a).active = a
                /\ SetCaptureActive(m, a).outbound = m.outbound
                /\ SetCaptureActive(m, a).epoch = IF m.active = a THEN m.epoch ELSE m.epoch + 1
<1>1. ASSUME NEW g
      PROVE  \A n \in {EnqueueCameraH264(m, g), EnqueueCameraError(m, g), EnqueueAudio(m, g),
                       TakePending(m), DiscardCamera(m)} :
                n.active = m.active /\ n.epoch = m.epoch /\ n.outbound = m.outbound
  BY DEF EnqueueCameraH264, EnqueueCameraError, CanEnqueueCamera, EnqueueAudio, TakePending,
         DiscardCamera, Mailbox
<1>2. ASSUME NEW sub
      PROVE  \A n \in {AfterPrepareCamera(m, sub), AfterPrepareAudio(m, sub), ReleasePermit(m)} :
                n.active = m.active /\ n.epoch = m.epoch
  BY DEF AfterPrepareCamera, AfterPrepareAudio, ReleasePermit, Mailbox
<1>3. ASSUME NEW a \in BOOLEAN
      PROVE  /\ SetCaptureActive(m, a).active = a
             /\ SetCaptureActive(m, a).outbound = m.outbound
             /\ SetCaptureActive(m, a).epoch = IF m.active = a THEN m.epoch ELSE m.epoch + 1
  BY DEF SetCaptureActive, Mailbox
<1> QED BY <1>1, <1>2, <1>3

-----------------------------------------------------------------------------
(* The inductive invariant. *)

\* One worker holds every permit, so the count says whether something is being written.
PermitForWire ==
    /\ wire.kind = "none" => wire = Nothing /\ mbox.outbound = 0
    /\ wire.kind # "none" => mbox.outbound = 1
    /\ wire.kind # "none" <=> worker \in {"cameraWrite", "audioWrite"}

\* A setter that is inside set_capture_active owns the transition mutex, and while it
\* drains the gate is closed.
TransitionOwned ==
    \A s \in Setters : /\ setter[s] # "idle" => transition = s
                       /\ setter[s] \in {"closing", "waiting"} => ~mbox.active

\* The last completed close is behind the current epoch, strictly so once the gate reopened.
CloseBehind == /\ closedThrough <= mbox.epoch
               /\ mbox.active => closedThrough < mbox.epoch

\* A payload on the wire belongs to an epoch after the last completed close.
PayloadBounded == IsPayload(wire) => wire.epoch > closedThrough /\ wire.epoch <= mbox.epoch

IInv == TypeOK /\ PermitForWire /\ TransitionOwned /\ CloseBehind /\ PayloadBounded /\ NoLostWakeup

\* It holds at the start: nobody is inside a call and nothing is on the wire.
LEMMA InitIInv == Init => IInv
<1> SUFFICES ASSUME Init PROVE IInv
  OBVIOUS
<1>1. <<>> \in Seq(AudioSubmission)
  OBVIOUS
<1>2. TypeOK
  BY <1>1 DEF Init, TypeOK, EmptyMailbox, NoSubmission, Nothing, Mailbox, Submission, Wire,
              SetterStates, WorkerStates
<1>3. PermitForWire /\ TransitionOwned /\ CloseBehind /\ PayloadBounded /\ NoLostWakeup
  BY DEF Init, EmptyMailbox, Nothing, PermitForWire, TransitionOwned, CloseBehind, PayloadBounded,
         NoLostWakeup, IsPayload
<1> QED BY <1>2, <1>3 DEF IInv

\* Each action preserves the typing of the variables.
LEMMA TypeStep == TypeOK /\ [Next]_vars => TypeOK'
<1> SUFFICES ASSUME TypeOK, [Next]_vars PROVE TypeOK'
  OBVIOUS
<1> USE DEF TypeOK
<1>1. ASSUME NEW s \in Setters, Open(s) \/ BeginClose(s) PROVE TypeOK'
  <2>1. \A a \in BOOLEAN : SetCaptureActive(mbox, a) \in Mailbox
    BY MailboxClosed
  <2>2. SetCaptureActive(mbox, TRUE) \in Mailbox /\ SetCaptureActive(mbox, FALSE) \in Mailbox
    BY <2>1
  <2>3. mbox' = SetCaptureActive(mbox, TRUE) \/ mbox' = SetCaptureActive(mbox, FALSE)
    BY <1>1 DEF Open, BeginClose
  <2> QED BY <1>1, <2>2, <2>3 DEF Open, BeginClose, SetterStates, workerVars
<1>2. ASSUME NEW s \in Setters, OpenReturns(s) \/ CloseWaits(s) \/ SpuriousWakeup(s) PROVE TypeOK'
  BY <1>2 DEF OpenReturns, CloseWaits, SpuriousWakeup, SetterStates, workerVars
<1>3. ASSUME NEW s \in Setters, CloseReturns(s) PROVE TypeOK'
  BY <1>3 DEF CloseReturns, SetterStates, workerVars, Mailbox
<1>4. ASSUME NEW g \in Generations, SubmitCamera(g) \/ SubmitAudio(g) PROVE TypeOK'
  <2>1. g \in Nat
    BY GenerationsAssumption
  <2>2. {EnqueueCameraH264(mbox, g), EnqueueCameraError(mbox, g), EnqueueAudio(mbox, g)} \subseteq Mailbox
    BY <2>1, MailboxClosed
  <2> QED BY <1>4, <2>2 DEF SubmitCamera, SubmitAudio, workerVars
<1>5. ASSUME NEW available \in BOOLEAN, BeginDrain(available) PROVE TypeOK'
  <2>1. mbox' \in Mailbox
    BY <1>5, MailboxClosed DEF BeginDrain, Submission, AudioSubmission
  <2> QED BY <1>5, <2>1 DEF BeginDrain, WorkerStates
<1>6. ASSUME TakeBatch PROVE TypeOK'
  <2>1. mbox' \in Mailbox /\ mbox.camera \in Submission /\ mbox.audio \in Seq(AudioSubmission)
    BY <1>6, MailboxClosed DEF TakeBatch, Mailbox, Submission, AudioSubmission
  <2> QED BY <1>6, <2>1 DEF TakeBatch, WorkerStates
<1>7. ASSUME PrepareCamera PROVE TypeOK'
  <2>1. mbox' \in Mailbox /\ CameraToSend(mbox, heldCamera) \in Submission
    BY <1>7, MailboxClosed DEF PrepareCamera, AudioSubmission
  <2>2. CameraToSend(mbox, heldCamera).kind # "deferred"
    BY DEF CameraToSend, StillCurrent, Error, NoSubmission
  <2>3. wire' \in Wire
    BY <1>7, <2>1, <2>2 DEF PrepareCamera, Wire, Submission
  <2>4. NoSubmission \in Submission
    BY DEF NoSubmission, Submission
  <2> QED BY <1>7, <2>1, <2>3, <2>4 DEF PrepareCamera, WorkerStates
<1>8. ASSUME PrepareAudio PROVE TypeOK'
  <2>1. Head(heldAudio) \in AudioSubmission /\ Tail(heldAudio) \in Seq(AudioSubmission)
    BY <1>8 DEF PrepareAudio
  <2>2. mbox' \in Mailbox
    BY <1>8, <2>1, MailboxClosed DEF PrepareAudio, Submission
  <2>3. wire' \in Wire
    BY <1>8, <2>1 DEF PrepareAudio, Wire, AudioSubmission
  <2> QED BY <1>8, <2>1, <2>2, <2>3 DEF PrepareAudio, WorkerStates
<1>9. ASSUME CameraWritten \/ AudioWritten PROVE TypeOK'
  <2>1. mbox' \in Mailbox
    BY <1>9, MailboxClosed DEF CameraWritten, AudioWritten, Written, Submission, AudioSubmission
  <2> QED BY <1>9, <2>1 DEF CameraWritten, AudioWritten, Written, WorkerStates, SetterStates,
                             Wire, Nothing
<1>10. ASSUME EndDrain PROVE TypeOK'
  BY <1>10 DEF EndDrain, WorkerStates
<1>11. ASSUME UNCHANGED vars PROVE TypeOK'
  BY <1>11 DEF vars, workerVars
<1> QED BY <1>1, <1>2, <1>3, <1>4, <1>5, <1>6, <1>7, <1>8, <1>9, <1>10, <1>11
        DEF Next, SetterStep, WorkerStep

\* Each action preserves the inductive invariant.
LEMMA IInvStep == IInv /\ [Next]_vars => IInv'
<1> SUFFICES ASSUME IInv, [Next]_vars PROVE IInv'
  OBVIOUS
<1>1. TypeOK /\ TypeOK'
  BY TypeStep DEF IInv
<1> DEFINE Safe == PermitForWire /\ TransitionOwned /\ CloseBehind /\ PayloadBounded /\ NoLostWakeup
<1>2. mbox \in Mailbox /\ mbox.epoch \in Nat /\ mbox.outbound \in Nat /\ mbox.active \in BOOLEAN
        /\ closedThrough \in Nat /\ wire \in Wire /\ setter \in [Setters -> SetterStates]
        /\ closedThrough' \in Nat
  BY <1>1 DEF TypeOK, Mailbox
<1> USE DEF PermitForWire, TransitionOwned, CloseBehind, PayloadBounded, NoLostWakeup
<1>3. ASSUME NEW s \in Setters, Open(s) PROVE Safe'
  <2>1. mbox'.active = TRUE /\ mbox'.outbound = mbox.outbound
          /\ mbox'.epoch = IF mbox.active = TRUE THEN mbox.epoch ELSE mbox.epoch + 1
    BY <1>2, <1>3, MailboxFrame DEF Open
  <2>2. \A t \in Setters : setter[t] = "idle"
    BY <1>3, NobodyAssumption DEF Open, IInv
  <2>3. transition' = s /\ setter' = [t \in Setters |-> IF t = s THEN "opening" ELSE "idle"]
    BY <1>2, <1>3, <2>2 DEF Open
  <2>4. TransitionOwned' /\ NoLostWakeup'
    BY <2>1, <2>3
  <2>5. PermitForWire'
    BY <1>3, <2>1 DEF Open, workerVars, IInv
  <2>6. closedThrough <= mbox.epoch /\ (mbox.active => closedThrough < mbox.epoch)
    BY DEF IInv
  <2>7. wire' = wire /\ closedThrough' = closedThrough /\ wire.epoch \in Nat
    BY <1>2, <1>3 DEF Open, workerVars, Wire
  <2>8. mbox.epoch <= mbox'.epoch /\ mbox'.epoch \in Nat /\ (mbox'.active => closedThrough < mbox'.epoch)
    BY <1>2, <2>1, <2>6
  <2>9. CloseBehind' /\ PayloadBounded'
    BY <1>2, <2>6, <2>7, <2>8 DEF IInv, IsPayload
  <2> QED BY <2>4, <2>5, <2>9
<1>4. ASSUME NEW s \in Setters, BeginClose(s) PROVE Safe'
  <2>1. mbox'.active = FALSE /\ mbox'.outbound = mbox.outbound
          /\ mbox'.epoch = IF mbox.active = FALSE THEN mbox.epoch ELSE mbox.epoch + 1
    BY <1>2, <1>4, MailboxFrame DEF BeginClose
  <2>2. \A t \in Setters : setter[t] = "idle"
    BY <1>4, NobodyAssumption DEF BeginClose, IInv
  <2>3. transition' = s /\ setter' = [t \in Setters |-> IF t = s THEN "closing" ELSE "idle"]
    BY <1>2, <1>4, <2>2 DEF BeginClose
  <2>4. TransitionOwned' /\ NoLostWakeup'
    BY <2>1, <2>3
  <2>5. PermitForWire'
    BY <1>4, <2>1 DEF BeginClose, workerVars, IInv
  <2>6. closedThrough <= mbox.epoch /\ (mbox.active => closedThrough < mbox.epoch)
    BY DEF IInv
  <2>7. wire' = wire /\ closedThrough' = closedThrough /\ wire.epoch \in Nat
    BY <1>2, <1>4 DEF BeginClose, workerVars, Wire
  <2>8. mbox.epoch <= mbox'.epoch /\ mbox'.epoch \in Nat /\ (mbox'.active => closedThrough < mbox'.epoch)
    BY <1>2, <2>1, <2>6
  <2>9. CloseBehind' /\ PayloadBounded'
    BY <1>2, <2>6, <2>7, <2>8 DEF IInv, IsPayload
  <2> QED BY <2>4, <2>5, <2>9
<1>5. ASSUME NEW s \in Setters, OpenReturns(s) \/ CloseWaits(s) \/ SpuriousWakeup(s) PROVE Safe'
  <2>1. UNCHANGED <<mbox, worker, wire, closedThrough>>
    BY <1>5 DEF OpenReturns, CloseWaits, SpuriousWakeup, workerVars
  <2>2. PermitForWire' /\ CloseBehind' /\ PayloadBounded'
    BY <2>1 DEF IInv, IsPayload
  <2>3. TransitionOwned'
    BY <1>2, <1>5, <2>1 DEF OpenReturns, CloseWaits, SpuriousWakeup, IInv
  <2>4. NoLostWakeup'
    BY <1>2, <1>5, <2>1 DEF OpenReturns, CloseWaits, SpuriousWakeup, IInv, Nothing
  <2> QED BY <2>2, <2>3, <2>4
<1>6. ASSUME NEW s \in Setters, CloseReturns(s) PROVE Safe'
  BY <1>2, <1>6 DEF CloseReturns, workerVars, IInv, IsPayload, SetterStates, Nothing
<1>7. ASSUME mbox'.active = mbox.active, mbox'.epoch = mbox.epoch, mbox'.outbound = mbox.outbound,
             UNCHANGED <<transition, setter, wire, closedThrough>>,
             worker' = worker \/ {worker, worker'} \cap {"cameraWrite", "audioWrite"} = {}
      PROVE  Safe'
  BY <1>2, <1>7 DEF IInv, IsPayload
<1>8. ASSUME NEW g \in Generations, SubmitCamera(g) \/ SubmitAudio(g) PROVE Safe'
  BY <1>2, <1>7, <1>8, MailboxFrame DEF SubmitCamera, SubmitAudio, workerVars
<1>9. ASSUME (\E available \in BOOLEAN : BeginDrain(available)) \/ TakeBatch \/ EndDrain PROVE Safe'
  BY <1>2, <1>7, <1>9, MailboxFrame DEF BeginDrain, TakeBatch, EndDrain
<1>10. ASSUME PrepareCamera PROVE Safe'
  BY <1>2, <1>10 DEF PrepareCamera, CameraToSend, AfterPrepareCamera, StillCurrent, EpochIsActive,
                     NoSubmission, Error, Nothing, DeferredError, IInv, IsPayload, Mailbox, Submission
<1>11. ASSUME PrepareAudio PROVE Safe'
  BY <1>2, <1>11 DEF PrepareAudio, AudioMaySend, AfterPrepareAudio, EpochIsActive, Nothing,
                     IInv, IsPayload, Mailbox
<1>12. ASSUME CameraWritten \/ AudioWritten PROVE Safe'
  <2>1. mbox'.active = mbox.active /\ mbox'.epoch = mbox.epoch /\ mbox'.outbound = 0
    BY <1>2, <1>12 DEF CameraWritten, AudioWritten, Written, ReleasePermit, Mailbox, IInv
  <2> QED BY <1>2, <1>12, <2>1 DEF CameraWritten, AudioWritten, Written, Nothing, IInv, IsPayload,
                                   SetterStates
<1>13. ASSUME UNCHANGED vars PROVE Safe'
  BY <1>13 DEF vars, IInv, IsPayload
<1>14. Safe'
  BY <1>3, <1>4, <1>5, <1>6, <1>8, <1>9, <1>10, <1>11, <1>12, <1>13 DEF Next, SetterStep, WorkerStep
<1> QED BY <1>1, <1>14 DEF IInv

\* Whatever the setters and the worker do, the permits, the wire, the epoch and the last
\* completed close fit together.
THEOREM Invariance == Spec => []IInv
<1> QED BY InitIInv, IInvStep, PTL DEF Spec

\* The gate's variables stay in their types.
THEOREM GateTypeOK == Spec => []TypeOK
<1>1. IInv => TypeOK
  BY DEF IInv
<1> QED BY <1>1, Invariance, PTL

\* Once rdp_set_capture_active(false) has returned, nothing captured before is ever on the
\* wire again, for any number of threads opening and closing the gate.
THEOREM PayloadPrivacy == Spec => []NoPayloadAfterClose
<1>1. IInv => NoPayloadAfterClose
  BY DEF IInv, PayloadBounded, NoPayloadAfterClose
<1> QED BY <1>1, Invariance, PTL

\* A reopen never overtakes a close that is still waiting for a payload write.
THEOREM NoOvertaking == Spec => []CloseNotOvertaken
<1>1. IInv => CloseNotOvertaken
  BY DEF IInv, TransitionOwned, CloseNotOvertaken
<1> QED BY <1>1, Invariance, PTL

\* A sleeping close always has a permit holder that will wake it.
THEOREM NoWakeupLost == Spec => []NoLostWakeup
<1>1. IInv => NoLostWakeup
  BY DEF IInv
<1> QED BY <1>1, Invariance, PTL

-----------------------------------------------------------------------------
(* Refinement. *)

\* The gate begins as the privacy of a capture does.
LEMMA PrivacyInitially == Init => Privacy!PrivacyInit
BY DEF Init, Privacy!PrivacyInit, Privacy!NotSending, gateBar, sendingBar, EmptyMailbox, Nothing,
       IsPayload

\* Each step of the gate is a step of CapturePrivacy or leaves its variables unchanged.
LEMMA PrivacyStep == IInv /\ [Next]_vars => [Privacy!PrivacyNext]_(Privacy!privacyVars)
<1> SUFFICES ASSUME IInv, [Next]_vars PROVE Privacy!PrivacyNext \/ UNCHANGED Privacy!privacyVars
  OBVIOUS
<1>1. mbox \in Mailbox /\ mbox.epoch \in Nat /\ mbox.outbound \in Nat /\ mbox.active \in BOOLEAN
        /\ closedThrough \in Nat /\ wire \in Wire /\ setter \in [Setters -> SetterStates]
  BY DEF IInv, TypeOK, Mailbox
<1> DEFINE Draining == \E s \in Setters : setter[s] \in {"closing", "waiting"}
<1>2. ASSUME mbox'.active = mbox.active, mbox'.epoch = mbox.epoch, Draining' <=> Draining,
             sendingBar' = sendingBar
      PROVE  UNCHANGED Privacy!privacyVars
  BY <1>2 DEF gateBar, Privacy!privacyVars
<1>3. ASSUME NEW s \in Setters, Open(s) PROVE Privacy!PrivacyNext \/ UNCHANGED Privacy!privacyVars
  <2>1. mbox'.active = TRUE /\ mbox'.epoch = IF mbox.active = TRUE THEN mbox.epoch ELSE mbox.epoch + 1
    BY <1>1, <1>3, MailboxFrame DEF Open
  <2>2. ~Draining
    BY <1>3, NobodyAssumption DEF Open, IInv, TransitionOwned
  <2>3. sendingBar' = sendingBar
    BY <1>3 DEF Open, workerVars, sendingBar, IsPayload
  <2>4. CASE mbox.active
    BY <2>1, <2>3, <2>4 DEF gateBar, Privacy!privacyVars
  <2>5. CASE ~mbox.active
    BY <2>1, <2>2, <2>3, <2>5 DEF gateBar, Privacy!PrivacyNext, Privacy!Open
  <2> QED BY <2>4, <2>5
<1>4. ASSUME NEW s \in Setters, BeginClose(s) PROVE Privacy!PrivacyNext
  <2>1. mbox'.active = FALSE /\ mbox'.epoch = IF mbox.active = FALSE THEN mbox.epoch ELSE mbox.epoch + 1
    BY <1>1, <1>4, MailboxFrame DEF BeginClose
  <2>2. ~Draining
    BY <1>4, NobodyAssumption DEF BeginClose, IInv, TransitionOwned
  <2>3. sendingBar' = sendingBar
    BY <1>4 DEF BeginClose, workerVars, sendingBar, IsPayload
  <2>4. setter'[s] = "closing"
    BY <1>1, <1>4 DEF BeginClose
  <2>5. gateBar' = "closing"
    BY <2>1, <2>4 DEF gateBar
  <2>6. CASE mbox.active
    BY <1>1, <2>1, <2>3, <2>5, <2>6 DEF gateBar, Privacy!PrivacyNext, Privacy!BeginClose
  <2>7. CASE ~mbox.active
    BY <1>1, <2>1, <2>2, <2>3, <2>5, <2>7 DEF gateBar, Privacy!PrivacyNext, Privacy!BeginClose
  <2> QED BY <1>1, <2>6, <2>7
<1>5. ASSUME NEW s \in Setters, OpenReturns(s) \/ CloseWaits(s) \/ SpuriousWakeup(s)
      PROVE  UNCHANGED Privacy!privacyVars
  <2>1. Draining' <=> Draining
    BY <1>1, <1>5 DEF OpenReturns, CloseWaits, SpuriousWakeup
  <2> QED BY <1>2, <1>5, <2>1 DEF OpenReturns, CloseWaits, SpuriousWakeup, workerVars, sendingBar, IsPayload
<1>6. ASSUME NEW s \in Setters, CloseReturns(s) PROVE Privacy!PrivacyNext
  <2>1. ~mbox.active /\ ~mbox'.active /\ Draining /\ mbox' = mbox
    BY <1>1, <1>6 DEF CloseReturns, IInv, TransitionOwned
  <2>2. ~Draining'
    BY <1>1, <1>6 DEF CloseReturns, IInv, TransitionOwned
  <2>3. sendingBar = 0 /\ sendingBar' = 0
    BY <1>1, <1>6 DEF CloseReturns, workerVars, sendingBar, IsPayload, IInv, PermitForWire, Nothing
  <2> QED BY <2>1, <2>2, <2>3 DEF gateBar, Privacy!PrivacyNext, Privacy!EndClose, Privacy!NotSending
<1>7. ASSUME NEW g \in Generations, SubmitCamera(g) \/ SubmitAudio(g)
      PROVE  UNCHANGED Privacy!privacyVars
  BY <1>1, <1>2, <1>7, MailboxFrame DEF SubmitCamera, SubmitAudio, workerVars, sendingBar, IsPayload
<1>8. ASSUME (\E available \in BOOLEAN : BeginDrain(available)) \/ TakeBatch \/ EndDrain
      PROVE  UNCHANGED Privacy!privacyVars
  BY <1>1, <1>2, <1>8, MailboxFrame DEF BeginDrain, TakeBatch, EndDrain, sendingBar, IsPayload
<1>9. ASSUME PrepareCamera \/ PrepareAudio
      PROVE  Privacy!PrivacyNext \/ UNCHANGED Privacy!privacyVars
  <2>1. mbox'.active = mbox.active /\ mbox'.epoch = mbox.epoch
    BY <1>1, <1>9, MailboxFrame DEF PrepareCamera, PrepareAudio
  <2>2. (Draining' <=> Draining) /\ setter' = setter
    BY <1>9 DEF PrepareCamera, PrepareAudio
  <2>3. wire = Nothing /\ sendingBar = 0
    BY <1>9 DEF PrepareCamera, PrepareAudio, IInv, PermitForWire, sendingBar, IsPayload, Nothing
  <2>4. IsPayload(wire') => mbox.active /\ wire'.epoch = mbox.epoch
    BY <1>9, <2>3 DEF PrepareCamera, PrepareAudio, IsPayload, CameraToSend, StillCurrent,
                      EpochIsActive, Error, NoSubmission, AudioMaySend, Nothing
  <2>5. CASE IsPayload(wire')
    <3>1. sendingBar' = mbox.epoch
      BY <2>4, <2>5 DEF sendingBar
    <3> QED BY <2>1, <2>2, <2>3, <2>4, <2>5, <3>1
            DEF gateBar, Privacy!PrivacyNext, Privacy!StartSend, Privacy!NotSending
  <2>6. CASE ~IsPayload(wire')
    <3>1. sendingBar' = sendingBar
      BY <2>3, <2>6 DEF sendingBar
    <3> QED BY <1>2, <2>1, <2>2, <3>1
  <2> QED BY <2>5, <2>6
<1>10. ASSUME CameraWritten \/ AudioWritten
       PROVE  Privacy!PrivacyNext \/ UNCHANGED Privacy!privacyVars
  <2>1. mbox'.active = mbox.active /\ mbox'.epoch = mbox.epoch
    BY <1>1, <1>10, MailboxFrame DEF CameraWritten, AudioWritten, Written
  <2>2. Draining' <=> Draining
    BY <1>1, <1>10 DEF CameraWritten, AudioWritten, Written
  <2>3. sendingBar' = 0
    BY <1>10 DEF CameraWritten, AudioWritten, Written, sendingBar, IsPayload, Nothing
  <2>4. CASE sendingBar = 0
    BY <1>2, <2>1, <2>2, <2>3, <2>4
  <2>5. CASE sendingBar # 0
    BY <2>1, <2>2, <2>3, <2>5 DEF gateBar, Privacy!PrivacyNext, Privacy!EndSend, Privacy!NotSending
  <2> QED BY <2>4, <2>5
<1>11. ASSUME UNCHANGED vars PROVE UNCHANGED Privacy!privacyVars
  BY <1>11 DEF vars, Privacy!privacyVars, gateBar, sendingBar, IsPayload
<1> QED BY <1>3, <1>4, <1>5, <1>6, <1>7, <1>8, <1>9, <1>10, <1>11 DEF Next, SetterStep, WorkerStep

\* The gate, with its threads, queues and locks, implements the privacy that CapturePrivacy
\* states of a session's capture.
THEOREM GateImplementsPrivacy == Spec => ImplementsPrivacy
<1> QED BY PrivacyInitially, PrivacyStep, Invariance, PTL
        DEF Spec, ImplementsPrivacy, Privacy!PrivacySpec
=============================================================================
