-------------------------- MODULE MicrophoneProofs --------------------------
(***************************************************************************)
(* Proofs about CameraCredit and Microphone, for every bound: where a      *)
(* camera credit is, and what a microphone packet was recorded for.        *)
(***************************************************************************)
EXTENDS Microphone, TLAPS

-----------------------------------------------------------------------------
(* The inductive invariant of the camera's half *)

BridgeSound(b) ==
    /\ b.advertised => b.available
    /\ b.retired <= b.nextToken /\ b.device.token <= b.nextToken
    /\ Active(b) => b.available /\ b.advertised /\ b.device # NoDevice
    /\ Streaming(b) => b.gen > 0
    /\ b.credit => Streaming(b) /\ b.pending > 0
    /\ b.armed # 0 => b.credit /\ b.armed = b.gen

\* Nobody has seen a stream that the bridge has not begun, and the slot lags behind a new
\* stream only while its callback is on the way.
NoneAhead ==
    /\ slot.gen <= bridge.gen
    /\ mbox.camera.gen <= bridge.gen /\ held.gen <= bridge.gen
    /\ Streaming(bridge) /\ call.kind # "start" => slot.streaming /\ slot.gen = bridge.gen

CallSound ==
    /\ call.kind # "none" => worker \in {"idle", "discard"}
    /\ call.kind = "start" => /\ Streaming(bridge) /\ call.gen = bridge.gen
                              /\ ~bridge.credit /\ slot.gen < bridge.gen
    /\ call.kind = "stop" => ~Streaming(bridge)
    /\ call.kind = "sample" => /\ bridge.credit /\ call.gen = bridge.gen
                               /\ bridge.armed = 0
    /\ call.kind = "none" => call = NoCall

\* The mailbox cannot be given the answer that is in the worker's hand a second time.
HeldSound ==
    /\ worker = "prepare" <=> held.kind # "none"
    /\ Streaming(bridge) /\ held.kind # "none" /\ held.gen = bridge.gen
          => mbox.camera.kind = "none"

InArmed == bridge.armed # 0
InCall == call.kind = "sample"
InSlot == slot.streaming /\ slot.gen = bridge.gen /\ slot.credit = 1
InMail == mbox.camera.kind # "none" /\ mbox.camera.gen = bridge.gen
InHand == held.kind # "none" /\ held.gen = bridge.gen

\* CreditInOnePlace, place by place.
OneCredit ==
    Streaming(bridge) =>
      /\ bridge.credit <=> (InArmed \/ InCall \/ InSlot \/ InMail \/ InHand)
      /\ InArmed => ~(InCall \/ InSlot \/ InMail \/ InHand)
      /\ InCall => ~(InSlot \/ InMail \/ InHand)
      /\ InSlot => ~(InMail \/ InHand)
      /\ InMail => ~InHand

CreditTypes ==
    /\ bridge \in Bridge /\ mbox \in Mailbox
    /\ slot \in [streaming: BOOLEAN, gen: Nat, credit: 0..1]
    /\ worker \in {"idle", "discard", "take", "prepare", "write", "notify"}
    /\ call \in Callback /\ held \in Submission

ShellTypes ==
    /\ {desired, foreground, physical, lock} \subseteq BOOLEAN
    /\ owner \in Nat /\ target \in [gen: Nat, owner: Nat]
    /\ ui \in {"idle", "close", "closing", "publish"}

\* What a credit's way depends on: the foreground and the camera hardware only decide
\* which steps are taken.
CreditInv ==
    /\ CreditTypes /\ BridgeSound(bridge)
    /\ NoneAhead /\ CallSound /\ HeldSound /\ OneCredit

CameraInv == CreditInv /\ ShellTypes

\* The invariant puts a credit that is out into one place, and none into any place
\* otherwise.
LEMMA OnePlace == CreditInv => CreditInOnePlace
<1> SUFFICES ASSUME CreditInv, Streaming(bridge)
             PROVE  IF bridge.credit
                    THEN \E p \in CreditPlaces(bridge.gen) : CreditPlaces(bridge.gen) = {p}
                    ELSE CreditPlaces(bridge.gen) = {}
  BY DEF CreditInOnePlace
<1> DEFINE P == CreditPlaces(bridge.gen)
<1>1. bridge.gen \in Nat /\ bridge.gen > 0 /\ bridge.armed \in Nat /\ slot.credit \in 0..1
  BY DEF CreditInv, CreditTypes, BridgeSound, Bridge
<1>2. /\ "armed" \in P <=> InArmed
      /\ "callback" \in P <=> InCall
      /\ "slot" \in P <=> InSlot
      /\ "mailbox" \in P <=> InMail
      /\ "batch" \in P <=> InHand
  <2>1. "armed" \in P <=> bridge.armed = bridge.gen
    BY DEF CreditPlaces
  <2>2. "callback" \in P <=> call = Call("sample", bridge.gen)
    BY DEF CreditPlaces
  <2>3. "slot" \in P <=> HasCredit(bridge.gen)
    BY DEF CreditPlaces
  <2>4. "mailbox" \in P <=> mbox.camera.kind # "none" /\ mbox.camera.gen = bridge.gen
    BY DEF CreditPlaces
  <2>5. "batch" \in P <=> held.kind # "none" /\ held.gen = bridge.gen
    BY DEF CreditPlaces
  <2>6. InArmed <=> bridge.armed = bridge.gen
    BY <1>1 DEF CreditInv, BridgeSound, InArmed
  <2>7. InCall <=> call = Call("sample", bridge.gen)
    BY DEF CreditInv, CreditTypes, CallSound, InCall, Call, Callback
  <2> QED BY <2>1, <2>2, <2>3, <2>4, <2>5, <2>6, <2>7 DEF InSlot, InMail, InHand, HasCredit
<1>3. P \subseteq {"armed", "callback", "slot", "mailbox", "batch"}
  BY DEF CreditPlaces
<1>4. /\ bridge.credit <=> (InArmed \/ InCall \/ InSlot \/ InMail \/ InHand)
      /\ InArmed => ~(InCall \/ InSlot \/ InMail \/ InHand)
      /\ InCall => ~(InSlot \/ InMail \/ InHand)
      /\ InSlot => ~(InMail \/ InHand)
      /\ InMail => ~InHand
  BY DEF CreditInv, OneCredit
<1> HIDE DEF P
<1>5. CASE ~bridge.credit
  <2>1. P = {}
    BY <1>2, <1>3, <1>4, <1>5
  <2> QED BY <2>1, <1>5 DEF P
<1>6. CASE bridge.credit
  <2>1. CASE InArmed
    <3>1. P = {"armed"}
      BY <1>2, <1>3, <1>4, <2>1
    <3> QED BY <3>1, <1>6 DEF P
  <2>2. CASE InCall
    <3>1. P = {"callback"}
      BY <1>2, <1>3, <1>4, <2>2
    <3> QED BY <3>1, <1>6 DEF P
  <2>3. CASE InSlot
    <3>1. P = {"slot"}
      BY <1>2, <1>3, <1>4, <2>3
    <3> QED BY <3>1, <1>6 DEF P
  <2>4. CASE InMail
    <3>1. P = {"mailbox"}
      BY <1>2, <1>3, <1>4, <2>4
    <3> QED BY <3>1, <1>6 DEF P
  <2>5. CASE InHand
    <3>1. P = {"batch"}
      BY <1>2, <1>3, <1>4, <2>5
    <3> QED BY <3>1, <1>6 DEF P
  <2> QED BY <1>4, <1>6, <2>1, <2>2, <2>3, <2>4, <2>5
<1> QED BY <1>5, <1>6 DEF P

-----------------------------------------------------------------------------
(* What the operators of the bridge return *)

\* The announcement and the openings are as they were.
SameOpening(n, b) ==
    /\ n.available = b.available /\ n.advertised = b.advertised
    /\ n.nextToken = b.nextToken /\ n.retired = b.retired /\ n.device = b.device

NothingStreamed(n) == ~n.credit /\ n.pending = 0 /\ n.armed = 0 /\ ~Streaming(n)

\* No stream runs any more, and nobody can know the next one's generation.
Ended(n, b) == n \in Bridge /\ BridgeSound(n) /\ ~Streaming(n) /\ b.gen <= n.gen

\* stop_capture_locked leaves nothing of the stream, and its opening as it is.
LEMMA StopCaptureFields ==
    ASSUME NEW b \in Bridge
    PROVE  LET n == StopCapture(b) IN
           /\ n \in Bridge /\ NothingStreamed(n) /\ SameOpening(n, b)
           /\ b.gen <= n.gen /\ (Active(n) <=> Active(b))
<1> DEFINE c == IF Streaming(b) THEN "activated" ELSE b.lifecycle
           g == IF Streaming(b) THEN b.gen + 1 ELSE b.gen
           n == [b EXCEPT !.lifecycle = c, !.gen = g, !.pending = 0, !.credit = FALSE,
                          !.armed = 0]
<1>1. StopCapture(b) = n
  BY DEF StopCapture
<1>2. /\ c \in {"deactivated", "activated", "streaming"} /\ c # "streaming"
      /\ (c # "deactivated" <=> b.lifecycle # "deactivated")
      /\ g \in Nat /\ b.gen <= g /\ 0 \in 0..MaxPending
  BY MaxPendingAssumption DEF Streaming, Bridge
<1> HIDE DEF c, g
<1>3. n \in Bridge /\ n.lifecycle = c /\ n.gen = g
  BY <1>2 DEF Bridge
<1>4. ~n.credit /\ n.pending = 0 /\ n.armed = 0 /\ SameOpening(n, b)
  BY DEF Bridge, SameOpening
<1> QED BY <1>1, <1>2, <1>3, <1>4 DEF NothingStreamed, Streaming, Active

\* A stream that is stopped while the device stays open.
LEMMA StopCaptureEnds ==
    ASSUME NEW b \in Bridge, BridgeSound(b)
    PROVE  Ended(StopCapture(b), b)
<1> DEFINE n == StopCapture(b)
<1>1. /\ n \in Bridge /\ NothingStreamed(n) /\ SameOpening(n, b)
      /\ b.gen <= n.gen /\ (Active(n) <=> Active(b))
  BY StopCaptureFields
<1> HIDE DEF n
<1>2. BridgeSound(n)
  BY <1>1 DEF BridgeSound, NothingStreamed, SameOpening
<1> QED BY <1>1, <1>2 DEF Ended, NothingStreamed, n

\* A device that is withdrawn: what the caller does to the announcement before is kept.
LEMMA RetireDeviceEnds ==
    ASSUME NEW b \in Bridge, BridgeSound(b), NEW a \in Bridge, a.gen = b.gen,
           ~a.advertised
    PROVE  Ended(RetireDevice(a), b)
<1> DEFINE m == StopCapture(a)
           n == [m EXCEPT !.lifecycle = "deactivated", !.refs = 0, !.device = NoDevice,
                          !.retired = a.nextToken]
<1>1. RetireDevice(a) = n
  BY DEF RetireDevice
<1>2. m \in Bridge /\ NothingStreamed(m) /\ SameOpening(m, a) /\ a.gen <= m.gen
  BY StopCaptureFields
<1> HIDE DEF m
<1>3. NoDevice \in Device /\ NoDevice.token = 0
  BY DEF NoDevice, Device, NoChannel
<1>4. n \in Bridge
  BY <1>2, <1>3 DEF Bridge
<1>5. /\ n.lifecycle = "deactivated" /\ n.device = NoDevice /\ n.retired = a.nextToken
      /\ n.nextToken = m.nextToken /\ n.credit = m.credit /\ n.armed = m.armed
      /\ n.gen = m.gen /\ n.advertised = m.advertised
  BY <1>2 DEF Bridge
<1> HIDE DEF n
<1>6. BridgeSound(n)
  BY <1>2, <1>3, <1>5 DEF BridgeSound, NothingStreamed, SameOpening, Active, Streaming, Bridge
<1> QED BY <1>1, <1>2, <1>4, <1>5, <1>6 DEF Ended, Streaming

\* set_available: the device that comes has no stream yet, the one that goes has none left.
LEMMA SetAvailableEnds ==
    ASSUME NEW b \in Bridge, BridgeSound(b), NEW available \in BOOLEAN,
           b.available # available
    PROVE  Ended(SetAvailable(b, available), b) /\ (Active(SetAvailable(b, available)) => Active(b))
<1>1. CASE available
  <2> DEFINE a == [b EXCEPT !.available = TRUE]
             n == [a EXCEPT !.advertised = TRUE, !.retired = a.nextToken]
  <2>1. SetAvailable(b, available) = IF MayAdvertise(a) THEN n ELSE a
    BY <1>1 DEF SetAvailable, Advertise
  <2>2. ~b.available /\ b.lifecycle = "deactivated" /\ ~b.credit /\ b.armed = 0
    BY <1>1 DEF BridgeSound, Active, Streaming, Bridge
  <2>3. /\ a \in Bridge /\ a.available /\ a.lifecycle = b.lifecycle /\ a.gen = b.gen
        /\ a.credit = b.credit /\ a.armed = b.armed /\ a.nextToken = b.nextToken
        /\ a.retired = b.retired /\ a.device = b.device
    BY DEF Bridge
  <2> HIDE DEF a
  <2>4. /\ n \in Bridge /\ n.available /\ n.lifecycle = a.lifecycle /\ n.gen = a.gen
        /\ n.credit = a.credit /\ n.armed = a.armed /\ n.nextToken = a.nextToken
        /\ n.retired = a.nextToken /\ n.device = a.device
    BY <2>3 DEF Bridge
  <2> HIDE DEF n
  <2>5. b.gen <= b.gen /\ b.nextToken <= b.nextToken
    BY DEF Bridge
  <2>6. Ended(a, b) /\ ~Active(a)
    BY <2>2, <2>3, <2>5 DEF Ended, BridgeSound, Active, Streaming
  <2>7. Ended(n, b) /\ ~Active(n)
    BY <2>2, <2>3, <2>4, <2>5 DEF Ended, BridgeSound, Active, Streaming
  <2> QED BY <2>1, <2>6, <2>7
<1>2. CASE ~available
  <2> DEFINE a == [b EXCEPT !.available = FALSE, !.advertised = FALSE]
  <2>1. SetAvailable(b, available) = RetireDevice(a)
    BY <1>2 DEF SetAvailable
  <2>2. a \in Bridge /\ a.gen = b.gen /\ ~a.advertised
    BY DEF Bridge
  <2> HIDE DEF a
  <2>3. Ended(RetireDevice(a), b)
    BY <2>2, RetireDeviceEnds
  <2>4. StopCapture(a) \in Bridge
    BY <2>2, StopCaptureFields
  <2>5. ~Active(RetireDevice(a))
    BY <2>4 DEF RetireDevice, Active, Bridge
  <2> QED BY <2>1, <2>3, <2>5
<1> QED BY <1>1, <1>2

\* create, start and activate of a device that nobody has open.
LEMMA OpenDeviceEnds ==
    ASSUME NEW b \in Bridge, BridgeSound(b), b.advertised, b.device = NoDevice
    PROVE  LET m == AllocateToken(b)
               d == [token |-> m.nextToken, channel |-> 1]
           IN  /\ Ended(Activate(DeviceStart(m, d)), b)
               /\ DeviceStartCall(m, d) = NoCall
<1> DEFINE m == AllocateToken(b)
           d == [token |-> m.nextToken, channel |-> 1]
           s == StopCapture(m)
           r == ReplaceDevice(m, d)
           n == Activate(r)
<1>1. /\ m \in Bridge /\ m.nextToken = b.nextToken + 1 /\ m.retired = b.retired
      /\ m.device = b.device /\ m.gen = b.gen /\ m.lifecycle = b.lifecycle
      /\ m.available = b.available /\ m.advertised = b.advertised
  <2> DEFINE t == b.nextToken + 1
  <2>1. m = [b EXCEPT !.nextToken = t] /\ t \in Nat /\ t = b.nextToken + 1
    BY DEF AllocateToken, Bridge
  <2> HIDE DEF m, t
  <2> QED BY <2>1 DEF Bridge
<1> HIDE DEF m
<1>2. /\ b.available /\ ~Streaming(b) /\ b.retired <= b.nextToken /\ NoDevice.token = 0
      /\ b.nextToken \in Nat /\ b.retired \in Nat
  BY DEF BridgeSound, NoDevice, Streaming, Active, Bridge
<1>3. d \in Device /\ d.token = b.nextToken + 1 /\ d # NoDevice /\ d.token # NoDevice.token
  BY ServerChannelAssumption, <1>1, <1>2 DEF Device, Bridge
<1> HIDE DEF d
<1>4. MayAttach(m, d.token) /\ m.device.token # d.token
  BY <1>1, <1>2, <1>3 DEF MayAttach
<1>5. DeviceStart(m, d) = r /\ DeviceStartCall(m, d) = NoCall
  BY <1>1, <1>2, <1>4 DEF DeviceStart, DeviceStartCall, StopCall, Streaming
<1>6. s \in Bridge /\ NothingStreamed(s) /\ SameOpening(s, m) /\ m.gen <= s.gen
  BY <1>1, StopCaptureFields
<1> HIDE DEF s
<1>7. /\ r = [s EXCEPT !.lifecycle = "deactivated", !.refs = 0, !.device = d]
      /\ r \in Bridge
  <2> DEFINE k == IF m.device.token > s.retired THEN m.device.token ELSE s.retired
  <2>1. r = [s EXCEPT !.lifecycle = "deactivated", !.refs = 0, !.device = d,
                      !.retired = k]
    BY DEF ReplaceDevice, s
  <2>2. k = s.retired
    BY <1>1, <1>2, <1>6 DEF SameOpening
  <2> HIDE DEF k
  <2>3. r = [s EXCEPT !.lifecycle = "deactivated", !.refs = 0, !.device = d]
    BY <2>1, <2>2, <1>6 DEF Bridge
  <2> HIDE DEF r
  <2>4. r \in Bridge
    BY <2>3, <1>3, <1>6 DEF Bridge
  <2> QED BY <2>3, <2>4
<1>8. /\ r.lifecycle = "deactivated" /\ r.device = d /\ r.retired = b.retired
      /\ r.nextToken = b.nextToken + 1 /\ r.gen = s.gen /\ r.available /\ r.advertised
      /\ ~r.credit /\ r.armed = 0
  BY <1>1, <1>2, <1>6, <1>7 DEF Bridge, SameOpening, NothingStreamed
<1> HIDE DEF r
<1>9. /\ n \in Bridge /\ n.lifecycle = "activated" /\ n.device = d
      /\ n.retired = b.retired /\ n.nextToken = b.nextToken + 1 /\ n.gen = s.gen
      /\ n.available /\ n.advertised /\ ~n.credit /\ n.armed = 0
  <2> DEFINE f == r.refs + 1
  <2>1. f \in Nat
    BY <1>7 DEF Bridge
  <2>2. n = [r EXCEPT !.refs = f, !.lifecycle = "activated"]
    BY <1>7, <1>8 DEF Activate, Bridge
  <2> HIDE DEF n, f
  <2> QED BY <1>7, <1>8, <2>1, <2>2 DEF Bridge
<1> HIDE DEF n
<1>10. BridgeSound(n) /\ ~Streaming(n) /\ b.gen <= n.gen
  BY <1>1, <1>2, <1>3, <1>6, <1>9 DEF BridgeSound, Active, Streaming, Bridge
<1> QED BY <1>5, <1>9, <1>10 DEF Ended, n, r, m, d

\* A stream begins with nothing requested and nothing handed out.
LEMMA StartStreamsFields ==
    ASSUME NEW b \in Bridge, BridgeSound(b), MayStartStreams(b, TRUE)
    PROVE  LET n == StartStreams(b, TRUE) IN
           /\ n \in Bridge /\ BridgeSound(n) /\ Streaming(n)
           /\ n.gen = b.gen + 1 /\ ~n.credit /\ n.armed = 0
<1> DEFINE n == [b EXCEPT !.lifecycle = "streaming", !.gen = b.gen + 1, !.pending = 0,
                          !.credit = FALSE, !.armed = 0]
<1>1. StartStreams(b, TRUE) = n
  BY DEF StartStreams
<1>2. b.gen + 1 \in Nat /\ 0 \in 0..MaxPending /\ b.gen + 1 > 0
  BY MaxPendingAssumption DEF Bridge
<1>3. n \in Bridge
  BY <1>2 DEF Bridge
<1>4. /\ n.lifecycle = "streaming" /\ n.gen = b.gen + 1 /\ ~n.credit /\ n.armed = 0
      /\ n.available = b.available /\ n.advertised = b.advertised
      /\ n.nextToken = b.nextToken /\ n.retired = b.retired /\ n.device = b.device
  BY DEF Bridge
<1> HIDE DEF n
<1>5. BridgeSound(n) /\ Streaming(n)
  BY <1>2, <1>4 DEF BridgeSound, MayStartStreams, Active, Streaming
<1> QED BY <1>1, <1>3, <1>4, <1>5

\* A request is added to those that wait; the credit goes out if none is.
LEMMA SampleRequestFields ==
    ASSUME NEW b \in Bridge, BridgeSound(b), MayQueueSample(b, TRUE)
    PROVE  LET n == SampleRequest(b, TRUE) IN
           /\ n \in Bridge /\ BridgeSound(n) /\ Streaming(n)
           /\ n.gen = b.gen /\ n.armed = b.armed /\ n.credit
           /\ SampleRequestCall(b, TRUE) = IF b.credit THEN NoCall ELSE Call("sample", b.gen)
<1> DEFINE p == b.pending + 1
           q == [b EXCEPT !.pending = p]
           n == IF b.credit THEN q ELSE [q EXCEPT !.credit = TRUE]
<1>1. p \in 0..MaxPending /\ p > 0
  BY MaxPendingAssumption DEF MayQueueSample, Bridge
<1>2. q \in Bridge /\ q.pending = p /\ q.credit = b.credit /\ q.lifecycle = b.lifecycle
      /\ q.gen = b.gen /\ q.armed = b.armed /\ SameOpening(q, b)
  BY <1>1 DEF Bridge, SameOpening
<1>3. SampleRequest(b, TRUE) = ArmCredit(q)
  BY DEF SampleRequest
<1>4. SampleRequestCall(b, TRUE) = IF CanArm(q) THEN Call("sample", b.gen) ELSE NoCall
  BY DEF SampleRequestCall
<1> HIDE DEF p, q
<1>5. CanArm(q) <=> ~b.credit
  BY <1>1, <1>2 DEF CanArm, MayQueueSample, Streaming
<1>6. ArmCredit(q) = n
  BY <1>5 DEF ArmCredit
<1>7. /\ n \in Bridge /\ n.pending = p /\ n.credit /\ n.lifecycle = b.lifecycle
      /\ n.gen = b.gen /\ n.armed = b.armed /\ SameOpening(n, b)
  BY <1>2 DEF Bridge, SameOpening
<1> HIDE DEF n
<1>8. BridgeSound(n) /\ Streaming(n)
  BY <1>1, <1>7 DEF BridgeSound, SameOpening, Active, Streaming, MayQueueSample
<1> QED BY <1>3, <1>4, <1>5, <1>6, <1>7, <1>8

\* An answer consumes the credit; the next one is armed if a request waits.
LEMMA AnswerFields ==
    ASSUME NEW b \in Bridge, BridgeSound(b), NEW g \in Nat, MayAnswer(b, g)
    PROVE  LET n == Answer(b, g) IN
           /\ n \in Bridge /\ BridgeSound(n) /\ n.lifecycle = b.lifecycle /\ n.gen = b.gen
           /\ n.available = b.available /\ (n.credit <=> n.armed # 0)
<1> DEFINE p == b.pending - 1
           q == [b EXCEPT !.pending = p, !.credit = FALSE]
           c == IF CanArm(q) THEN [q EXCEPT !.credit = TRUE] ELSE q
           a == IF CanArm(q) THEN b.gen ELSE 0
           n == [c EXCEPT !.armed = a]
<1>1. p \in 0..MaxPending
  BY MaxPendingAssumption DEF MayAnswer, Bridge
<1>2. q \in Bridge /\ q.pending = p /\ ~q.credit /\ q.lifecycle = b.lifecycle
      /\ q.gen = b.gen /\ SameOpening(q, b)
  BY <1>1 DEF Bridge, SameOpening
<1>3. Answer(b, g) = n
  BY DEF Answer, ArmCredit
<1> HIDE DEF p, q
<1>4. /\ c \in Bridge /\ c.pending = p /\ (c.credit <=> CanArm(q))
      /\ c.lifecycle = b.lifecycle /\ c.gen = b.gen /\ SameOpening(c, b)
  BY <1>2 DEF Bridge, SameOpening
<1>5. a \in Nat /\ (CanArm(q) => p > 0)
  BY <1>2 DEF CanArm, Bridge
<1> HIDE DEF c
<1>6. /\ n \in Bridge /\ n.pending = p /\ n.credit = c.credit /\ n.armed = a
      /\ n.lifecycle = b.lifecycle /\ n.gen = b.gen /\ SameOpening(n, b)
  BY <1>4, <1>5 DEF Bridge, SameOpening
<1>7. b.gen > 0 /\ Streaming(b)
  BY DEF MayAnswer, BridgeSound
<1> HIDE DEF n
<1>8. BridgeSound(n) /\ (n.credit <=> n.armed # 0)
  BY <1>4, <1>5, <1>6, <1>7 DEF BridgeSound, SameOpening, Active, Streaming
<1> QED BY <1>3, <1>6, <1>8 DEF SameOpening

-----------------------------------------------------------------------------
(* What the operators of the mailbox return *)

\* The camera's answer in the mailbox is there for the same stream, or still missing.
SameAnswer(n, m) ==
    n.camera.gen = m.camera.gen /\ (n.camera.kind = "none" <=> m.camera.kind = "none")

\* The gate, the permits and the microphone leave the camera's answer where it is.
LEMMA MailboxKeepsAnswer ==
    ASSUME NEW m \in Mailbox
    PROVE  /\ \A active \in BOOLEAN :
                 SetCaptureActive(m, active) \in Mailbox /\ SameAnswer(SetCaptureActive(m, active), m)
           /\ ReleasePermit(m) \in Mailbox /\ SameAnswer(ReleasePermit(m), m)
           /\ \A g \in Nat : EnqueueAudio(m, g) \in Mailbox /\ SameAnswer(EnqueueAudio(m, g), m)
           /\ \A sub \in AudioSubmission :
                 AfterPrepareAudio(m, sub) \in Mailbox /\ SameAnswer(AfterPrepareAudio(m, sub), m)
<1>1. ASSUME NEW active \in BOOLEAN
      PROVE  SetCaptureActive(m, active) \in Mailbox /\ SameAnswer(SetCaptureActive(m, active), m)
  <2> DEFINE c == IF ~active /\ m.camera.kind # "none" THEN DeferredError(m.camera.gen)
                                                       ELSE m.camera
             n == [active |-> active, epoch |-> m.epoch + 1, audio |-> <<>>, camera |-> c,
                   outbound |-> m.outbound]
  <2>1. SetCaptureActive(m, active) = IF m.active = active THEN m ELSE n
    BY DEF SetCaptureActive
  <2>2. /\ c \in Submission /\ c.gen = m.camera.gen
        /\ (c.kind = "none" <=> m.camera.kind = "none")
    BY DEF Mailbox, Submission, DeferredError
  <2> HIDE DEF c
  <2>3. n \in Mailbox /\ SameAnswer(n, m) /\ SameAnswer(m, m)
    BY <2>2 DEF Mailbox, SameAnswer
  <2> QED BY <2>1, <2>3
<1>2. ReleasePermit(m) \in Mailbox /\ SameAnswer(ReleasePermit(m), m)
  BY DEF ReleasePermit, Mailbox, SameAnswer
<1>3. ASSUME NEW g \in Nat
      PROVE  EnqueueAudio(m, g) \in Mailbox /\ SameAnswer(EnqueueAudio(m, g), m)
  <2> DEFINE q == IF Len(m.audio) = QueueDepth THEN Tail(m.audio) ELSE m.audio
             x == [gen |-> g, epoch |-> m.epoch]
             a == Append(q, x)
  <2>1. EnqueueAudio(m, g) = IF m.active THEN [m EXCEPT !.audio = a] ELSE m
    BY DEF EnqueueAudio
  <2>2. m.audio \in Seq(AudioSubmission) /\ (Len(m.audio) = QueueDepth => m.audio # <<>>)
    BY QueueDepthAssumption DEF Mailbox
  <2>3. x \in AudioSubmission
    BY DEF Mailbox, AudioSubmission
  <2>4. q \in Seq(AudioSubmission)
    BY <2>2
  <2> HIDE DEF q, x
  <2>5. a \in Seq(AudioSubmission)
    BY <2>3, <2>4
  <2> HIDE DEF a
  <2>6. [m EXCEPT !.audio = a] \in Mailbox /\ SameAnswer([m EXCEPT !.audio = a], m)
    BY <2>5 DEF Mailbox, SameAnswer
  <2> QED BY <2>1, <2>6 DEF SameAnswer
<1>4. ASSUME NEW sub \in AudioSubmission
      PROVE  AfterPrepareAudio(m, sub) \in Mailbox /\ SameAnswer(AfterPrepareAudio(m, sub), m)
  BY DEF AfterPrepareAudio, Mailbox, SameAnswer
<1> QED BY <1>1, <1>2, <1>3, <1>4

\* The slot for the camera's answer is filled and emptied.
LEMMA MailboxTakesAnswer ==
    ASSUME NEW m \in Mailbox, NEW g \in Nat
    PROVE  /\ CanEnqueueCamera(m) =>
                LET e == EnqueueCameraError(m, g)
                    h == EnqueueCameraH264(m, g)
                IN  /\ e \in Mailbox /\ e.camera.kind = "error" /\ e.camera.gen = g
                    /\ h \in Mailbox /\ h.camera.kind = "h264" /\ h.camera.gen = g
           /\ TakePending(m) \in Mailbox /\ TakePending(m).camera = NoSubmission
           /\ DiscardCamera(m) \in Mailbox /\ DiscardCamera(m).camera = NoSubmission
<1>1. /\ Error(g, m.epoch) \in Submission /\ Error(g, m.epoch).kind = "error"
      /\ Error(g, m.epoch).gen = g /\ H264(g, m.epoch) \in Submission
      /\ H264(g, m.epoch).kind = "h264" /\ H264(g, m.epoch).gen = g
      /\ NoSubmission \in Submission
  BY DEF Error, H264, Submission, NoSubmission, Mailbox
<1>2. ASSUME CanEnqueueCamera(m)
      PROVE  LET e == EnqueueCameraError(m, g)
                 h == EnqueueCameraH264(m, g)
             IN  /\ e \in Mailbox /\ e.camera.kind = "error" /\ e.camera.gen = g
                 /\ h \in Mailbox /\ h.camera.kind = "h264" /\ h.camera.gen = g
  BY <1>1, <1>2 DEF EnqueueCameraError, EnqueueCameraH264, Mailbox
<1>3. /\ TakePending(m) \in Mailbox /\ TakePending(m).camera = NoSubmission
      /\ DiscardCamera(m) \in Mailbox /\ DiscardCamera(m).camera = NoSubmission
  <2>1. <<>> \in Seq(AudioSubmission)
    OBVIOUS
  <2> QED BY <1>1, <2>1 DEF TakePending, DiscardCamera, Mailbox
<1> QED BY <1>2, <1>3

\* The answer in the worker's hand goes out through an open gate, and back into an empty
\* mailbox through a closed one.
LEMMA PrepareCameraFields ==
    ASSUME NEW m \in Mailbox, NEW sub \in Submission, sub.kind # "none"
    PROVE  LET n == AfterPrepareCamera(m, sub)
               out == CameraToSend(m, sub)
           IN  /\ n \in Mailbox
               /\ out.kind # "none" <=> m.active
               /\ m.active => out.gen = sub.gen /\ n.camera = m.camera
               /\ ~m.active => IF m.camera.kind = "none"
                               THEN n.camera.kind # "none" /\ n.camera.gen = sub.gen
                               ELSE n = m
<1>1. DeferredError(sub.gen) \in Submission /\ DeferredError(sub.gen).kind = "deferred"
      /\ DeferredError(sub.gen).gen = sub.gen
  BY DEF DeferredError, Submission
<1>2. AfterPrepareCamera(m, sub) \in Mailbox
  BY <1>1 DEF AfterPrepareCamera, Mailbox
<1>3. m.active => AfterPrepareCamera(m, sub).camera = m.camera
  BY DEF AfterPrepareCamera, Mailbox
<1>4. ~m.active => IF m.camera.kind = "none"
                   THEN /\ AfterPrepareCamera(m, sub).camera.kind # "none"
                        /\ AfterPrepareCamera(m, sub).camera.gen = sub.gen
                   ELSE AfterPrepareCamera(m, sub) = m
  BY <1>1 DEF AfterPrepareCamera, Mailbox
<1>5. CameraToSend(m, sub).kind # "none" <=> m.active
  BY DEF CameraToSend, StillCurrent, EpochIsActive, Error, NoSubmission
<1>6. m.active => CameraToSend(m, sub).gen = sub.gen
  BY DEF CameraToSend, Error
<1> QED BY <1>2, <1>3, <1>4, <1>5, <1>6

-----------------------------------------------------------------------------
(* The places of a credit, step by step *)

credVars == <<bridge, mbox, slot, worker, call, held>>

\* A step of nobody that has to do with credits.
LEMMA CreditStutters == CreditInv /\ UNCHANGED credVars => CreditInv'
  BY DEF CreditInv, credVars, CreditTypes, NoneAhead, CallSound, HeldSound, OneCredit,
         InArmed, InCall, InSlot, InMail, InHand

\* A step that only moves the gate, a permit or the microphone's packets.
LEMMA GateKeepsCredit ==
    ASSUME CreditInv, mbox' \in Mailbox, SameAnswer(mbox', mbox),
           UNCHANGED <<bridge, slot, call, held>>,
           worker' = worker \/ (worker = "write" /\ worker' = "notify")
    PROVE  CreditInv'
<1>1. CreditTypes'
  BY DEF CreditInv, CreditTypes
<1>2. BridgeSound(bridge)' /\ NoneAhead'
  BY DEF CreditInv, NoneAhead, SameAnswer
<1>3. CallSound' /\ HeldSound'
  BY DEF CreditInv, CallSound, HeldSound, SameAnswer
<1>4. OneCredit'
  BY DEF CreditInv, OneCredit, InArmed, InCall, InSlot, InMail, InHand, SameAnswer
<1> QED BY <1>1, <1>2, <1>3, <1>4 DEF CreditInv

\* An access unit or an error takes the credit of the slot into the mailbox: what the
\* worker has in its hand then is the answer of an older stream.
LEMMA CreditHandedOver ==
    ASSUME CreditInv, HasCredit(slot.gen), CanEnqueueCamera(mbox),
           mbox' \in Mailbox, mbox'.camera.kind # "none", mbox'.camera.gen = slot.gen,
           slot' = [slot EXCEPT !.credit = 0],
           UNCHANGED <<bridge, worker, call, held>>
    PROVE  CreditInv'
<1>1. /\ slot'.streaming = slot.streaming /\ slot'.gen = slot.gen /\ slot'.credit = 0
      /\ slot' \in [streaming: BOOLEAN, gen: Nat, credit: 0..1]
      /\ slot.streaming /\ slot.credit = 1 /\ mbox.camera.kind = "none"
  <2>1. slot \in [streaming: BOOLEAN, gen: Nat, credit: 0..1] /\ 0 \in 0..1
    BY DEF CreditInv, CreditTypes
  <2>2. slot.streaming /\ slot.credit = 1 /\ mbox.camera.kind = "none"
    BY DEF HasCredit, CanEnqueueCamera
  <2> QED BY <2>1, <2>2
<1>2. CreditTypes' /\ BridgeSound(bridge)'
  BY <1>1 DEF CreditInv, CreditTypes
<1>3. NoneAhead' /\ CallSound'
  BY <1>1 DEF CreditInv, NoneAhead, CallSound
<1>4. (InArmed' <=> InArmed) /\ (InCall' <=> InCall) /\ (InHand' <=> InHand)
  BY DEF InArmed, InCall, InHand
<1>5. ~InMail /\ ~InSlot' /\ (InMail' <=> slot.gen = bridge.gen) /\ (InSlot <=> slot.gen = bridge.gen)
  BY <1>1 DEF InMail, InSlot
<1>6. OneCredit'
  BY <1>4, <1>5 DEF CreditInv, OneCredit
<1>7. held.kind # "none" => call.kind = "none"
  BY DEF CreditInv, CallSound, HeldSound
<1>8. Streaming(bridge) /\ InHand => FALSE
  <2> SUFFICES ASSUME Streaming(bridge), InHand PROVE FALSE
    OBVIOUS
  <2>1. slot.gen = bridge.gen
    BY <1>7 DEF CreditInv, NoneAhead, InHand
  <2> QED BY <2>1, <1>5 DEF CreditInv, OneCredit
<1>9. HeldSound'
  BY <1>8 DEF CreditInv, HeldSound, InHand
<1> QED BY <1>2, <1>3, <1>6, <1>9 DEF CreditInv

\* capture_camera_fail_credit_locked, by whoever calls it.
LEMMA FailCreditKeeps ==
    ASSUME CreditInv, NEW g, FailCredit(g), UNCHANGED <<bridge, worker, call, held>>
    PROVE  CreditInv'
<1>1. CASE HasCredit(g) /\ CanEnqueueCamera(mbox)
  <2>1. g = slot.gen /\ slot.gen \in Nat /\ mbox \in Mailbox
    BY <1>1 DEF HasCredit, CreditInv, CreditTypes
  <2>2. mbox' = EnqueueCameraError(mbox, slot.gen) /\ slot' = [slot EXCEPT !.credit = 0]
    BY <1>1, <2>1 DEF FailCredit
  <2>3. mbox' \in Mailbox /\ mbox'.camera.kind # "none" /\ mbox'.camera.gen = slot.gen
    BY <1>1, <2>1, <2>2, MailboxTakesAnswer
  <2> QED BY <1>1, <2>1, <2>2, <2>3, CreditHandedOver
<1>2. CASE ~(HasCredit(g) /\ CanEnqueueCamera(mbox))
  BY <1>2, CreditStutters DEF FailCredit, credVars
<1> QED BY <1>1, <1>2

\* The generations that are compared are numbers.
LEMMA Numbers ==
    CreditTypes => /\ bridge.gen \in Nat /\ slot.gen \in Nat /\ call.gen \in Nat
                   /\ mbox.camera.gen \in Nat /\ held.gen \in Nat
<1> SUFFICES ASSUME CreditTypes
             PROVE  /\ bridge.gen \in Nat /\ slot.gen \in Nat /\ call.gen \in Nat
                    /\ mbox.camera.gen \in Nat /\ held.gen \in Nat
  OBVIOUS
<1>1. bridge.gen \in Nat
  BY DEF CreditTypes, Bridge
<1>2. slot.gen \in Nat /\ call.gen \in Nat /\ held.gen \in Nat
  BY DEF CreditTypes, Callback, Submission
<1>3. mbox.camera \in Submission
  BY DEF CreditTypes, Mailbox
<1>4. mbox.camera.gen \in Nat
  BY <1>3 DEF Submission
<1> QED BY <1>1, <1>2, <1>4

\* A handler of the server's that leaves no stream behind.
LEMMA StreamEnds ==
    ASSUME CreditInv, worker = "idle", Ended(bridge', bridge), call' \in Callback,
           call' = NoCall \/ call'.kind = "stop", worker' \in {"idle", "discard"},
           UNCHANGED <<mbox, slot, held>>
    PROVE  CreditInv'
<1>1. CreditTypes' /\ BridgeSound(bridge)' /\ ~Streaming(bridge')
  BY DEF CreditInv, CreditTypes, Ended
<1>2. NoneAhead'
  <2>1. bridge'.gen \in Nat
    BY DEF Ended, Bridge
  <2>2. bridge.gen <= bridge'.gen /\ NoneAhead /\ CreditTypes
    BY DEF CreditInv, Ended
  <2> QED BY <1>1, <2>1, <2>2, Numbers DEF NoneAhead
<1>3. NoCall.kind = "none"
  BY DEF NoCall
<1>4. CallSound' /\ HeldSound' /\ OneCredit'
  BY <1>1, <1>3 DEF CreditInv, CallSound, HeldSound, OneCredit
<1> QED BY <1>1, <1>2, <1>4 DEF CreditInv

\* The callback of a stream that stops is the callback of its generation, or none.
LEMMA StopCallFields ==
    ASSUME NEW b \in Bridge
    PROVE  StopCall(b) \in Callback /\ (StopCall(b) = NoCall \/ StopCall(b).kind = "stop")
  BY DEF StopCall, Callback, NoCall, Call, Bridge

\* create, start and activate find nobody else's stream.
LEMMA OpenDeviceKeeps ==
    ASSUME CreditInv, OpenDevice
    PROVE  CreditInv'
<1> DEFINE m == AllocateToken(bridge)
           d == [token |-> m.nextToken, channel |-> 1]
<1>1. bridge \in Bridge /\ BridgeSound(bridge) /\ bridge.advertised /\ bridge.device = NoDevice
  BY DEF CreditInv, CreditTypes, OpenDevice
<1>2. /\ Ended(Activate(DeviceStart(m, d)), bridge)
      /\ DeviceStartCall(m, d) = NoCall
  BY <1>1, OpenDeviceEnds
<1>3. bridge' = Activate(DeviceStart(m, d)) /\ call' = DeviceStartCall(m, d)
  BY DEF OpenDevice, Handler
<1> HIDE DEF m, d
<1>4. Ended(bridge', bridge) /\ call' = NoCall /\ NoCall \in Callback
  BY <1>2, <1>3 DEF NoCall, Callback
<1>5. /\ worker = "idle" /\ worker' = "idle"
      /\ UNCHANGED <<mbox, slot, held>>
  BY DEF OpenDevice, RequestsArrive, shellVars
<1> QED BY <1>4, <1>5, StreamEnds

\* stop_streams of a stream, and of none.
LEMMA StopStreamsKeeps ==
    ASSUME CreditInv, StopStreamsRequest
    PROVE  CreditInv'
<1>1. bridge \in Bridge /\ BridgeSound(bridge)
  BY DEF CreditInv, CreditTypes
<1>2. /\ worker = "idle" /\ worker' = "idle" /\ call = NoCall
      /\ UNCHANGED <<mbox, slot, held>>
      /\ bridge' = StopStreams(bridge) /\ call' = StopStreamsCall(bridge)
  BY DEF StopStreamsRequest, RequestsArrive, Handler, shellVars
<1>3. CASE Active(bridge)
  <2>1. Ended(bridge', bridge)
    BY <1>1, <1>2, <1>3, StopCaptureEnds DEF StopStreams
  <2>2. call' \in Callback /\ (call' = NoCall \/ call'.kind = "stop")
    BY <1>1, <1>2, <1>3, StopCallFields DEF StopStreamsCall
  <2> QED BY <1>2, <2>1, <2>2, StreamEnds
<1>4. CASE ~Active(bridge)
  <2>1. bridge' = bridge /\ call' = call
    BY <1>2, <1>4 DEF StopStreams, StopStreamsCall
  <2> QED BY <1>2, <2>1, CreditStutters DEF credVars
<1> QED BY <1>3, <1>4

\* A stream begins: nobody has seen its generation yet.
LEMMA StartStreamsKeeps ==
    ASSUME CreditInv, StartStreamsRequest
    PROVE  CreditInv'
<1>1. bridge \in Bridge /\ BridgeSound(bridge) /\ NoneAhead /\ HeldSound
  BY DEF CreditInv, CreditTypes
<1>2. /\ worker = "idle" /\ worker' = "idle" /\ call = NoCall
      /\ UNCHANGED <<mbox, slot, held>>
      /\ bridge' = StartStreams(bridge, TRUE) /\ call' = StartStreamsCall(bridge, TRUE)
  BY DEF StartStreamsRequest, RequestsArrive, Handler, shellVars
<1>3. CASE MayStartStreams(bridge, TRUE)
  <2>1. /\ bridge' \in Bridge /\ BridgeSound(bridge') /\ Streaming(bridge')
        /\ bridge'.gen = bridge.gen + 1 /\ ~bridge'.credit /\ bridge'.armed = 0
    BY <1>1, <1>2, <1>3, StartStreamsFields
  <2>2. call' \in Callback /\ call'.kind = "start" /\ call'.gen = bridge'.gen
    BY <1>1, <1>2, <1>3, <2>1 DEF StartStreamsCall, Call, Callback, Bridge
  <2>3. /\ slot.gen < bridge'.gen /\ mbox.camera.gen < bridge'.gen /\ held.gen < bridge'.gen
    BY <1>1, <2>1, Numbers DEF CreditInv, NoneAhead
  <2>4. CreditTypes'
    BY <1>2, <2>1, <2>2 DEF CreditInv, CreditTypes
  <2>5. /\ slot'.gen \in Nat /\ mbox'.camera.gen \in Nat /\ held'.gen \in Nat
        /\ bridge'.gen \in Nat
        /\ slot'.gen < bridge'.gen /\ mbox'.camera.gen < bridge'.gen /\ held'.gen < bridge'.gen
    BY <1>2, <2>1, <2>3, Numbers DEF CreditInv, Bridge
  <2>6. NoneAhead' /\ CallSound' /\ HeldSound'
    <3>1. NoneAhead'
      BY <2>2, <2>5 DEF NoneAhead
    <3>2. CallSound' /\ HeldSound'
      BY <1>1, <1>2, <2>1, <2>2, <2>3, <2>5 DEF CallSound, HeldSound
    <3> QED BY <3>1, <3>2
  <2>7. ~InArmed' /\ ~InCall' /\ ~InSlot' /\ ~InMail' /\ ~InHand'
    BY <2>1, <2>2, <2>5 DEF InArmed, InCall, InSlot, InMail, InHand
  <2>8. OneCredit'
    BY <2>1, <2>7 DEF OneCredit
  <2> QED BY <2>1, <2>4, <2>6, <2>8 DEF CreditInv
<1>4. CASE ~MayStartStreams(bridge, TRUE)
  <2>1. bridge' = bridge /\ call' = call
    BY <1>2, <1>4 DEF StartStreams, StartStreamsCall
  <2> QED BY <1>2, <2>1, CreditStutters DEF credVars
<1> QED BY <1>3, <1>4

\* A request hands out the credit only if it was nowhere.
LEMMA SampleRequestKeeps ==
    ASSUME CreditInv, SampleRequestStep
    PROVE  CreditInv'
<1>1. bridge \in Bridge /\ BridgeSound(bridge) /\ NoneAhead /\ HeldSound /\ OneCredit
  BY DEF CreditInv, CreditTypes
<1>2. /\ worker = "idle" /\ worker' = "idle" /\ call = NoCall
      /\ UNCHANGED <<mbox, slot, held>>
      /\ bridge' = SampleRequest(bridge, TRUE) /\ call' = SampleRequestCall(bridge, TRUE)
  BY DEF SampleRequestStep, RequestsArrive, Handler, shellVars
<1>3. CASE MayQueueSample(bridge, TRUE)
  <2>1. /\ bridge' \in Bridge /\ BridgeSound(bridge') /\ Streaming(bridge')
        /\ bridge'.gen = bridge.gen /\ bridge'.armed = bridge.armed /\ bridge'.credit
        /\ call' = IF bridge.credit THEN NoCall ELSE Call("sample", bridge.gen)
    BY <1>1, <1>2, <1>3, SampleRequestFields
  <2>2. call.kind = "none" /\ NoCall.kind = "none" /\ Streaming(bridge)
    BY <1>2, <1>3 DEF NoCall, MayQueueSample
  <2>3. call' \in Callback
    BY <1>1, <2>1 DEF Call, NoCall, Callback, Bridge
  <2>4. IF bridge.credit THEN call' = NoCall
        ELSE call'.kind = "sample" /\ call'.gen = bridge.gen /\ bridge.armed = 0
    BY <1>1, <2>1 DEF Call, BridgeSound
  <2>5. CreditTypes' /\ NoneAhead' /\ CallSound' /\ HeldSound'
    BY <1>1, <1>2, <2>1, <2>2, <2>3, <2>4 DEF CreditInv, CreditTypes, NoneAhead, CallSound, HeldSound
  <2>6. /\ InArmed' <=> InArmed
        /\ InSlot' <=> InSlot
        /\ InMail' <=> InMail
        /\ InHand' <=> InHand
        /\ ~InCall /\ (InCall' <=> ~bridge.credit)
    BY <1>2, <2>1, <2>2, <2>4 DEF InArmed, InCall, InSlot, InMail, InHand
  <2>7. OneCredit'
    BY <1>1, <2>1, <2>2, <2>6 DEF OneCredit
  <2> QED BY <2>1, <2>5, <2>7 DEF CreditInv
<1>4. CASE ~MayQueueSample(bridge, TRUE)
  <2>1. bridge' = bridge /\ call' = call
    BY <1>2, <1>4 DEF SampleRequest, SampleRequestCall
  <2> QED BY <1>2, <2>1, CreditStutters DEF credVars
<1> QED BY <1>3, <1>4

\* camera_start: the slot catches up with the bridge, and answers for the stream it leaves.
LEMMA InvokeStartKeeps ==
    ASSUME CreditInv, InvokeStart
    PROVE  CreditInv'
<1>1. /\ CreditTypes /\ BridgeSound(bridge) /\ NoneAhead /\ CallSound /\ HeldSound /\ OneCredit
      /\ mbox \in Mailbox
  BY DEF CreditInv, CreditTypes
<1>2. /\ bridge.gen \in Nat /\ slot.gen \in Nat /\ call.gen \in Nat
      /\ mbox.camera.gen \in Nat /\ held.gen \in Nat
  BY <1>1, Numbers
<1>3. /\ call.kind = "start" /\ call' = NoCall /\ NoCall.kind = "none"
      /\ slot' = [streaming |-> TRUE, gen |-> call.gen, credit |-> 0]
      /\ UNCHANGED <<bridge, worker, held>>
  BY DEF InvokeStart, NoCall
<1>4. /\ Streaming(bridge) /\ call.gen = bridge.gen /\ ~bridge.credit /\ slot.gen < bridge.gen
      /\ worker \in {"idle", "discard"} /\ held.kind = "none"
  BY <1>1, <1>3 DEF CallSound, HeldSound
<1>5. slot'.streaming /\ slot'.gen = bridge.gen /\ slot'.credit = 0
  BY <1>3, <1>4
<1>6. /\ mbox' \in Mailbox
      /\ mbox'.camera = mbox.camera \/ mbox'.camera.gen = slot.gen
  BY <1>1, <1>2, MailboxTakesAnswer DEF InvokeStart
<1>7. CreditTypes'
  BY <1>1, <1>2, <1>3, <1>6 DEF CreditTypes, NoCall, Callback
<1>8. NoneAhead' /\ CallSound' /\ HeldSound'
  <2>1. NoneAhead'
    BY <1>1, <1>2, <1>3, <1>4, <1>5, <1>6 DEF NoneAhead
  <2>2. CallSound' /\ HeldSound'
    BY <1>1, <1>3, <1>4 DEF CallSound, HeldSound
  <2> QED BY <2>1, <2>2
<1>9. ~InArmed' /\ ~InCall' /\ ~InSlot' /\ ~InMail' /\ ~InHand'
  <2>1. ~InArmed' /\ ~InCall' /\ ~InSlot' /\ ~InHand'
    BY <1>1, <1>3, <1>4, <1>5 DEF InArmed, InCall, InSlot, InHand, BridgeSound
  <2>2. ~InMail
    BY <1>1, <1>4 DEF OneCredit
  <2>3. ~InMail'
    BY <2>2, <1>2, <1>3, <1>4, <1>6 DEF InMail
  <2> QED BY <2>1, <2>3
<1>10. OneCredit' /\ BridgeSound(bridge)'
  BY <1>1, <1>3, <1>4, <1>9 DEF OneCredit
<1> QED BY <1>7, <1>8, <1>10 DEF CreditInv

\* camera_stop: the stream has ended before its callback comes.
LEMMA InvokeStopKeeps ==
    ASSUME CreditInv, InvokeStop
    PROVE  CreditInv'
<1>1. /\ CreditTypes /\ BridgeSound(bridge) /\ NoneAhead /\ CallSound /\ HeldSound /\ OneCredit
      /\ slot \in [streaming: BOOLEAN, gen: Nat, credit: 0..1] /\ 0 \in 0..1
  BY DEF CreditInv, CreditTypes
<1>2. /\ call.kind = "stop" /\ call' = NoCall /\ NoCall.kind = "none"
      /\ UNCHANGED <<bridge, mbox, worker, held>> /\ ~Streaming(bridge)
  BY <1>1 DEF InvokeStop, NoCall, CallSound
<1>3. slot' \in [streaming: BOOLEAN, gen: Nat, credit: 0..1] /\ slot'.gen = slot.gen
  BY <1>1 DEF InvokeStop
<1>4. CreditTypes'
  BY <1>1, <1>2, <1>3 DEF CreditTypes, NoCall, Callback
<1>5. NoneAhead' /\ CallSound' /\ HeldSound' /\ OneCredit' /\ BridgeSound(bridge)'
  BY <1>1, <1>2, <1>3 DEF NoneAhead, CallSound, HeldSound, OneCredit
<1> QED BY <1>4, <1>5 DEF CreditInv

\* camera_sample_request: the slot has the stream that the credit is for.
LEMMA InvokeSampleKeeps ==
    ASSUME CreditInv, InvokeSampleRequest
    PROVE  CreditInv'
<1>1. /\ CreditTypes /\ BridgeSound(bridge) /\ NoneAhead /\ CallSound /\ HeldSound /\ OneCredit
      /\ slot \in [streaming: BOOLEAN, gen: Nat, credit: 0..1] /\ 1 \in 0..1
  BY DEF CreditInv, CreditTypes
<1>2. /\ call.kind = "sample" /\ call' = NoCall /\ NoCall.kind = "none"
      /\ UNCHANGED <<bridge, mbox, worker, held>>
  BY DEF InvokeSampleRequest, NoCall
<1>3. bridge.credit /\ Streaming(bridge) /\ call.gen = bridge.gen /\ bridge.armed = 0
  BY <1>1, <1>2 DEF CallSound, BridgeSound
<1>4. slot.streaming /\ slot.gen = bridge.gen
  BY <1>1, <1>2, <1>3 DEF NoneAhead
<1>5. slot' = [slot EXCEPT !.credit = 1]
  BY <1>3, <1>4 DEF InvokeSampleRequest
<1>6. /\ slot'.streaming /\ slot'.gen = bridge.gen /\ slot'.credit = 1
      /\ slot' \in [streaming: BOOLEAN, gen: Nat, credit: 0..1]
  BY <1>1, <1>4, <1>5
<1>7. CreditTypes'
  BY <1>1, <1>2, <1>6 DEF CreditTypes, NoCall, Callback
<1>8. bridge.gen \in Nat
  BY <1>1, Numbers
<1>9. NoneAhead' /\ CallSound' /\ HeldSound'
  BY <1>1, <1>2, <1>6, <1>8 DEF NoneAhead, CallSound, HeldSound
<1>10. /\ InCall /\ ~InCall' /\ InSlot'
       /\ InArmed' <=> InArmed
       /\ InMail' <=> InMail
       /\ InHand' <=> InHand
  BY <1>2, <1>6 DEF InArmed, InCall, InSlot, InMail, InHand
<1>11. OneCredit' /\ BridgeSound(bridge)'
  BY <1>1, <1>2, <1>3, <1>10 DEF OneCredit
<1> QED BY <1>7, <1>9, <1>11 DEF CreditInv

\* drain_media: the device is announced or withdrawn.
LEMMA ReconcileKeeps ==
    ASSUME CreditInv, desired \in BOOLEAN, Reconcile
    PROVE  CreditInv'
<1>1. bridge \in Bridge /\ BridgeSound(bridge)
  BY DEF CreditInv, CreditTypes
<1>2. /\ worker = "idle" /\ worker' = "discard" /\ call = NoCall
      /\ UNCHANGED <<mbox, slot, held>>
      /\ bridge' = SetAvailable(bridge, desired)
      /\ call' = SetAvailableCall(bridge, desired)
  BY DEF Reconcile, Handler, shellVars
<1>3. CASE bridge.available # desired
  <2>1. Ended(bridge', bridge)
    BY <1>1, <1>2, <1>3, SetAvailableEnds
  <2>2. call' \in Callback /\ (call' = NoCall \/ call'.kind = "stop")
    <3>1. StopCall(bridge) \in Callback /\ (StopCall(bridge) = NoCall \/ StopCall(bridge).kind = "stop")
      BY <1>1, StopCallFields
    <3>2. NoCall \in Callback
      BY DEF NoCall, Callback
    <3> QED BY <1>2, <3>1, <3>2 DEF SetAvailableCall
  <2> QED BY <1>2, <2>1, <2>2, StreamEnds
<1>4. CASE bridge.available = desired
  <2>1. bridge' = bridge /\ call' = NoCall /\ NoCall.kind = "none"
    BY <1>2, <1>4 DEF SetAvailable, SetAvailableCall, NoCall
  <2>2. CreditTypes'
    BY <1>2, <2>1 DEF CreditInv, CreditTypes
  <2>3. NoneAhead' /\ CallSound' /\ HeldSound' /\ OneCredit' /\ BridgeSound(bridge)'
    BY <1>2, <2>1 DEF CreditInv, NoneAhead, CallSound, HeldSound, OneCredit,
                      InArmed, InCall, InSlot, InMail, InHand
  <2> QED BY <2>2, <2>3 DEF CreditInv
<1> QED BY <1>3, <1>4

\* ... and of a device that is gone the answer is dropped: no stream waits for it.
LEMMA DiscardKeeps ==
    ASSUME CreditInv, Discard
    PROVE  CreditInv'
<1>1. /\ CreditTypes /\ BridgeSound(bridge) /\ NoneAhead /\ CallSound /\ HeldSound /\ OneCredit
      /\ mbox \in Mailbox
  BY DEF CreditInv, CreditTypes
<1>2. /\ worker = "discard" /\ worker' = "take" /\ call = NoCall /\ NoCall.kind = "none"
      /\ UNCHANGED <<bridge, slot, call, held>>
      /\ mbox' = IF bridge.available THEN mbox ELSE DiscardCamera(mbox)
  BY DEF Discard, shellVars, NoCall
<1>3. mbox' \in Mailbox /\ (mbox' = mbox \/ (~Streaming(bridge) /\ mbox'.camera = NoSubmission))
  <2>1. 0 \in Nat
    OBVIOUS
  <2>2. DiscardCamera(mbox) \in Mailbox /\ DiscardCamera(mbox).camera = NoSubmission
    BY <1>1, <2>1, MailboxTakesAnswer
  <2>3. ~bridge.available => ~Streaming(bridge)
    BY <1>1 DEF BridgeSound, Active, Streaming
  <2> QED BY <1>1, <1>2, <2>2, <2>3
<1>4. NoSubmission.gen = 0 /\ bridge.gen \in Nat
  BY <1>1, Numbers DEF NoSubmission
<1>5. CreditTypes'
  BY <1>1, <1>2, <1>3 DEF CreditTypes
<1>6. NoneAhead' /\ CallSound'
  BY <1>1, <1>2, <1>3, <1>4 DEF NoneAhead, CallSound
<1>7. HeldSound' /\ OneCredit' /\ BridgeSound(bridge)'
  BY <1>1, <1>2, <1>3 DEF HeldSound, OneCredit, InArmed, InCall, InSlot, InMail, InHand
<1> QED BY <1>5, <1>6, <1>7 DEF CreditInv

\* The answer goes from the mailbox into the worker's hand.
LEMMA TakeKeeps ==
    ASSUME CreditInv, Take
    PROVE  CreditInv'
<1>1. /\ CreditTypes /\ BridgeSound(bridge) /\ NoneAhead /\ CallSound /\ HeldSound /\ OneCredit
      /\ mbox \in Mailbox
  BY DEF CreditInv, CreditTypes
<1>2. /\ worker = "take" /\ held' = mbox.camera
      /\ mbox' = TakePending(mbox)
      /\ worker' = IF mbox.camera.kind = "none" THEN "notify" ELSE "prepare"
      /\ UNCHANGED <<bridge, slot, call>>
  BY DEF Take, shellVars
<1>3. mbox' \in Mailbox /\ mbox'.camera = NoSubmission /\ NoSubmission.kind = "none"
      /\ NoSubmission.gen = 0
  <2>1. 0 \in Nat
    OBVIOUS
  <2> QED BY <1>1, <1>2, <2>1, MailboxTakesAnswer DEF NoSubmission
<1>4. call.kind = "none" /\ held.kind = "none" /\ bridge.gen \in Nat /\ held' \in Submission
  BY <1>1, <1>2, Numbers DEF CallSound, HeldSound, Mailbox
<1>5. CreditTypes'
  BY <1>1, <1>2, <1>3, <1>4 DEF CreditTypes
<1>6. NoneAhead' /\ CallSound' /\ HeldSound' /\ BridgeSound(bridge)'
  BY <1>1, <1>2, <1>3, <1>4 DEF NoneAhead, CallSound, HeldSound
<1>7. /\ ~InHand /\ ~InMail'
      /\ InHand' <=> InMail
      /\ InArmed' <=> InArmed
      /\ InCall' <=> InCall
      /\ InSlot' <=> InSlot
  BY <1>2, <1>3, <1>4 DEF InArmed, InCall, InSlot, InMail, InHand
<1>8. OneCredit'
  BY <1>1, <1>2, <1>7 DEF OneCredit
<1> QED BY <1>5, <1>6, <1>8 DEF CreditInv

\* prepare_camera_send: the answer goes out and spends the credit, or is parked again.
LEMMA PrepareKeeps ==
    ASSUME CreditInv, Prepare
    PROVE  CreditInv'
<1>1. /\ CreditTypes /\ BridgeSound(bridge) /\ NoneAhead /\ CallSound /\ HeldSound /\ OneCredit
      /\ mbox \in Mailbox /\ held \in Submission /\ bridge \in Bridge
  BY DEF CreditInv, CreditTypes
<1> DEFINE out == CameraToSend(mbox, held)
<1>2. /\ worker = "prepare" /\ held' = NoSubmission
      /\ mbox' = AfterPrepareCamera(mbox, held)
      /\ bridge' = IF out.kind # "none" /\ MayAnswer(bridge, out.gen)
                   THEN Answer(bridge, out.gen) ELSE bridge
      /\ worker' = IF out.kind = "none" THEN "notify" ELSE "write"
      /\ UNCHANGED <<slot, call>>
  BY DEF Prepare, shellVars
<1>3. held.kind # "none" /\ call.kind = "none"
  BY <1>1, <1>2 DEF HeldSound, CallSound
<1>4. /\ mbox' \in Mailbox
      /\ out.kind # "none" <=> mbox.active
      /\ mbox.active => out.gen = held.gen /\ mbox'.camera = mbox.camera
      /\ ~mbox.active => IF mbox.camera.kind = "none"
                         THEN mbox'.camera.kind # "none" /\ mbox'.camera.gen = held.gen
                         ELSE mbox' = mbox
  BY <1>1, <1>2, <1>3, PrepareCameraFields
<1> HIDE DEF out
<1>5. /\ NoSubmission \in Submission /\ NoSubmission.kind = "none" /\ NoSubmission.gen = 0
      /\ bridge.gen \in Nat /\ held.gen \in Nat /\ slot.gen \in Nat /\ mbox.camera.gen \in Nat
  BY <1>1, Numbers DEF NoSubmission, Submission
<1>6. worker' \in {"notify", "write"} /\ ~InHand' /\ ~InCall /\ ~InCall'
  BY <1>2, <1>3, <1>5 DEF InHand, InCall
<1>7. CASE mbox.active /\ MayAnswer(bridge, held.gen)
  <2>1. bridge' = Answer(bridge, held.gen)
    BY <1>2, <1>4, <1>7
  <2>2. /\ bridge' \in Bridge /\ BridgeSound(bridge') /\ bridge'.lifecycle = bridge.lifecycle
        /\ bridge'.gen = bridge.gen /\ (bridge'.credit <=> bridge'.armed # 0)
    BY <1>1, <1>5, <1>7, <2>1, AnswerFields
  <2>3. Streaming(bridge) /\ InHand
    BY <1>3, <1>7 DEF MayAnswer, InHand
  <2>4. ~InSlot /\ ~InMail
    BY <1>1, <2>3 DEF OneCredit
  <2>5. ~InSlot' /\ ~InMail' /\ (InArmed' <=> bridge'.credit)
    BY <1>2, <1>4, <1>7, <2>2, <2>4 DEF InSlot, InMail, InArmed
  <2>6. OneCredit'
    BY <1>6, <2>5 DEF OneCredit
  <2>7. CreditTypes'
    BY <1>1, <1>2, <1>4, <1>5, <1>6, <2>2 DEF CreditTypes
  <2>8. NoneAhead'
    BY <1>1, <1>2, <1>3, <1>4, <1>5, <1>7, <2>2 DEF NoneAhead, Streaming
  <2>9. CallSound' /\ HeldSound'
    BY <1>1, <1>2, <1>3, <1>5, <1>6 DEF CallSound, HeldSound
  <2> QED BY <2>2, <2>6, <2>7, <2>8, <2>9 DEF CreditInv
<1>8. CASE ~(mbox.active /\ MayAnswer(bridge, held.gen))
  <2>1. bridge' = bridge
    BY <1>2, <1>4, <1>8
  <2>2. CreditTypes' /\ BridgeSound(bridge)'
    BY <1>1, <1>2, <1>4, <1>5, <1>6, <2>1 DEF CreditTypes
  <2>3. NoneAhead'
    BY <1>1, <1>2, <1>3, <1>4, <1>5, <2>1 DEF NoneAhead
  <2>4. CallSound' /\ HeldSound'
    BY <1>1, <1>2, <1>3, <1>5, <1>6, <2>1 DEF CallSound, HeldSound
  <2>5. Streaming(bridge) => (InMail' <=> InMail \/ InHand)
    <3> SUFFICES ASSUME Streaming(bridge) PROVE InMail' <=> InMail \/ InHand
      OBVIOUS
    <3>1. CASE mbox.active
      <4>1. ~InHand
        <5> SUFFICES ASSUME InHand PROVE FALSE
          OBVIOUS
        <5>1. bridge.credit
          BY <1>1 DEF OneCredit
        <5>2. bridge.pending > 0 /\ bridge.device # NoDevice
          BY <1>1, <5>1 DEF BridgeSound, Active, Streaming
        <5> QED BY <1>8, <3>1, <5>1, <5>2 DEF MayAnswer, InHand
      <4> QED BY <1>4, <2>1, <3>1, <4>1 DEF InMail
    <3>2. CASE ~mbox.active /\ mbox.camera.kind = "none"
      BY <1>3, <1>4, <2>1, <3>2 DEF InMail, InHand
    <3>3. CASE ~mbox.active /\ mbox.camera.kind # "none"
      <4>1. ~InHand
        BY <1>1, <3>3 DEF HeldSound, InHand
      <4> QED BY <1>4, <2>1, <3>3, <4>1 DEF InMail
    <3> QED BY <3>1, <3>2, <3>3
  <2>6. /\ InArmed' <=> InArmed
        /\ InSlot' <=> InSlot
    BY <1>2, <2>1 DEF InArmed, InSlot
  <2>7. OneCredit'
    BY <1>1, <1>6, <2>1, <2>5, <2>6 DEF OneCredit
  <2> QED BY <2>2, <2>3, <2>4, <2>7 DEF CreditInv
<1> QED BY <1>7, <1>8

\* The credit that an answer has armed is told while the gate is open, and kept otherwise.
LEMMA NotifyKeeps ==
    ASSUME CreditInv, Notify
    PROVE  CreditInv'
<1>1. /\ CreditTypes /\ BridgeSound(bridge) /\ NoneAhead /\ CallSound /\ HeldSound /\ OneCredit
      /\ bridge \in Bridge
  BY DEF CreditInv, CreditTypes
<1>2. /\ worker = "notify" /\ worker' = "idle" /\ UNCHANGED <<mbox, slot, held>>
      /\ \/ bridge' = NextCreditTaken(bridge) /\ call' = NextCreditCall(bridge)
         \/ bridge' = bridge /\ call' = call
  BY DEF Notify, Handler, shellVars
<1>3. call.kind = "none" /\ call = NoCall /\ held.kind = "none" /\ bridge.gen \in Nat
      /\ NoCall.kind = "none"
  BY <1>1, <1>2, Numbers DEF CallSound, HeldSound, NoCall
<1>4. CASE bridge' = bridge /\ call' = call
  <2>1. CreditTypes' /\ NoneAhead' /\ CallSound' /\ HeldSound' /\ BridgeSound(bridge)'
    BY <1>1, <1>2, <1>3, <1>4 DEF CreditTypes, NoneAhead, CallSound, HeldSound
  <2>2. OneCredit'
    BY <1>1, <1>2, <1>4 DEF OneCredit, InArmed, InCall, InSlot, InMail, InHand
  <2> QED BY <2>1, <2>2 DEF CreditInv
<1>5. CASE bridge' = NextCreditTaken(bridge) /\ call' = NextCreditCall(bridge)
  <2>1. /\ bridge' \in Bridge /\ bridge'.armed = 0 /\ bridge'.credit = bridge.credit
        /\ bridge'.gen = bridge.gen /\ bridge'.lifecycle = bridge.lifecycle
        /\ bridge'.pending = bridge.pending /\ SameOpening(bridge', bridge)
    BY <1>1, <1>5 DEF NextCreditTaken, Bridge, SameOpening
  <2>2. BridgeSound(bridge')
    BY <1>1, <2>1 DEF BridgeSound, SameOpening, Active, Streaming
  <2>3. IF bridge.armed = 0 THEN call' = NoCall
        ELSE call'.kind = "sample" /\ call'.gen = bridge.gen /\ bridge.credit
    BY <1>1, <1>5 DEF NextCreditCall, Call, BridgeSound
  <2>4. call' \in Callback
    BY <1>1, <1>5 DEF NextCreditCall, Call, NoCall, Callback, Bridge
  <2>5. CreditTypes'
    BY <1>1, <1>2, <2>1, <2>4 DEF CreditTypes
  <2>6. NoneAhead' /\ CallSound' /\ HeldSound'
    <3>1. NoneAhead'
      BY <1>1, <1>2, <1>3, <2>1 DEF NoneAhead, Streaming
    <3>2. CallSound' /\ HeldSound'
      BY <1>1, <1>2, <1>3, <2>1, <2>3 DEF CallSound, HeldSound, Streaming
    <3> QED BY <3>1, <3>2
  <2>7. /\ ~InArmed' /\ ~InCall
        /\ InCall' <=> InArmed
        /\ InSlot' <=> InSlot
        /\ InMail' <=> InMail
        /\ InHand' <=> InHand
    BY <1>2, <1>3, <2>1, <2>3 DEF InArmed, InCall, InSlot, InMail, InHand
  <2>8. OneCredit'
    BY <1>1, <2>1, <2>7 DEF OneCredit, Streaming
  <2> QED BY <2>2, <2>5, <2>6, <2>8 DEF CreditInv
<1> QED BY <1>2, <1>4, <1>5

-----------------------------------------------------------------------------
(* The steps of CameraCredit *)

\* Availability is a truth value of two others.
LEMMA ShellStep == CreditTypes /\ ShellTypes /\ [Next]_vars => ShellTypes'
<1> SUFFICES ASSUME CreditTypes, ShellTypes, [Next]_vars PROVE ShellTypes'
  OBVIOUS
<1> USE DEF ShellTypes
<1>1. CASE LeaveForeground
  <2>1. /\ lock' \in BOOLEAN /\ ui' = "close"
        /\ UNCHANGED <<foreground, physical, owner, desired, target>>
    BY <1>1 DEF LeaveForeground
  <2> QED BY <2>1
<1>2. CASE CloseGate
  BY <1>2 DEF CloseGate, shellVars
<1>3. CASE GateClosed
  <2>1. desired' \in BOOLEAN
    BY <1>3 DEF GateClosed, PublishAvailability
  <2>2. /\ foreground' \in BOOLEAN /\ owner' = owner + 1 /\ lock' \in BOOLEAN /\ ui' = "idle"
        /\ UNCHANGED <<physical, target>>
    BY <1>3 DEF GateClosed
  <2> QED BY <2>1, <2>2
<1>4. CASE EnterForeground
  BY <1>4 DEF EnterForeground
<1>5. CASE PublishDevice
  BY <1>5 DEF PublishDevice, PublishAvailability
<1>6. CASE Invoke
  BY <1>6 DEF Invoke, InvokeStart, InvokeStop, InvokeSampleRequest, uiVars
<1>7. CASE DrainMedia \/ ServerStep
  BY <1>7 DEF DrainMedia, Reconcile, Discard, Take, Prepare, Written, Notify, ServerStep, OpenDevice,
              StartStreamsRequest, StopStreamsRequest, SampleRequestStep, shellVars, uiVars
<1>8. CASE Retarget
  <2>1. owner \in Nat /\ slot.gen \in Nat
    BY Numbers
  <2>2. target' \in [gen: Nat, owner: Nat]
    BY <1>8, <2>1 DEF Retarget, CurrentTarget, StreamRequested
  <2> QED BY <1>8, <2>2 DEF Retarget, uiVars
<1>9. CASE CameraAnswers
  BY <1>9 DEF CameraAnswers, SubmitQueued, GiveUpFrame, uiVars
<1>10. CASE \E present \in BOOLEAN : DevicePresence(present)
  BY <1>10 DEF DevicePresence, PublishAvailability, uiVars
<1>11. CASE UNCHANGED vars
  BY <1>11 DEF vars, shellVars, uiVars
<1> QED BY <1>1, <1>2, <1>3, <1>4, <1>5, <1>6, <1>7, <1>8, <1>9, <1>10, <1>11
        DEF Next, UiStep, CameraStep

\* The SDL thread answers a credit before it closes the gate, and closes it over the rest.
LEMMA UiKeepsCredit == CreditInv /\ UiStep => CreditInv'
<1> SUFFICES ASSUME CreditInv, UiStep PROVE CreditInv'
  OBVIOUS
<1>1. mbox \in Mailbox
  BY DEF CreditInv, CreditTypes
<1>2. CASE LeaveForeground
  BY <1>2, FailCreditKeeps DEF LeaveForeground, workerVars
<1>3. CASE CloseGate \/ EnterForeground
  <2>1. mbox' \in Mailbox /\ SameAnswer(mbox', mbox)
    BY <1>1, <1>3, MailboxKeepsAnswer DEF CloseGate, EnterForeground
  <2> QED BY <1>3, <2>1, GateKeepsCredit DEF CloseGate, EnterForeground, shellVars, workerVars
<1>4. CASE GateClosed \/ PublishDevice
  BY <1>4, CreditStutters DEF GateClosed, PublishDevice, workerVars, credVars
<1> QED BY <1>2, <1>3, <1>4 DEF UiStep

\* The camera worker spends the credit it was woken for, or gives it back as an error.
LEMMA CameraKeepsCredit == CreditInv /\ CameraStep => CreditInv'
<1> SUFFICES ASSUME CreditInv, CameraStep PROVE CreditInv'
  OBVIOUS
<1>1. mbox \in Mailbox /\ slot.gen \in Nat
  BY Numbers DEF CreditInv, CreditTypes
<1>2. CASE Retarget
  <2>1. UNCHANGED <<bridge, worker, call, held>>
    BY <1>2 DEF Retarget, workerVars
  <2>2. FailCredit(target.gen) \/ UNCHANGED <<mbox, slot>>
    BY <1>2 DEF Retarget
  <2> QED BY <2>1, <2>2, FailCreditKeeps, CreditStutters DEF credVars
<1>3. CASE SubmitQueued
  <2>1. target.gen = slot.gen /\ HasCredit(slot.gen) /\ CanEnqueueCamera(mbox)
    BY <1>3 DEF SubmitQueued, HasCredit
  <2>2. /\ mbox' = EnqueueCameraH264(mbox, slot.gen) /\ slot' = [slot EXCEPT !.credit = 0]
        /\ UNCHANGED <<bridge, worker, call, held>>
    BY <1>3, <2>1 DEF SubmitQueued, workerVars
  <2>3. mbox' \in Mailbox /\ mbox'.camera.kind # "none" /\ mbox'.camera.gen = slot.gen
    BY <1>1, <2>1, <2>2, MailboxTakesAnswer
  <2> QED BY <2>1, <2>2, <2>3, CreditHandedOver
<1>4. CASE GiveUpFrame
  BY <1>4, FailCreditKeeps DEF GiveUpFrame, workerVars
<1>5. CASE \E present \in BOOLEAN : DevicePresence(present)
  BY <1>5, CreditStutters DEF DevicePresence, workerVars, credVars
<1> QED BY <1>2, <1>3, <1>4, <1>5 DEF CameraStep, CameraAnswers

\* The write of an answer ends.
LEMMA WrittenKeeps ==
    ASSUME CreditInv, Written
    PROVE  CreditInv'
<1>1. mbox \in Mailbox
  BY DEF CreditInv, CreditTypes
<1>2. mbox' \in Mailbox /\ SameAnswer(mbox', mbox)
  BY <1>1, MailboxKeepsAnswer DEF Written
<1> QED BY <1>2, GateKeepsCredit DEF Written, shellVars

\* Every step of CameraCredit keeps every credit in its one place.
LEMMA CreditStep == CreditInv /\ ShellTypes /\ [Next]_vars => CreditInv'
<1> SUFFICES ASSUME CreditInv, ShellTypes, [Next]_vars PROVE CreditInv'
  OBVIOUS
<1>1. CASE UiStep
  BY <1>1, UiKeepsCredit
<1>2. CASE Invoke
  BY <1>2, InvokeStartKeeps, InvokeStopKeeps, InvokeSampleKeeps DEF Invoke
<1>3. CASE DrainMedia
  <2>1. desired \in BOOLEAN
    BY DEF ShellTypes
  <2> QED BY <1>3, <2>1, ReconcileKeeps, DiscardKeeps, TakeKeeps, PrepareKeeps, WrittenKeeps,
             NotifyKeeps DEF DrainMedia
<1>4. CASE ServerStep
  BY <1>4, OpenDeviceKeeps, StartStreamsKeeps, StopStreamsKeeps, SampleRequestKeeps DEF ServerStep
<1>5. CASE CameraStep
  BY <1>5, CameraKeepsCredit
<1>6. CASE UNCHANGED vars
  BY <1>6, CreditStutters DEF vars, shellVars, workerVars, credVars
<1> QED BY <1>1, <1>2, <1>3, <1>4, <1>5, <1>6 DEF Next

\* A session begins with nothing announced, handed out or on its way.
LEMMA CameraInitially == Init => CameraInv
<1> SUFFICES ASSUME Init PROVE CameraInv
  OBVIOUS
<1>1. /\ bridge \in Bridge /\ bridge.lifecycle = "deactivated" /\ ~bridge.advertised
      /\ bridge.retired = 0 /\ bridge.nextToken = 0 /\ bridge.device.token = 0
      /\ ~bridge.credit /\ bridge.armed = 0 /\ bridge.gen = 0
  <2>1. bridge = [EmptyBridge EXCEPT !.negotiated = TRUE, !.enumChannel = 1]
    BY DEF Init
  <2>2. EmptyBridge \in Bridge
    <3>1. NoDevice \in Device /\ 0 \in 0..MaxPending
      BY MaxPendingAssumption DEF NoDevice, Device, NoChannel
    <3> QED BY <3>1 DEF EmptyBridge, Bridge, NoChannel
  <2>3. bridge \in Bridge
    BY <2>1, <2>2, ServerChannelAssumption DEF Bridge
  <2>4. /\ bridge.lifecycle = EmptyBridge.lifecycle /\ bridge.advertised = EmptyBridge.advertised
        /\ bridge.retired = EmptyBridge.retired /\ bridge.nextToken = EmptyBridge.nextToken
        /\ bridge.device = EmptyBridge.device /\ bridge.credit = EmptyBridge.credit
        /\ bridge.armed = EmptyBridge.armed /\ bridge.gen = EmptyBridge.gen
    BY <2>1, <2>2 DEF Bridge
  <2> QED BY <2>3, <2>4 DEF EmptyBridge, NoDevice
<1>2. /\ mbox \in Mailbox /\ mbox.camera.kind = "none" /\ mbox.camera.gen = 0
      /\ held \in Submission /\ held.kind = "none" /\ held.gen = 0
      /\ call \in Callback /\ call.kind = "none" /\ call = NoCall
      /\ slot \in [streaming: BOOLEAN, gen: Nat, credit: 0..1] /\ slot.gen = 0
      /\ worker = "idle"
  <2>1. NoSubmission \in Submission /\ NoSubmission.kind = "none" /\ NoSubmission.gen = 0
    BY DEF NoSubmission, Submission
  <2>2. EmptyMailbox \in Mailbox /\ EmptyMailbox.camera = NoSubmission
    BY <2>1 DEF EmptyMailbox, Mailbox
  <2> QED BY <2>1, <2>2 DEF Init, NoCall, Callback
<1>3. CreditTypes
  BY <1>1, <1>2 DEF CreditTypes
<1>4. BridgeSound(bridge) /\ ~Streaming(bridge)
  BY <1>1 DEF BridgeSound, Active, Streaming
<1>5. NoneAhead /\ CallSound /\ HeldSound /\ OneCredit
  BY <1>1, <1>2, <1>4 DEF NoneAhead, CallSound, HeldSound, OneCredit
<1>6. ShellTypes
  BY DEF Init, ShellTypes
<1> QED BY <1>3, <1>4, <1>5, <1>6 DEF CreditInv, CameraInv

\* The types of the invariant are those of the module.
LEMMA TypesTogether == CreditTypes /\ ShellTypes => TypeOK
  BY DEF CreditTypes, ShellTypes, TypeOK

\* The camera's half on its own: between the worker, the camera worker and the SDL thread,
\* a credit is never lost, doubled or answered twice.
THEOREM CreditKept == Spec => []CreditInOnePlace
<1>1. CameraInv /\ [Next]_vars => CameraInv'
  BY CreditStep, ShellStep DEF CameraInv, CreditInv
<1>2. CameraInv => CreditInOnePlace
  BY OnePlace DEF CameraInv
<1> QED BY CameraInitially, <1>1, <1>2, PTL DEF Spec

-----------------------------------------------------------------------------
(* The inductive invariant of the microphone *)

MicTypes ==
    /\ redirect \in Profiles /\ session \in Nat /\ slotGen \in Nat
    /\ life \in {"starting", "attached", "detaching", "joining", "gone"}
    /\ link \in [state: {"connecting", "active", "ended"}, count: Nat]
    /\ peer \in [channel: BOOLEAN, stream: BOOLEAN]
    /\ rdpeai \in [channel: BOOLEAN, open: BOOLEAN, gen: Nat]
    /\ micSlot \in [streaming: BOOLEAN, gen: Nat]
    /\ micCalls \in Seq(Callback)
    /\ mic \in [at: {"look", "read", "push"}, stream: [slot: Nat, gen: Nat],
                read: Sounds, part: Sounds]
    /\ heldAudio \in Seq(Packets) /\ micWire \in Packets

\* A profile without a camera has no camera to lose; a session that has gone has left
\* nothing in its worker's hands, and no stream in the slot.
LifeSound ==
    /\ "camera" \notin redirect => ~Active(bridge)
    /\ life # "attached" => "camera" \notin redirect
    /\ life = "gone" => /\ MicIdle /\ worker = "idle"
                        /\ link.state = "ended" /\ ~micSlot.streaming

\* The slot and the callbacks know no stream that the session has not begun.
StreamSound ==
    /\ micSlot.streaming => micSlot.gen <= rdpeai.gen
    /\ \A i \in 1..Len(micCalls) : micCalls[i].gen <= rdpeai.gen

\* Sound of session s that was recorded while one of its streams ran that is no older than
\* the packet's and no newer than g.
RecordedFor(sub, since, s, g) ==
    since.session = s /\ sub.gen <= since.gen /\ since.gen <= g

\* What the worker has in hand for the slot as it is now was recorded for its session.
MicSound ==
    /\ mic.stream.slot <= slotGen /\ slotGen > 0
    /\ mic.at # "look" => mic.stream # NoStream
    /\ life \in {"joining", "gone"} => mic.stream.slot < slotGen
    /\ mic.stream.slot = slotGen =>
         /\ mic.stream.gen <= rdpeai.gen
         /\ mic.at = "push" => RecordedFor(mic.stream, mic.read, session, rdpeai.gen)
         /\ mic.part # NoSound => RecordedFor(mic.stream, mic.part, session, rdpeai.gen)

\* The sounds of the packets in the mailbox.
Paired(audio, sounds, s, g) ==
    /\ sounds \in Seq(Sounds) /\ Len(sounds) = Len(audio)
    /\ \A i \in 1..Len(sounds) : RecordedFor(audio[i], sounds[i], s, g)

AllRecorded(packets, s, g) ==
    \A i \in 1..Len(packets) : RecordedFor(packets[i].sub, packets[i].since, s, g)

PacketsSound ==
    /\ Paired(mbox.audio, sound, session, rdpeai.gen)
    /\ AllRecorded(heldAudio, session, rdpeai.gen)

MicInv ==
    /\ CameraInv /\ MicTypes
    /\ LifeSound /\ StreamSound /\ MicSound /\ PacketsSound /\ MicIsOwn

-----------------------------------------------------------------------------
(* The packets in the mailbox, and what the camera does to them *)

\* A gate that moves drops the packets and begins an epoch; nothing else in the mailbox does.
LEMMA MailboxAudio ==
    ASSUME NEW m \in Mailbox
    PROVE  /\ \A active \in BOOLEAN :
                LET n == SetCaptureActive(m, active) IN
                IF m.active = active THEN n = m ELSE n.audio = <<>> /\ n.epoch = m.epoch + 1
           /\ ReleasePermit(m).audio = m.audio
           /\ \A g \in Nat : EnqueueCameraError(m, g).audio = m.audio
           /\ \A g \in Nat : EnqueueCameraError(m, g).epoch = m.epoch
           /\ \A g \in Nat : EnqueueCameraH264(m, g).audio = m.audio
           /\ \A sub : AfterPrepareAudio(m, sub).audio = m.audio
           /\ \A sub : AfterPrepareCamera(m, sub).audio = m.audio
           /\ DiscardCamera(m).audio = m.audio
           /\ TakePending(m).audio = <<>>
<1>1. \A active \in BOOLEAN :
          LET n == SetCaptureActive(m, active) IN
          IF m.active = active THEN n = m ELSE n.audio = <<>> /\ n.epoch = m.epoch + 1
  BY DEF SetCaptureActive
<1>2. /\ ReleasePermit(m).audio = m.audio
      /\ DiscardCamera(m).audio = m.audio
      /\ TakePending(m).audio = <<>>
  BY DEF ReleasePermit, DiscardCamera, TakePending, Mailbox
<1>3. ASSUME NEW g \in Nat
      PROVE  /\ EnqueueCameraError(m, g).audio = m.audio
             /\ EnqueueCameraError(m, g).epoch = m.epoch
             /\ EnqueueCameraH264(m, g).audio = m.audio
  BY DEF EnqueueCameraError, EnqueueCameraH264, Mailbox
<1>4. ASSUME NEW sub
      PROVE  /\ AfterPrepareAudio(m, sub).audio = m.audio
             /\ AfterPrepareCamera(m, sub).audio = m.audio
  BY DEF AfterPrepareAudio, AfterPrepareCamera, Mailbox
<1> QED BY <1>1, <1>2, <1>3, <1>4

\* An answer that the camera owes moves no packet.
LEMMA FailCreditLeavesAudio ==
    ASSUME CreditTypes, NEW g, FailCredit(g)
    PROVE  mbox'.audio = mbox.audio /\ mbox'.epoch = mbox.epoch
<1>1. mbox \in Mailbox /\ slot.gen \in Nat
  BY Numbers DEF CreditTypes
<1>2. CASE HasCredit(g) /\ CanEnqueueCamera(mbox)
  <2>1. g \in Nat
    BY <1>1, <1>2 DEF HasCredit
  <2> QED BY <1>1, <1>2, <2>1, MailboxAudio DEF FailCredit
<1>3. CASE ~(HasCredit(g) /\ CanEnqueueCamera(mbox))
  BY <1>3 DEF FailCredit
<1> QED BY <1>2, <1>3

\* The camera's own steps move no packet.
LEMMA CameraLeavesAudio ==
    ASSUME CreditTypes,
           \/ Invoke \/ ServerStep \/ CameraStep
           \/ Reconcile \/ Discard \/ Prepare \/ Written \/ Notify
    PROVE  mbox'.audio = mbox.audio
<1>1. mbox \in Mailbox /\ slot.gen \in Nat
  BY Numbers DEF CreditTypes
<1>2. CASE Invoke
  <2>1. CASE InvokeStart
    BY <1>1, <2>1, MailboxAudio DEF InvokeStart
  <2>2. CASE InvokeStop \/ InvokeSampleRequest
    BY <2>2 DEF InvokeStop, InvokeSampleRequest
  <2> QED BY <1>2, <2>1, <2>2 DEF Invoke
<1>3. CASE ServerStep \/ Reconcile \/ Notify
  BY <1>3 DEF ServerStep, OpenDevice, StartStreamsRequest, StopStreamsRequest,
              SampleRequestStep, Reconcile, Notify
<1>4. CASE Discard
  BY <1>1, <1>4, MailboxAudio DEF Discard
<1>5. CASE Prepare
  <2>1. mbox' = AfterPrepareCamera(mbox, held)
    BY <1>5 DEF Prepare
  <2> QED BY <1>1, <2>1, MailboxAudio
<1>6. CASE Written
  BY <1>1, <1>6, MailboxAudio DEF Written
<1>7. CASE CameraStep
  <2>1. CASE Retarget
    <3>1. FailCredit(target.gen) \/ UNCHANGED <<mbox, slot>>
      BY <2>1 DEF Retarget
    <3> QED BY <3>1, FailCreditLeavesAudio
  <2>2. CASE SubmitQueued
    <3>1. mbox' = EnqueueCameraH264(mbox, slot.gen)
      BY <2>2 DEF SubmitQueued, HasCredit
    <3> QED BY <1>1, <3>1, MailboxAudio
  <2>3. CASE GiveUpFrame
    BY <2>3, FailCreditLeavesAudio DEF GiveUpFrame
  <2>4. CASE \E present \in BOOLEAN : DevicePresence(present)
    BY <2>4 DEF DevicePresence
  <2> QED BY <1>7, <2>1, <2>2, <2>3, <2>4 DEF CameraStep, CameraAnswers
<1> QED BY <1>2, <1>3, <1>4, <1>5, <1>6, <1>7

\* A move of the foreground drops the packets exactly when it begins an epoch.
LEMMA UiDropsAudio ==
    ASSUME CreditTypes, UiStep
    PROVE  mbox'.audio = IF mbox'.epoch = mbox.epoch THEN mbox.audio ELSE <<>>
<1>1. mbox \in Mailbox /\ mbox.epoch \in Nat
  BY DEF CreditTypes, Mailbox
<1>2. CASE LeaveForeground
  BY <1>2, FailCreditLeavesAudio DEF LeaveForeground
<1>3. CASE CloseGate \/ EnterForeground
  <2>1. PICK active \in BOOLEAN : mbox' = SetCaptureActive(mbox, active)
    BY <1>3 DEF CloseGate, EnterForeground
  <2>2. IF mbox.active = active THEN mbox' = mbox
        ELSE mbox'.audio = <<>> /\ mbox'.epoch = mbox.epoch + 1
    BY <1>1, <2>1, MailboxAudio
  <2> QED BY <1>1, <2>2
<1>4. CASE GateClosed \/ PublishDevice
  BY <1>4 DEF GateClosed, PublishDevice
<1> QED BY <1>2, <1>3, <1>4 DEF UiStep

\* drain_media announces a device or withdraws it: it never activates one.
LEMMA DrainActivatesNothing ==
    ASSUME CreditInv, ShellTypes, DrainMedia
    PROVE  Active(bridge') => Active(bridge)
<1>1. bridge \in Bridge /\ BridgeSound(bridge) /\ held.gen \in Nat /\ desired \in BOOLEAN
  BY Numbers DEF CreditInv, CreditTypes, ShellTypes
<1>2. CASE Reconcile
  <2>1. bridge' = SetAvailable(bridge, desired)
    BY <1>2 DEF Reconcile, Handler
  <2>2. CASE bridge.available = desired
    BY <2>1, <2>2 DEF SetAvailable
  <2>3. CASE bridge.available # desired
    BY <1>1, <2>1, <2>3, SetAvailableEnds
  <2> QED BY <2>2, <2>3
<1>3. CASE Prepare
  <2> DEFINE out == CameraToSend(mbox, held)
  <2>1. bridge' = IF out.kind # "none" /\ MayAnswer(bridge, out.gen)
                  THEN Answer(bridge, out.gen) ELSE bridge
    BY <1>3 DEF Prepare
  <2>2. MayAnswer(bridge, out.gen) => out.gen \in Nat
    BY <1>1 DEF MayAnswer, Bridge
  <2> HIDE DEF out
  <2>3. MayAnswer(bridge, out.gen) => Answer(bridge, out.gen).lifecycle = bridge.lifecycle
    BY <1>1, <2>2, AnswerFields
  <2> QED BY <2>1, <2>3 DEF Active
<1>4. CASE Notify
  <2>1. bridge' = NextCreditTaken(bridge) \/ bridge' = bridge
    BY <1>4 DEF Notify, Handler
  <2> QED BY <1>1, <2>1 DEF NextCreditTaken, Active, Bridge
<1>5. CASE Discard \/ Take \/ Written
  BY <1>5 DEF Discard, Take, Written
<1> QED BY <1>2, <1>3, <1>4, <1>5 DEF DrainMedia

-----------------------------------------------------------------------------
(* The steps of Microphone: the camera's half *)

\* The camera's half of a session that also has a microphone.
CameraHalf ==
    \/ MoveForeground \/ CameraRuns \/ CameraRequest \/ CameraInvoke
    \/ BeginDrain \/ DrainCamera \/ DrainTakes

\* Steps that nothing of the camera's is changed by.
MicAlone ==
    \/ DropPacket \/ StartChannel \/ OpenStream \/ CloseChannel \/ Handoff
    \/ MicInvoke \/ Connect \/ Joined
    \/ MicLooks \/ MicReads \/ MicReadsNothing \/ MicBeginsPacket

\* Steps on the mailbox that both share.
MicShares ==
    \/ SendPacket \/ PacketWritten \/ PacketFails \/ Detach \/ Attach \/ MicFillsPacket

\* All there is.
LEMMA MicSteps ==
    MicNext => \/ CameraHalf \/ MicAlone \/ MicShares
               \/ MoveForegroundGone \/ Detached \/ StartSession
  BY DEF MicNext, Camera, SendPackets, Serve, SessionStep, MicStep,
         CameraHalf, MicAlone, MicShares

\* The camera's half takes a step of CameraCredit.
LEMMA CameraHalfSteps == CameraHalf => Next
  BY DEF CameraHalf, Next, MoveForeground, CameraRuns, CameraRequest, CameraInvoke,
         BeginDrain, DrainCamera, DrainTakes, DrainMedia

\* The microphone's own steps take none.
LEMMA MicAloneStutters == MicAlone => UNCHANGED vars
  BY DEF MicAlone, DropPacket, StartChannel, OpenStream, CloseChannel, Handoff, MicInvoke, Connect,
         Joined, MicLooks, MicReads, MicReadsNothing, MicBeginsPacket

\* The steps on the shared mailbox leave the camera's answer in it.
LEMMA MicSharesFields ==
    ASSUME CreditTypes, ShellTypes, MicTypes, MicShares
    PROVE  /\ mbox' \in Mailbox /\ SameAnswer(mbox', mbox)
           /\ UNCHANGED <<bridge, slot, call, held, worker>>
           /\ UNCHANGED <<desired, foreground, physical, owner, target, ui>>
           /\ lock' = lock \/ lock' = TRUE
<1>1. mbox \in Mailbox
  BY DEF CreditTypes
<1>2. CASE SendPacket
  <2>1. heldAudio # <<>> /\ heldAudio \in Seq(Packets)
    BY <1>2 DEF SendPacket, AtPackets, MicTypes
  <2>2. Packet \in Packets
    BY <2>1 DEF Packet
  <2>3. Packet.sub \in AudioSubmission
    BY <2>2 DEF Packets, AudioSubmission
  <2> QED BY <1>1, <1>2, <2>3, MailboxKeepsAnswer DEF SendPacket, shellVars, uiVars, workerVars
<1>3. CASE PacketWritten \/ PacketFails
  BY <1>1, <1>3, MailboxKeepsAnswer DEF PacketWritten, PacketFails, shellVars, uiVars, workerVars
<1>4. CASE Detach
  BY <1>1, <1>4, MailboxKeepsAnswer DEF Detach, shellVars, workerVars
<1>5. CASE Attach
  <2>1. foreground \in BOOLEAN
    BY DEF ShellTypes
  <2> QED BY <1>1, <1>5, <2>1, MailboxKeepsAnswer DEF Attach, shellVars, uiVars, workerVars
<1>6. CASE MicFillsPacket
  <2>1. mic.stream.gen \in Nat
    <3>1. mic.stream \in [slot: Nat, gen: Nat]
      BY DEF MicTypes
    <3> QED BY <3>1
  <2>2. mbox' = EnqueueAudio(mbox, mic.stream.gen) \/ mbox' = mbox
    BY <1>6 DEF MicFillsPacket
  <2>3. mbox' \in Mailbox /\ SameAnswer(mbox', mbox)
    BY <1>1, <2>1, <2>2, MailboxKeepsAnswer DEF SameAnswer
  <2> QED BY <1>6, <2>3 DEF MicFillsPacket, shellVars, uiVars, workerVars
<1> QED BY <1>2, <1>3, <1>4, <1>5, <1>6 DEF MicShares

\* A session that begins in the slot has a mailbox of its own, and no camera is open that
\* could miss an answer in the old one.
LEMMA StartSessionKeepsCredit ==
    ASSUME CameraInv, LifeSound, StartSession
    PROVE  CameraInv'
<1>1. /\ CreditTypes /\ BridgeSound(bridge) /\ NoneAhead /\ CallSound /\ HeldSound
      /\ bridge.gen \in Nat
  BY Numbers DEF CameraInv, CreditInv
<1>2. ~Active(bridge) /\ life = "gone"
  BY DEF LifeSound, StartSession
<1>3. ~Streaming(bridge)
  BY <1>2 DEF Active, Streaming
<1>4. mbox' \in Mailbox /\ mbox'.camera.gen = 0
  <2>1. NoSubmission \in Submission /\ NoSubmission.gen = 0
    BY DEF NoSubmission, Submission
  <2>2. EmptyMailbox \in Mailbox /\ EmptyMailbox.camera = NoSubmission
    BY <2>1 DEF EmptyMailbox, Mailbox
  <2> QED BY <2>1, <2>2 DEF StartSession
<1>5. UNCHANGED <<bridge, slot, worker, call, held, desired, foreground, physical, owner, target,
                  lock, ui>>
  BY DEF StartSession, shellVars, uiVars, workerVars
<1>6. CreditTypes' /\ ShellTypes'
  BY <1>1, <1>4, <1>5 DEF CreditTypes, ShellTypes, CameraInv
<1>7. NoneAhead' /\ CallSound' /\ HeldSound' /\ OneCredit' /\ BridgeSound(bridge)'
  BY <1>1, <1>3, <1>4, <1>5 DEF NoneAhead, CallSound, HeldSound, OneCredit
<1> QED BY <1>6, <1>7 DEF CameraInv, CreditInv

\* Every step of Microphone keeps every credit in its one place.
LEMMA MicKeepsCredit ==
    ASSUME CameraInv, MicTypes, LifeSound, MicNext
    PROVE  CameraInv'
<1>1. CreditInv /\ ShellTypes /\ CreditTypes
  BY DEF CameraInv, CreditInv
<1>2. CASE CameraHalf
  BY <1>1, <1>2, CameraHalfSteps, CreditStep, ShellStep DEF CameraInv
<1>3. CASE MicAlone
  BY <1>1, <1>3, MicAloneStutters, CreditStep, ShellStep DEF CameraInv
<1>4. CASE MicShares
  <2>1. CreditInv'
    BY <1>1, <1>4, MicSharesFields, GateKeepsCredit
  <2>2. ShellTypes'
    BY <1>1, <1>4, MicSharesFields DEF ShellTypes
  <2> QED BY <2>1, <2>2 DEF CameraInv
<1>5. CASE MoveForegroundGone
  <2>1. CreditInv'
    BY <1>1, <1>5, CreditStutters DEF MoveForegroundGone, workerVars, credVars
  <2>2. /\ foreground' \in BOOLEAN /\ owner' = owner + 1
        /\ UNCHANGED <<desired, physical, lock, target, ui>>
    BY <1>5 DEF MoveForegroundGone, uiVars
  <2>3. ShellTypes'
    BY <1>1, <2>2 DEF ShellTypes
  <2> QED BY <2>1, <2>3 DEF CameraInv
<1>6. CASE Detached
  <2>1. CreditInv'
    BY <1>1, <1>6, CreditStutters DEF Detached, shellVars, workerVars, credVars
  <2>2. lock' \in BOOLEAN /\ UNCHANGED <<desired, foreground, physical, owner, target, ui>>
    BY <1>6 DEF Detached, shellVars
  <2>3. ShellTypes'
    BY <1>1, <2>2 DEF ShellTypes
  <2> QED BY <2>1, <2>3 DEF CameraInv
<1>7. CASE StartSession
  BY <1>7, StartSessionKeepsCredit
<1> QED BY <1>2, <1>3, <1>4, <1>5, <1>6, <1>7, MicSteps

-----------------------------------------------------------------------------
(* The steps of Microphone: the packets *)

\* What was recorded in time for a stream stays so while the session lasts.
LEMMA StillRecorded ==
    ASSUME NEW s, NEW g \in Nat, NEW h \in Nat, g <= h
    PROVE  /\ \A sub, since : since \in Sounds /\ RecordedFor(sub, since, s, g)
                                 => RecordedFor(sub, since, s, h)
           /\ \A audio, sounds : Paired(audio, sounds, s, g) => Paired(audio, sounds, s, h)
           /\ \A packets \in Seq(Packets) : AllRecorded(packets, s, g) => AllRecorded(packets, s, h)
<1>1. \A sub, since : since \in Sounds /\ RecordedFor(sub, since, s, g)
                         => RecordedFor(sub, since, s, h)
  BY DEF Sounds, RecordedFor
<1>2. ASSUME NEW audio, NEW sounds, Paired(audio, sounds, s, g)
      PROVE  Paired(audio, sounds, s, h)
  <2>1. sounds \in Seq(Sounds) /\ Len(sounds) = Len(audio)
    BY <1>2 DEF Paired
  <2>2. \A i \in 1..Len(sounds) : sounds[i] \in Sounds
    BY <2>1
  <2> QED BY <1>1, <1>2, <2>1, <2>2 DEF Paired
<1>3. ASSUME NEW packets \in Seq(Packets), AllRecorded(packets, s, g)
      PROVE  AllRecorded(packets, s, h)
  <2>1. \A i \in 1..Len(packets) : packets[i].since \in Sounds
    <3>1. \A i \in 1..Len(packets) : packets[i] \in Packets
      OBVIOUS
    <3> QED BY <3>1 DEF Packets
  <2> QED BY <1>1, <1>3, <2>1 DEF AllRecorded
<1> QED BY <1>1, <1>2, <1>3

\* What is left of a queue without its oldest entry.
LEMMA TailFields ==
    ASSUME NEW S, NEW q \in Seq(S), q # <<>>
    PROVE  /\ Tail(q) \in Seq(S) /\ Len(Tail(q)) = Len(q) - 1
           /\ \A i \in 1..(Len(q) - 1) : Tail(q)[i] = q[i + 1]
  OBVIOUS

\* The packets behind the first are the packets that were there.
LEMMA TailRecorded ==
    ASSUME NEW packets \in Seq(Packets), packets # <<>>, NEW s, NEW g,
           AllRecorded(packets, s, g)
    PROVE  /\ Tail(packets) \in Seq(Packets) /\ AllRecorded(Tail(packets), s, g)
           /\ Head(packets) \in Packets
           /\ RecordedFor(Head(packets).sub, Head(packets).since, s, g)
<1>1. Len(packets) \in Nat /\ Len(packets) > 0 /\ Head(packets) = packets[1]
  OBVIOUS
<1>2. /\ Tail(packets) \in Seq(Packets) /\ Len(Tail(packets)) = Len(packets) - 1
      /\ \A i \in 1..Len(Tail(packets)) : Tail(packets)[i] = packets[i + 1]
  OBVIOUS
<1>3. \A i \in 1..Len(Tail(packets)) : i + 1 \in 1..Len(packets)
  BY <1>1, <1>2
<1>4. AllRecorded(Tail(packets), s, g)
  BY <1>2, <1>3 DEF AllRecorded
<1> QED BY <1>1, <1>2, <1>4 DEF AllRecorded

\* No packets, no sounds.
LEMMA NothingRecorded ==
    ASSUME NEW s, NEW g
    PROVE  Paired(<<>>, <<>>, s, g) /\ AllRecorded(<<>>, s, g)
  BY DEF Paired, AllRecorded

\* try_enqueue_audio_pcm: a full queue loses its oldest packet, and its sound with it.
LEMMA AppendPaired ==
    ASSUME NEW audio \in Seq(AudioSubmission), NEW sounds, NEW s, NEW g,
           Paired(audio, sounds, s, g),
           NEW sub \in AudioSubmission, NEW since \in Sounds, RecordedFor(sub, since, s, g)
    PROVE  Paired(Append(IF Len(audio) = QueueDepth THEN Tail(audio) ELSE audio, sub),
                  Append(IF Len(sounds) = QueueDepth THEN Tail(sounds) ELSE sounds, since), s, g)
<1>1. sounds \in Seq(Sounds) /\ Len(sounds) = Len(audio) /\ QueueDepth \in Nat /\ QueueDepth > 0
  BY QueueDepthAssumption DEF Paired
<1>2. ASSUME NEW a \in Seq(AudioSubmission), NEW q, Paired(a, q, s, g)
      PROVE  Paired(Append(a, sub), Append(q, since), s, g)
  <2>1. q \in Seq(Sounds) /\ Len(q) = Len(a) /\ Len(q) \in Nat
    BY <1>2 DEF Paired
  <2>2. /\ Append(q, since) \in Seq(Sounds) /\ Len(Append(q, since)) = Len(q) + 1
        /\ Len(Append(a, sub)) = Len(q) + 1
        /\ Append(q, since)[Len(q) + 1] = since /\ Append(a, sub)[Len(q) + 1] = sub
        /\ \A i \in 1..Len(q) : Append(q, since)[i] = q[i] /\ Append(a, sub)[i] = a[i]
    BY <2>1
  <2>3. \A i \in 1..(Len(q) + 1) : i \in 1..Len(q) \/ i = Len(q) + 1
    BY <2>1
  <2>4. \A i \in 1..Len(q) : RecordedFor(a[i], q[i], s, g)
    BY <1>2 DEF Paired
  <2>5. \A i \in 1..(Len(q) + 1) : RecordedFor(Append(a, sub)[i], Append(q, since)[i], s, g)
    BY <2>2, <2>3, <2>4
  <2> QED BY <2>2, <2>5 DEF Paired
<1>3. CASE Len(sounds) = QueueDepth
  <2>1. /\ Tail(audio) \in Seq(AudioSubmission) /\ Tail(sounds) \in Seq(Sounds)
        /\ Len(Tail(audio)) = Len(audio) - 1 /\ Len(Tail(sounds)) = Len(audio) - 1
        /\ \A i \in 1..(Len(audio) - 1) :
              Tail(audio)[i] = audio[i + 1] /\ Tail(sounds)[i] = sounds[i + 1]
    <3>1. audio # <<>> /\ sounds # <<>> /\ Len(audio) \in Nat
      <4>1. Len(audio) # 0 /\ Len(sounds) # 0 /\ Len(<<>>) = 0
        BY <1>1, <1>3
      <4> QED BY <4>1
    <3>2. /\ Tail(audio) \in Seq(AudioSubmission) /\ Len(Tail(audio)) = Len(audio) - 1
          /\ \A i \in 1..(Len(audio) - 1) : Tail(audio)[i] = audio[i + 1]
      BY <3>1
    <3>3. /\ Tail(sounds) \in Seq(Sounds) /\ Len(Tail(sounds)) = Len(sounds) - 1
          /\ \A i \in 1..(Len(sounds) - 1) : Tail(sounds)[i] = sounds[i + 1]
      <4>1. sounds \in Seq(Sounds) /\ sounds # <<>>
        BY <1>1, <3>1
      <4> QED BY <4>1, TailFields
    <3> QED BY <1>1, <3>2, <3>3
  <2>2. \A i \in 1..(Len(audio) - 1) : i + 1 \in 1..Len(sounds)
    BY <1>1, <1>3
  <2>3. \A i \in 1..Len(sounds) : RecordedFor(audio[i], sounds[i], s, g)
    BY DEF Paired
  <2>4. Paired(Tail(audio), Tail(sounds), s, g)
    BY <2>1, <2>2, <2>3 DEF Paired
  <2> QED BY <1>1, <1>2, <1>3, <2>1, <2>4
<1>4. CASE Len(sounds) # QueueDepth
  BY <1>1, <1>2, <1>4
<1> QED BY <1>3, <1>4

-----------------------------------------------------------------------------
(* The steps of Microphone: types, sessions and streams *)

\* The batch: each packet of the mailbox with its sound.
LEMMA BatchFields ==
    ASSUME NEW audio \in Seq(AudioSubmission), NEW sounds, NEW s, NEW g,
           Paired(audio, sounds, s, g)
    PROVE  LET batch == [i \in DOMAIN audio |-> [sub |-> audio[i], since |-> sounds[i]]]
           IN  batch \in Seq(Packets) /\ AllRecorded(batch, s, g)
<1> DEFINE batch == [i \in 1..Len(audio) |-> [sub |-> audio[i], since |-> sounds[i]]]
<1>1. /\ sounds \in Seq(Sounds) /\ Len(sounds) = Len(audio) /\ Len(audio) \in Nat
      /\ \A i \in 1..Len(audio) : RecordedFor(audio[i], sounds[i], s, g)
  BY DEF Paired
<1>2. DOMAIN audio = 1..Len(audio)
  OBVIOUS
<1>3. ASSUME NEW i \in 1..Len(audio)
      PROVE  /\ [sub |-> audio[i], since |-> sounds[i]] \in Packets
             /\ batch[i].sub = audio[i] /\ batch[i].since = sounds[i]
  <2>1. audio[i] \in AudioSubmission /\ sounds[i] \in Sounds
    BY <1>1
  <2> QED BY <2>1 DEF Packets, AudioSubmission
<1>4. batch \in Seq(Packets) /\ Len(batch) = Len(audio)
  <2>1. batch \in [1..Len(audio) -> Packets]
    BY <1>3
  <2> QED BY <1>1, <2>1
<1>5. AllRecorded(batch, s, g)
  BY <1>1, <1>3, <1>4 DEF AllRecorded
<1> QED BY <1>2, <1>4, <1>5

\* The types of the microphone's half.
LEMMA MicTypesKept ==
    ASSUME CameraInv, MicTypes, PacketsSound, MicNext
    PROVE  MicTypes'
<1>1. CASE MoveForeground \/ CameraRuns \/ CameraRequest \/ CameraInvoke \/ BeginDrain \/ DrainCamera
  BY <1>1 DEF MoveForeground, CameraRuns, CameraRequest, CameraInvoke, BeginDrain, DrainCamera,
              MicTypes, micVars, sessionVars
<1>2. CASE DrainTakes
  <2>1. mbox.audio \in Seq(AudioSubmission)
    BY DEF CameraInv, CreditInv, CreditTypes, Mailbox
  <2>2. heldAudio' \in Seq(Packets)
    BY <1>2, <2>1, BatchFields DEF DrainTakes, PacketsSound
  <2> QED BY <1>2, <2>2 DEF DrainTakes, MicTypes, sessionVars
<1>3. CASE SendPacket \/ DropPacket
  <2>1. heldAudio # <<>> /\ heldAudio' = Tail(heldAudio) /\ (micWire' = Packet \/ micWire' = micWire)
    BY <1>3 DEF SendPacket, DropPacket, AtPackets
  <2>2. heldAudio' \in Seq(Packets) /\ Packet \in Packets
    BY <2>1, TailFields DEF MicTypes, Packet
  <2>3. micWire' \in Packets
    BY <2>1, <2>2 DEF MicTypes
  <2>4. UNCHANGED <<redirect, life, session, slotGen, link, peer, rdpeai, micSlot, micCalls, mic>>
    BY <1>3 DEF SendPacket, DropPacket, sessionVars
  <2> QED BY <2>2, <2>3, <2>4 DEF MicTypes
<1>4. CASE PacketWritten \/ PacketFails
  <2>1. NoPacket \in Packets /\ <<>> \in Seq(Packets)
    BY DEF NoPacket, NoSound, Packets, Sounds
  <2>2. micWire' \in Packets /\ heldAudio' \in Seq(Packets)
    BY <1>4, <2>1 DEF PacketWritten, PacketFails, MicTypes
  <2>3. /\ UNCHANGED <<redirect, life, session, slotGen, peer, rdpeai, micSlot, micCalls, mic>>
        /\ link' \in [state: {"connecting", "active", "ended"}, count: Nat]
    BY <1>4 DEF PacketWritten, PacketFails, MicTypes, sessionVars
  <2> QED BY <2>2, <2>3 DEF MicTypes
<1>5. CASE StartChannel
  BY <1>5 DEF StartChannel, MicTypes
<1>6. CASE OpenStream \/ CloseChannel
  <2>1. rdpeai.gen \in Nat /\ rdpeai.gen + 1 \in Nat
    BY DEF MicTypes
  <2>2. /\ rdpeai' \in [channel: BOOLEAN, open: BOOLEAN, gen: Nat]
        /\ peer' \in [channel: BOOLEAN, stream: BOOLEAN]
    <3> DEFINE g == IF rdpeai.open THEN rdpeai.gen + 1 ELSE rdpeai.gen
    <3>1. g \in Nat /\ peer \in [channel: BOOLEAN, stream: BOOLEAN]
      BY <2>1 DEF MicTypes
    <3>2. CASE OpenStream
      <4>1. /\ rdpeai' = [channel |-> TRUE, open |-> TRUE, gen |-> rdpeai.gen + 1]
            /\ peer' = [peer EXCEPT !.stream = TRUE]
        BY <3>2 DEF OpenStream
      <4> QED BY <2>1, <3>1, <4>1
    <3>3. CASE CloseChannel
      <4>1. rdpeai' = [channel |-> FALSE, open |-> FALSE, gen |-> g] /\ peer' = NoPeer
        BY <3>3 DEF CloseChannel
      <4> HIDE DEF g
      <4> QED BY <3>1, <4>1 DEF NoPeer
    <3> QED BY <1>6, <3>2, <3>3
  <2>3. /\ Call("stop", rdpeai.gen) \in Callback /\ Call("start", rdpeai.gen + 1) \in Callback
    BY <2>1 DEF Call, Callback
  <2>4. micCalls' \in Seq(Callback)
    <3> DEFINE stop == Call("stop", rdpeai.gen)
               start == Call("start", rdpeai.gen + 1)
    <3>1. \/ micCalls' = <<stop, start>> \/ micCalls' = <<start>>
          \/ micCalls' = <<stop>> \/ micCalls' = <<>>
      BY <1>6 DEF OpenStream, CloseChannel
    <3> HIDE DEF stop, start
    <3>2. stop \in Callback /\ start \in Callback
      BY <2>3 DEF stop, start
    <3>3. <<stop, start>> \in Seq(Callback)
      BY <3>2
    <3>4. <<start>> \in Seq(Callback) /\ <<stop>> \in Seq(Callback) /\ <<>> \in Seq(Callback)
      BY <3>2
    <3> QED BY <3>1, <3>3, <3>4
  <2>5. UNCHANGED <<redirect, life, session, slotGen, link, micSlot, mic, heldAudio, micWire>>
    BY <1>6 DEF OpenStream, CloseChannel
  <2> QED BY <2>2, <2>4, <2>5 DEF MicTypes
<1>7. CASE MicInvoke
  <2>1. micCalls # <<>> /\ micCalls \in Seq(Callback)
    BY <1>7 DEF MicInvoke, MicTypes
  <2>2. micCalls' \in Seq(Callback) /\ Head(micCalls) \in Callback
    BY <1>7, <2>1, TailFields DEF MicInvoke
  <2>3. Head(micCalls).gen \in Nat
    BY <2>2 DEF Callback
  <2>4. micSlot' \in [streaming: BOOLEAN, gen: Nat]
    BY <1>7, <2>3 DEF MicInvoke, MicTypes
  <2>5. UNCHANGED <<redirect, life, session, slotGen, link, peer, rdpeai, mic, heldAudio, micWire>>
    BY <1>7 DEF MicInvoke, sessionVars
  <2> QED BY <2>2, <2>4, <2>5 DEF MicTypes
<1>8. CASE Handoff \/ Connect
  <2>1. /\ link' \in [state: {"connecting", "active", "ended"}, count: Nat]
        /\ peer' \in [channel: BOOLEAN, stream: BOOLEAN]
    <3>1. /\ link.count \in Nat /\ link \in [state: {"connecting", "active", "ended"}, count: Nat]
          /\ peer \in [channel: BOOLEAN, stream: BOOLEAN] /\ NoPeer \in [channel: BOOLEAN, stream: BOOLEAN]
      BY DEF MicTypes, NoPeer
    <3>2. \/ link' = [state |-> "connecting", count |-> link.count + 1]
          \/ link' = [link EXCEPT !.state = "active"]
      BY <1>8 DEF Handoff, Connect
    <3>3. peer' = NoPeer \/ peer' = peer
      BY <1>8 DEF Handoff, Connect
    <3>4. link' \in [state: {"connecting", "active", "ended"}, count: Nat]
      BY <3>1, <3>2
    <3> QED BY <3>1, <3>3, <3>4
  <2> QED BY <1>8, <2>1 DEF Handoff, Connect, MicTypes
<1>9. CASE MoveForegroundGone
  BY <1>9 DEF MoveForegroundGone, MicTypes, micVars, sessionVars
<1>10. CASE Detach \/ Detached \/ Joined \/ Attach
  <2>1. /\ life' \in {"starting", "attached", "detaching", "joining", "gone"}
        /\ slotGen' \in Nat /\ micSlot' \in [streaming: BOOLEAN, gen: Nat]
        /\ link' \in [state: {"connecting", "active", "ended"}, count: Nat]
    <3>1. /\ slotGen \in Nat /\ micSlot \in [streaming: BOOLEAN, gen: Nat]
          /\ link \in [state: {"connecting", "active", "ended"}, count: Nat]
      BY DEF MicTypes
    <3>2. life' \in {"starting", "attached", "detaching", "joining", "gone"}
      BY <1>10 DEF Detach, Detached, Joined, Attach
    <3>3. slotGen' = slotGen \/ slotGen' = slotGen + 1
      BY <1>10 DEF Detach, Detached, Joined, Attach
    <3>4. micSlot' = micSlot \/ micSlot' = [micSlot EXCEPT !.streaming = FALSE]
      BY <1>10 DEF Detach, Detached, Joined, Attach
    <3>5. link' = link \/ link' = [link EXCEPT !.state = "ended"]
      BY <1>10 DEF Detach, Detached, Joined, Attach
    <3>6. slotGen' \in Nat
      BY <3>1, <3>3
    <3>7. micSlot' \in [streaming: BOOLEAN, gen: Nat]
      BY <3>1, <3>4
    <3>8. link' \in [state: {"connecting", "active", "ended"}, count: Nat]
      BY <3>1, <3>5
    <3> QED BY <3>2, <3>6, <3>7, <3>8
  <2>2. UNCHANGED <<redirect, session, peer, rdpeai, micCalls, mic, heldAudio, micWire>>
    BY <1>10 DEF Detach, Detached, Joined, Attach
  <2> QED BY <2>1, <2>2 DEF MicTypes
<1>11. CASE StartSession
  <2>1. /\ life' = "starting" /\ session' \in Nat
        /\ link' \in [state: {"connecting", "active", "ended"}, count: Nat]
        /\ peer' \in [channel: BOOLEAN, stream: BOOLEAN]
        /\ rdpeai' \in [channel: BOOLEAN, open: BOOLEAN, gen: Nat]
    BY <1>11 DEF StartSession, MicTypes, NoPeer, NewRdpeai
  <2>2. UNCHANGED <<redirect, slotGen, micSlot, micCalls, mic, heldAudio, micWire>>
    BY <1>11 DEF StartSession
  <2> QED BY <2>1, <2>2 DEF MicTypes
<1>12. CASE MicStep
  <2>1. Wanted \in [slot: Nat, gen: Nat] /\ NoSound \in Sounds
    BY DEF Wanted, NoStream, NoSound, Sounds, MicTypes
  <2>2. [session |-> session, gen |-> rdpeai.gen] \in Sounds
    BY DEF Sounds, MicTypes
  <2>3. IdleMic.read = NoSound /\ IdleMic.part = NoSound
    BY DEF IdleMic
  <2>4. mic' \in [at: {"look", "read", "push"}, stream: [slot: Nat, gen: Nat],
                  read: Sounds, part: Sounds]
    <3>1. CASE MicLooks
      <4> DEFINE a == IF Wanted = NoStream THEN "look" ELSE "read"
      <4>1. a \in {"look", "read", "push"}
        OBVIOUS
      <4>2. mic' = IF mic.stream # Wanted THEN [IdleMic EXCEPT !.stream = Wanted, !.at = a]
                                          ELSE [mic EXCEPT !.at = a]
        BY <3>1 DEF MicLooks
      <4> HIDE DEF a
      <4> QED BY <2>1, <4>1, <4>2 DEF MicTypes, IdleMic
    <3>2. CASE MicReads \/ MicReadsNothing
      BY <2>2, <3>2 DEF MicReads, MicReadsNothing, MicTypes
    <3>3. CASE MicBeginsPacket \/ MicFillsPacket
      BY <2>1, <3>3 DEF MicBeginsPacket, MicFillsPacket, MicTypes
    <3> QED BY <1>12, <3>1, <3>2, <3>3 DEF MicStep
  <2>5. UNCHANGED <<redirect, life, session, slotGen, link, peer, rdpeai, micSlot, micCalls,
                    heldAudio, micWire>>
    BY <1>12 DEF MicStep, MicLooks, MicReads, MicReadsNothing, MicBeginsPacket, MicFillsPacket,
                 micOthers, sessionVars
  <2> QED BY <2>4, <2>5 DEF MicTypes
<1> QED BY <1>1, <1>2, <1>3, <1>4, <1>5, <1>6, <1>7, <1>8, <1>9, <1>10, <1>11, <1>12
        DEF MicNext, Camera, SendPackets, Serve, SessionStep

\* Streams are only ever added to a session.
LEMMA SessionLasts ==
    ASSUME MicTypes, MicNext, ~StartSession
    PROVE  /\ session' = session /\ rdpeai.gen <= rdpeai'.gen
           /\ rdpeai.gen \in Nat /\ rdpeai'.gen \in Nat /\ redirect' = redirect
<1>1. session \in Nat /\ rdpeai \in [channel: BOOLEAN, open: BOOLEAN, gen: Nat]
  BY DEF MicTypes
<1>2. rdpeai.gen \in Nat /\ rdpeai.gen <= rdpeai.gen /\ rdpeai.gen <= rdpeai.gen + 1
  BY <1>1
<1>3. CASE OpenStream \/ CloseChannel
  <2>1. rdpeai'.gen = rdpeai.gen \/ rdpeai'.gen = rdpeai.gen + 1
    BY <1>3 DEF OpenStream, CloseChannel
  <2>2. session' = session /\ redirect' = redirect
    BY <1>3 DEF OpenStream, CloseChannel
  <2> QED BY <1>2, <2>1, <2>2
<1>4. CASE StartChannel
  <2>1. rdpeai'.gen = rdpeai.gen /\ session' = session /\ redirect' = redirect
    BY <1>1, <1>4 DEF StartChannel
  <2> QED BY <1>2, <2>1
<1>5. CASE ~(OpenStream \/ CloseChannel \/ StartChannel)
  <2>1. UNCHANGED <<session, rdpeai, redirect>>
    <3>1. CASE CameraHalf
      BY <3>1 DEF CameraHalf, MoveForeground, CameraRuns, CameraRequest, CameraInvoke, BeginDrain,
                  DrainCamera, DrainTakes, micVars, sessionVars
    <3>2. CASE MicAlone
      BY <1>5, <3>2 DEF MicAlone, DropPacket, Handoff, MicInvoke, Connect, Joined, MicLooks, MicReads,
                        MicReadsNothing, MicBeginsPacket, micOthers, sessionVars
    <3>3. CASE MicShares \/ MoveForegroundGone \/ Detached
      BY <3>3 DEF MicShares, SendPacket, PacketWritten, PacketFails, Detach, Attach, MicFillsPacket,
                  MoveForegroundGone, Detached, micOthers, micVars, sessionVars
    <3> QED BY <3>1, <3>2, <3>3, MicSteps
  <2> QED BY <1>2, <2>1
<1> QED BY <1>3, <1>4, <1>5

\* A session without a camera never gets one, and one that has gone stays as it was left.
LEMMA LifeKept ==
    ASSUME MicInv, MicNext
    PROVE  LifeSound'
<1>1. CreditInv /\ CreditTypes /\ ShellTypes /\ MicTypes /\ LifeSound
  BY DEF MicInv, CameraInv, CreditInv
<1>2. CASE MoveForeground
  <2>1. UNCHANGED <<bridge, worker>>
    BY <1>2 DEF MoveForeground, UiStep, LeaveForeground, CloseGate, GateClosed, EnterForeground,
                PublishDevice, shellVars, workerVars
  <2>2. UNCHANGED <<redirect, life, heldAudio, micWire, micCalls, link, micSlot>>
    BY <1>2 DEF MoveForeground, sessionVars
  <2> QED BY <1>1, <2>1, <2>2 DEF LifeSound, MicIdle
<1>3. CASE CameraRuns \/ CameraRequest
  <2>1. "camera" \in redirect
    BY <1>3 DEF CameraRuns, CameraRequest
  <2>2. UNCHANGED <<redirect, life>>
    BY <1>3 DEF CameraRuns, CameraRequest, micVars, sessionVars
  <2> QED BY <1>1, <2>1, <2>2 DEF LifeSound
<1>4. CASE CameraInvoke
  <2>1. UNCHANGED <<bridge, worker>>
    BY <1>4 DEF CameraInvoke, Invoke, InvokeStart, InvokeStop, InvokeSampleRequest
  <2>2. UNCHANGED <<redirect, life, heldAudio, micWire, micCalls, link, micSlot>>
    BY <1>4 DEF CameraInvoke, micVars, sessionVars
  <2> QED BY <1>1, <2>1, <2>2 DEF LifeSound, MicIdle
<1>5. CASE BeginDrain \/ DrainCamera \/ DrainTakes
  <2>1. DrainMedia /\ UNCHANGED <<redirect, life>>
    BY <1>5 DEF BeginDrain, DrainCamera, DrainTakes, DrainMedia, micVars, sessionVars
  <2>2. Active(bridge') => Active(bridge)
    BY <1>1, <2>1, DrainActivatesNothing
  <2>3. life # "gone"
    BY <1>1, <1>5 DEF BeginDrain, DrainCamera, DrainTakes, Take, WorkerRuns, LifeSound
  <2> QED BY <1>1, <2>1, <2>2, <2>3 DEF LifeSound
<1>6. CASE SendPacket \/ DropPacket \/ PacketWritten \/ PacketFails
  <2>1. life # "gone"
    BY <1>1, <1>6 DEF SendPacket, DropPacket, AtPackets, PacketWritten, PacketFails, LifeSound, MicIdle
  <2>2. UNCHANGED <<bridge, redirect, life>>
    BY <1>6 DEF SendPacket, DropPacket, PacketWritten, PacketFails, vars, sessionVars
  <2> QED BY <1>1, <2>1, <2>2 DEF LifeSound
<1>7. CASE Serve \/ Connect \/ MicInvoke
  <2>1. life # "gone"
    BY <1>1, <1>7 DEF Serve, StartChannel, OpenStream, CloseChannel, Handoff, MicRequests, WorkerRuns,
                      Connect, MicInvoke, LifeSound, MicIdle
  <2>2. UNCHANGED <<bridge, redirect, life>>
    BY <1>7 DEF Serve, StartChannel, OpenStream, CloseChannel, Handoff, Connect, MicInvoke, vars,
                sessionVars
  <2> QED BY <1>1, <2>1, <2>2 DEF LifeSound
<1>8. CASE MoveForegroundGone \/ MicStep
  <2>1. UNCHANGED <<bridge, worker, redirect, life, heldAudio, micWire, micCalls, link, micSlot>>
    BY <1>8 DEF MoveForegroundGone, MicStep, MicLooks, MicReads, MicReadsNothing, MicBeginsPacket,
                MicFillsPacket, micOthers, micVars, sessionVars, vars, workerVars
  <2> QED BY <1>1, <2>1 DEF LifeSound, MicIdle
<1>9. CASE Detach \/ Detached \/ Attach \/ StartSession
  <2>1. "camera" \notin redirect \/ life' = "attached"
    BY <1>1, <1>9 DEF Detach, Detached, Attach, StartSession, LifeSound
  <2>2. UNCHANGED <<bridge, redirect>> /\ life' # "gone"
    BY <1>9 DEF Detach, Detached, Attach, StartSession
  <2> QED BY <1>1, <2>1, <2>2 DEF LifeSound
<1>10. CASE Joined
  <2>1. /\ UNCHANGED <<bridge, redirect, worker, heldAudio, micWire, micCalls>>
        /\ "camera" \notin redirect /\ MicIdle /\ worker = "idle" /\ life' = "gone"
    BY <1>1, <1>10 DEF Joined, LifeSound, vars, workerVars
  <2>2. link'.state = "ended" /\ ~micSlot'.streaming
    <3>1. /\ link \in [state: {"connecting", "active", "ended"}, count: Nat]
          /\ micSlot \in [streaming: BOOLEAN, gen: Nat]
      BY <1>1 DEF MicTypes
    <3>2. link' = [link EXCEPT !.state = "ended"] /\ micSlot' = [micSlot EXCEPT !.streaming = FALSE]
      BY <1>10 DEF Joined
    <3> QED BY <3>1, <3>2
  <2> QED BY <1>1, <2>1, <2>2 DEF LifeSound, MicIdle
<1> QED BY <1>2, <1>3, <1>4, <1>5, <1>6, <1>7, <1>8, <1>9, <1>10
        DEF MicNext, Camera, SendPackets, SessionStep

\* A stream is begun by the session before the slot hears of it.
LEMMA StreamsKept ==
    ASSUME MicInv, MicNext
    PROVE  StreamSound'
<1>1. MicTypes /\ StreamSound /\ LifeSound
  BY DEF MicInv
<1>2. micSlot.gen \in Nat /\ rdpeai.gen \in Nat /\ micCalls \in Seq(Callback)
  BY <1>1 DEF MicTypes
<1>3. \A i \in 1..Len(micCalls) : micCalls[i].gen \in Nat
  <2>1. \A i \in 1..Len(micCalls) : micCalls[i] \in Callback
    BY <1>2
  <2> QED BY <2>1 DEF Callback
<1>4. CASE StartSession
  <2>1. ~micSlot.streaming /\ micCalls = <<>> /\ UNCHANGED <<micSlot, micCalls>>
    BY <1>1, <1>4 DEF StartSession, LifeSound, MicIdle
  <2> QED BY <2>1 DEF StreamSound
<1>5. CASE OpenStream \/ CloseChannel
  <2>1. micCalls = <<>> /\ micSlot' = micSlot
    BY <1>5 DEF OpenStream, CloseChannel, MicRequests, MicIdle
  <2>2. rdpeai'.gen \in Nat /\ rdpeai.gen <= rdpeai'.gen
    <3>1. rdpeai'.gen = rdpeai.gen \/ rdpeai'.gen = rdpeai.gen + 1
      BY <1>5 DEF OpenStream, CloseChannel
    <3> QED BY <1>2, <3>1
  <2>3. \A i \in 1..Len(micCalls') : micCalls'[i].gen <= rdpeai'.gen
    <3> DEFINE stop == Call("stop", rdpeai.gen)
               start == Call("start", rdpeai.gen + 1)
    <3>1. stop.gen = rdpeai.gen /\ start.gen = rdpeai.gen + 1
      BY DEF Call
    <3>2. CASE OpenStream
      <4>1. rdpeai'.gen = rdpeai.gen + 1
        BY <3>2 DEF OpenStream
      <4>2. micCalls' = <<stop, start>> \/ micCalls' = <<start>>
        BY <3>2 DEF OpenStream
      <4> HIDE DEF stop, start
      <4>3. stop.gen <= rdpeai'.gen /\ start.gen <= rdpeai'.gen
        BY <1>2, <3>1, <4>1
      <4>4. CASE micCalls' = <<stop, start>>
        <5>1. \A i \in 1..2 : i = 1 \/ i = 2
          OBVIOUS
        <5>2. Len(micCalls') = 2 /\ micCalls'[1] = stop /\ micCalls'[2] = start
          BY <4>4
        <5> QED BY <4>3, <5>1, <5>2
      <4>5. CASE micCalls' = <<start>>
        BY <4>3, <4>5
      <4> QED BY <4>2, <4>4, <4>5
    <3>3. CASE CloseChannel
      <4>1. micCalls' = <<stop>> \/ micCalls' = <<>>
        BY <3>3 DEF CloseChannel
      <4> HIDE DEF stop, start
      <4> QED BY <1>2, <2>2, <3>1, <4>1
    <3> QED BY <1>5, <3>2, <3>3
  <2> QED BY <1>1, <1>2, <2>1, <2>2, <2>3 DEF StreamSound
<1>6. CASE MicInvoke
  <2>1. micCalls # <<>> /\ micCalls' = Tail(micCalls) /\ rdpeai' = rdpeai
    BY <1>6 DEF MicInvoke
  <2>2. Head(micCalls) = micCalls[1] /\ 1 \in 1..Len(micCalls)
    BY <1>2, <2>1
  <2>3. Head(micCalls).gen <= rdpeai.gen
    BY <1>1, <2>2 DEF StreamSound
  <2>4. micSlot'.streaming => micSlot'.gen <= rdpeai.gen
    <3>1. \/ micSlot' = [streaming |-> TRUE, gen |-> Head(micCalls).gen]
          \/ micSlot' = [micSlot EXCEPT !.streaming = FALSE]
          \/ micSlot' = micSlot
      BY <1>6 DEF MicInvoke
    <3>2. micSlot \in [streaming: BOOLEAN, gen: Nat]
      BY <1>1 DEF MicTypes
    <3> QED BY <1>1, <2>3, <3>1, <3>2 DEF StreamSound
  <2>5. /\ Len(micCalls') = Len(micCalls) - 1 /\ Len(micCalls) \in Nat
        /\ \A i \in 1..(Len(micCalls) - 1) : micCalls'[i] = micCalls[i + 1]
    BY <1>2, <2>1, TailFields
  <2>6. \A i \in 1..(Len(micCalls) - 1) : i + 1 \in 1..Len(micCalls)
    BY <2>5
  <2> QED BY <1>1, <2>1, <2>4, <2>5, <2>6 DEF StreamSound
<1>7. CASE Detached \/ Joined
  <2>1. /\ micSlot' = [micSlot EXCEPT !.streaming = FALSE]
        /\ UNCHANGED <<rdpeai, micCalls>>
    BY <1>7 DEF Detached, Joined
  <2>2. micSlot \in [streaming: BOOLEAN, gen: Nat]
    BY <1>1 DEF MicTypes
  <2> QED BY <1>1, <2>1, <2>2 DEF StreamSound
<1>8. CASE StartChannel
  <2>1. rdpeai \in [channel: BOOLEAN, open: BOOLEAN, gen: Nat]
    BY <1>1 DEF MicTypes
  <2>2. rdpeai'.gen = rdpeai.gen /\ UNCHANGED <<micSlot, micCalls>>
    BY <1>8, <2>1 DEF StartChannel
  <2> QED BY <1>1, <2>2 DEF StreamSound
<1>9. CASE ~(StartSession \/ Serve \/ MicInvoke \/ Detached \/ Joined) \/ Handoff
  <2>1. UNCHANGED <<rdpeai, micSlot, micCalls>>
    <3>1. CASE CameraHalf
      BY <3>1 DEF CameraHalf, MoveForeground, CameraRuns, CameraRequest, CameraInvoke, BeginDrain,
                  DrainCamera, DrainTakes, micVars
    <3>2. CASE Handoff
      BY <3>2 DEF Handoff
    <3>3. CASE MicAlone /\ ~Handoff
      BY <1>9, <3>3 DEF MicAlone, DropPacket, Connect, MicLooks, MicReads,
                        MicReadsNothing, MicBeginsPacket, micOthers, Serve
    <3>4. CASE MicShares \/ MoveForegroundGone
      BY <3>4 DEF MicShares, SendPacket, PacketWritten, PacketFails, Detach, Attach, MicFillsPacket,
                  MoveForegroundGone, micOthers, micVars
    <3> QED BY <1>9, <3>1, <3>2, <3>3, <3>4, MicSteps DEF Handoff
  <2> QED BY <1>1, <2>1 DEF StreamSound
<1> QED BY <1>4, <1>5, <1>6, <1>7, <1>8, <1>9 DEF Serve

-----------------------------------------------------------------------------
(* The steps of Microphone: what each packet was recorded for *)

\* Packets that stay, go or are dropped with the epoch are as good as they were.
LEMMA PacketsLast ==
    ASSUME MicTypes, PacketsSound, session' = session,
           rdpeai.gen \in Nat, rdpeai'.gen \in Nat, rdpeai.gen <= rdpeai'.gen,
           \/ mbox'.audio = mbox.audio /\ sound' = sound
           \/ mbox'.audio = <<>> /\ sound' = <<>>,
           \/ heldAudio' = heldAudio
           \/ heldAudio # <<>> /\ heldAudio' = Tail(heldAudio)
           \/ heldAudio' = <<>>
    PROVE  PacketsSound'
<1>1. heldAudio \in Seq(Packets)
  BY DEF MicTypes
<1>2. Paired(mbox.audio, sound, session, rdpeai'.gen) /\ AllRecorded(heldAudio, session, rdpeai'.gen)
  BY <1>1, StillRecorded DEF PacketsSound
<1>3. Paired(mbox'.audio, sound', session, rdpeai'.gen)
  BY <1>2, NothingRecorded
<1>4. AllRecorded(heldAudio', session, rdpeai'.gen)
  BY <1>1, <1>2, NothingRecorded, TailRecorded
<1> QED BY <1>3, <1>4 DEF PacketsSound

\* A packet that is handed over under a stream holds no sound from before it, nor from
\* another session: the slot has not changed hands since the worker looked.
LEMMA FillsPacketSound ==
    ASSUME MicInv, MicFillsPacket
    PROVE  PacketsSound'
<1>1. MicTypes /\ PacketsSound /\ MicSound
  BY DEF MicInv
<1>2. rdpeai.gen \in Nat /\ rdpeai.gen <= rdpeai.gen
  BY <1>1 DEF MicTypes
<1>3. UNCHANGED <<session, rdpeai, heldAudio>>
  BY DEF MicFillsPacket, micOthers, sessionVars
<1>4. CASE Wanted = mic.stream /\ mbox.active
  <2> DEFINE sub == [gen |-> mic.stream.gen, epoch |-> mbox.epoch]
  <2>1. mic.stream \in [slot: Nat, gen: Nat] /\ mic.part \in Sounds
    BY <1>1 DEF MicTypes
  <2>2. /\ mbox \in Mailbox /\ mbox.audio \in Seq(AudioSubmission) /\ mbox.epoch \in Nat
    BY DEF MicInv, CameraInv, CreditInv, CreditTypes, Mailbox
  <2>3. sub \in AudioSubmission /\ sub.gen = mic.stream.gen
    BY <2>1, <2>2 DEF AudioSubmission
  <2>4. mic.at = "push" /\ mic.part # NoSound /\ mic.stream # NoStream
    BY <1>1 DEF MicFillsPacket, MicSound
  <2>5. mic.stream.slot = slotGen
    BY <1>4, <2>4 DEF Wanted
  <2>6. RecordedFor(mic.stream, mic.part, session, rdpeai.gen)
    BY <1>1, <2>4, <2>5 DEF MicSound
  <2>7. RecordedFor(sub, mic.part, session, rdpeai.gen)
    BY <2>3, <2>6 DEF RecordedFor
  <2>8. mbox'.audio = Append(IF Len(mbox.audio) = QueueDepth THEN Tail(mbox.audio) ELSE mbox.audio, sub)
    <3>1. mbox' = EnqueueAudio(mbox, mic.stream.gen)
      BY <1>4 DEF MicFillsPacket
    <3> QED BY <1>4, <2>2, <3>1 DEF EnqueueAudio, Mailbox
  <2>9. sound' = Append(IF Len(sound) = QueueDepth THEN Tail(sound) ELSE sound, mic.part)
    BY <1>4 DEF MicFillsPacket
  <2> HIDE DEF sub
  <2>10. Paired(mbox'.audio, sound', session, rdpeai.gen)
    BY <1>1, <2>1, <2>2, <2>3, <2>7, <2>8, <2>9, AppendPaired DEF PacketsSound
  <2> QED BY <1>1, <1>3, <2>10 DEF PacketsSound
<1>5. CASE ~(Wanted = mic.stream /\ mbox.active)
  <2>1. mbox' = mbox /\ sound' = sound
    BY <1>5 DEF MicFillsPacket, EnqueueAudio
  <2> QED BY <1>1, <1>2, <1>3, <2>1, PacketsLast
<1> QED BY <1>4, <1>5

\* No step puts a packet into the mailbox or the worker's hand that was not recorded for
\* its stream.
LEMMA PacketsKept ==
    ASSUME MicInv, MicNext
    PROVE  PacketsSound'
<1>1. /\ MicTypes /\ PacketsSound /\ LifeSound /\ CreditTypes /\ ShellTypes
      /\ mbox \in Mailbox /\ mbox.epoch \in Nat /\ mbox.audio \in Seq(AudioSubmission)
  BY DEF MicInv, CameraInv, CreditInv, CreditTypes, Mailbox
<1>2. ~StartSession => /\ session' = session /\ rdpeai.gen <= rdpeai'.gen
                       /\ rdpeai.gen \in Nat /\ rdpeai'.gen \in Nat
  BY <1>1, SessionLasts
<1>3. CASE StartSession
  <2>1. heldAudio = <<>> /\ heldAudio' = heldAudio /\ mbox'.audio = <<>> /\ sound' = <<>>
    BY <1>1, <1>3 DEF StartSession, LifeSound, MicIdle, EmptyMailbox
  <2> QED BY <2>1, NothingRecorded DEF PacketsSound
<1>4. CASE MoveForeground /\ ~StartSession
  <2>1. mbox'.audio = IF mbox'.epoch = mbox.epoch THEN mbox.audio ELSE <<>>
    BY <1>1, <1>4, UiDropsAudio DEF MoveForeground
  <2>2. heldAudio' = heldAudio /\ sound' = IF mbox'.epoch = mbox.epoch THEN sound ELSE <<>>
    BY <1>4 DEF MoveForeground
  <2> QED BY <1>1, <1>2, <1>4, <2>1, <2>2, PacketsLast
<1>5. CASE (CameraRuns \/ CameraRequest \/ CameraInvoke \/ BeginDrain \/ DrainCamera) /\ ~StartSession
  <2>1. mbox'.audio = mbox.audio
    BY <1>1, <1>5, CameraLeavesAudio DEF CameraRuns, CameraRequest, CameraInvoke, BeginDrain, DrainCamera
  <2>2. UNCHANGED <<heldAudio, sound>>
    BY <1>5 DEF CameraRuns, CameraRequest, CameraInvoke, BeginDrain, DrainCamera, micVars
  <2> QED BY <1>1, <1>2, <1>5, <2>1, <2>2, PacketsLast
<1>6. CASE DrainTakes
  <2>1. mbox'.audio = <<>> /\ sound' = <<>> /\ UNCHANGED <<session, rdpeai>>
    BY <1>1, <1>6, MailboxAudio DEF DrainTakes, Take, sessionVars
  <2>2. Paired(mbox.audio, sound, session, rdpeai.gen)
    BY <1>1 DEF PacketsSound
  <2>3. AllRecorded(heldAudio', session, rdpeai.gen)
    BY <1>1, <1>6, <2>2, BatchFields DEF DrainTakes
  <2> QED BY <2>1, <2>3, NothingRecorded DEF PacketsSound
<1>7. CASE MicAlone /\ ~StartSession
  <2>1. UNCHANGED <<mbox, sound>>
    BY <1>7, MicAloneStutters DEF MicAlone, vars, DropPacket, StartChannel, OpenStream, CloseChannel,
          Handoff, MicInvoke, Connect, Joined, MicLooks, MicReads, MicReadsNothing, MicBeginsPacket
  <2>2. heldAudio' = heldAudio \/ (heldAudio # <<>> /\ heldAudio' = Tail(heldAudio))
    BY <1>7 DEF MicAlone, DropPacket, AtPackets, StartChannel, OpenStream, CloseChannel, Handoff,
          MicInvoke, Connect, Joined, MicLooks, MicReads, MicReadsNothing, MicBeginsPacket, micOthers
  <2> QED BY <1>1, <1>2, <1>7, <2>1, <2>2, PacketsLast
<1>8. CASE (SendPacket \/ PacketWritten \/ PacketFails) /\ ~StartSession
  <2>1. mbox'.audio = mbox.audio /\ sound' = sound
    BY <1>1, <1>8, MailboxAudio DEF SendPacket, PacketWritten, PacketFails
  <2>2. \/ heldAudio' = heldAudio
        \/ heldAudio # <<>> /\ heldAudio' = Tail(heldAudio)
        \/ heldAudio' = <<>>
    BY <1>8 DEF SendPacket, PacketWritten, PacketFails, AtPackets
  <2> QED BY <1>1, <1>2, <1>8, <2>1, <2>2, PacketsLast
<1>9. CASE (Detach \/ Attach) /\ ~StartSession
  <2>1. \/ mbox'.audio = mbox.audio /\ sound' = sound
        \/ mbox'.audio = <<>> /\ sound' = <<>>
    <3>1. CASE Detach
      <4>1. IF mbox.active = FALSE THEN mbox' = mbox ELSE mbox'.audio = <<>>
        BY <1>1, <3>1, MailboxAudio DEF Detach
      <4>2. sound' = IF mbox.active THEN <<>> ELSE sound
        BY <3>1 DEF Detach
      <4>3. mbox.active \in BOOLEAN
        BY <1>1 DEF Mailbox
      <4> QED BY <4>1, <4>2, <4>3
    <3>2. CASE Attach
      <4>1. foreground \in BOOLEAN
        BY <1>1 DEF ShellTypes
      <4>2. IF mbox.active = foreground THEN mbox' = mbox
            ELSE mbox'.audio = <<>> /\ mbox'.epoch = mbox.epoch + 1
        BY <1>1, <3>2, <4>1, MailboxAudio DEF Attach
      <4>3. sound' = IF mbox'.epoch = mbox.epoch THEN sound ELSE <<>>
        BY <3>2 DEF Attach
      <4> QED BY <1>1, <4>2, <4>3
    <3> QED BY <1>9, <3>1, <3>2
  <2>2. heldAudio' = heldAudio
    BY <1>9 DEF Detach, Attach
  <2> QED BY <1>1, <1>2, <1>9, <2>1, <2>2, PacketsLast
<1>10. CASE (MoveForegroundGone \/ Detached) /\ ~StartSession
  <2>1. UNCHANGED <<mbox, sound, heldAudio>>
    BY <1>10 DEF MoveForegroundGone, Detached, micVars
  <2> QED BY <1>1, <1>2, <1>10, <2>1, PacketsLast
<1>11. CASE MicFillsPacket
  BY <1>11, FillsPacketSound
<1> QED BY <1>3, <1>4, <1>5, <1>6, <1>7, <1>8, <1>9, <1>10, <1>11, MicSteps
        DEF CameraHalf, MicShares

\* The microphone worker's own steps: it looks, reads without the lock, and begins a packet.
LEMMA MicStepSound ==
    ASSUME MicInv, MicStep
    PROVE  MicSound'
<1>1. MicTypes /\ MicSound /\ StreamSound
  BY DEF MicInv
<1>2. /\ session \in Nat /\ slotGen \in Nat /\ slotGen > 0 /\ rdpeai.gen \in Nat
      /\ mic \in [at: {"look", "read", "push"}, stream: [slot: Nat, gen: Nat],
                  read: Sounds, part: Sounds]
      /\ mic.stream.slot \in Nat /\ mic.stream.gen \in Nat
  <2>1. mic.stream \in [slot: Nat, gen: Nat]
    BY <1>1 DEF MicTypes
  <2> QED BY <1>1, <2>1 DEF MicTypes, MicSound
<1>3. UNCHANGED <<session, slotGen, rdpeai, life>>
  BY DEF MicStep, MicLooks, MicReads, MicReadsNothing, MicBeginsPacket, MicFillsPacket, micOthers,
         sessionVars
<1>4. CASE MicLooks
  <2> DEFINE a == IF Wanted = NoStream THEN "look" ELSE "read"
  <2>1. mic' = IF mic.stream # Wanted THEN [IdleMic EXCEPT !.stream = Wanted, !.at = a]
                                      ELSE [mic EXCEPT !.at = a]
    BY <1>4 DEF MicLooks
  <2>2. a # "push" /\ (a # "look" => Wanted # NoStream)
    OBVIOUS
  <2>3. /\ Wanted \in [slot: Nat, gen: Nat] /\ Wanted.slot <= slotGen
        /\ life \in {"joining", "gone"} => Wanted.slot < slotGen
        /\ Wanted.slot = slotGen => Wanted.gen <= rdpeai.gen
    <3>1. CASE Wanted = NoStream
      BY <1>2, <3>1 DEF NoStream
    <3>2. CASE Wanted # NoStream
      <4>1. Wanted = [slot |-> slotGen, gen |-> micSlot.gen] /\ life = "attached" /\ micSlot.streaming
        BY <3>2 DEF Wanted, Registered
      <4>2. micSlot.gen \in Nat /\ micSlot.gen <= rdpeai.gen
        BY <1>1, <4>1 DEF MicTypes, StreamSound
      <4> QED BY <1>2, <4>1, <4>2
    <3> QED BY <3>1, <3>2
  <2> HIDE DEF a
  <2>4. CASE mic.stream # Wanted
    <3>1. mic'.stream = Wanted /\ mic'.at = a /\ mic'.part = NoSound
      BY <2>1, <2>4 DEF IdleMic
    <3> QED BY <1>2, <1>3, <2>2, <2>3, <3>1 DEF MicSound
  <2>5. CASE mic.stream = Wanted
    <3>1. mic'.stream = Wanted /\ mic'.at = a /\ mic'.part = mic.part
      BY <1>2, <2>1, <2>5
    <3> QED BY <1>1, <1>2, <1>3, <2>2, <2>3, <2>5, <3>1 DEF MicSound
  <2> QED BY <2>4, <2>5
<1>5. CASE MicReads
  <2>1. /\ mic.at = "read" /\ mic'.at = "push" /\ mic'.stream = mic.stream /\ mic'.part = mic.part
        /\ mic'.read = [session |-> session, gen |-> rdpeai.gen]
    BY <1>2, <1>5 DEF MicReads
  <2>2. mic.stream.slot = slotGen => RecordedFor(mic.stream, mic'.read, session, rdpeai.gen)
    BY <1>1, <1>2, <2>1 DEF MicSound, RecordedFor
  <2> QED BY <1>1, <1>3, <2>1, <2>2 DEF MicSound
<1>6. CASE MicReadsNothing
  <2>1. mic'.at = "look" /\ mic'.stream = mic.stream /\ mic'.part = mic.part
    BY <1>2, <1>6 DEF MicReadsNothing
  <2> QED BY <1>1, <1>3, <2>1 DEF MicSound
<1>7. CASE MicBeginsPacket
  <2>1. mic.at = "push" /\ mic'.at = "look" /\ mic'.stream = mic.stream /\ mic'.part = mic.read
    BY <1>2, <1>7 DEF MicBeginsPacket
  <2> QED BY <1>1, <1>3, <2>1 DEF MicSound
<1>8. CASE MicFillsPacket
  <2>1. mic'.at = "look" /\ mic'.stream = mic.stream /\ mic'.part = NoSound
    BY <1>2, <1>8 DEF MicFillsPacket
  <2> QED BY <1>1, <1>3, <2>1 DEF MicSound
<1> QED BY <1>4, <1>5, <1>6, <1>7, <1>8 DEF MicStep

\* Everybody else's: the slot is renumbered before it can hold another session.
LEMMA MicSoundKept ==
    ASSUME MicInv, MicNext
    PROVE  MicSound'
<1>1. MicTypes /\ MicSound /\ LifeSound
  BY DEF MicInv
<1>2. /\ slotGen \in Nat /\ slotGen > 0 /\ mic.stream.slot <= slotGen /\ mic.stream.slot \in Nat
      /\ mic.stream \in [slot: Nat, gen: Nat] /\ mic.read \in Sounds /\ mic.part \in Sounds
  <2>1. mic.stream \in [slot: Nat, gen: Nat]
    BY <1>1 DEF MicTypes
  <2> QED BY <1>1, <2>1 DEF MicTypes, MicSound
<1>3. CASE MicStep
  BY <1>3, MicStepSound
<1>4. CASE Detached \/ Attach
  <2>1. slotGen' = slotGen + 1 /\ mic' = mic
    BY <1>4 DEF Detached, Attach
  <2>2. mic'.stream.slot < slotGen' /\ mic'.stream.slot # slotGen' /\ slotGen' > 0
        /\ mic'.stream.slot <= slotGen'
    BY <1>2, <2>1
  <2> QED BY <1>1, <2>1, <2>2 DEF MicSound
<1>5. CASE StartSession
  <2>1. life = "gone" /\ life' = "starting" /\ UNCHANGED <<slotGen, mic>>
    BY <1>5 DEF StartSession
  <2>2. mic.stream.slot < slotGen /\ mic.stream.slot # slotGen
    BY <1>1, <1>2, <2>1 DEF MicSound
  <2> QED BY <1>1, <1>2, <2>1, <2>2 DEF MicSound
<1>6. CASE ~(MicStep \/ Detached \/ Attach \/ StartSession)
  <2>1. UNCHANGED <<slotGen, mic>>
    <3>1. CASE CameraHalf
      BY <3>1 DEF CameraHalf, MoveForeground, CameraRuns, CameraRequest, CameraInvoke, BeginDrain,
                  DrainCamera, DrainTakes, micVars, sessionVars
    <3>2. CASE MicAlone
      BY <1>6, <3>2 DEF MicAlone, DropPacket, StartChannel, OpenStream, CloseChannel, Handoff, MicInvoke,
                        Connect, Joined, MicStep, sessionVars
    <3>3. CASE MicShares \/ MoveForegroundGone
      BY <1>6, <3>3 DEF MicShares, SendPacket, PacketWritten, PacketFails, Detach, MoveForegroundGone,
                        MicStep, micVars, sessionVars
    <3> QED BY <1>6, <3>1, <3>2, <3>3, MicSteps
  <2>2. life' \in {"joining", "gone"} => life \in {"joining", "gone"}
    <3>1. CASE Joined
      BY <3>1 DEF Joined
    <3>2. CASE Detach
      BY <3>2 DEF Detach
    <3>3. CASE ~(Joined \/ Detach)
      <4>1. life' = life
        <5>1. CASE CameraHalf
          BY <5>1 DEF CameraHalf, MoveForeground, CameraRuns, CameraRequest, CameraInvoke, BeginDrain,
                      DrainCamera, DrainTakes, micVars, sessionVars
        <5>2. CASE MicAlone
          BY <1>6, <3>3, <5>2 DEF MicAlone, DropPacket, StartChannel, OpenStream, CloseChannel, Handoff,
                                  MicInvoke, Connect, MicStep, sessionVars
        <5>3. CASE MicShares \/ MoveForegroundGone
          BY <1>6, <3>3, <5>3 DEF MicShares, SendPacket, PacketWritten, PacketFails, MicStep,
                                  MoveForegroundGone, micVars, sessionVars
        <5> QED BY <1>6, <5>1, <5>2, <5>3, MicSteps
      <4> QED BY <4>1
    <3> QED BY <3>1, <3>2, <3>3
  <2>3. /\ session' = session /\ rdpeai.gen <= rdpeai'.gen
        /\ rdpeai.gen \in Nat /\ rdpeai'.gen \in Nat
    BY <1>1, <1>6, SessionLasts
  <2>4. /\ mic.stream.slot = slotGen => mic.stream.gen <= rdpeai'.gen
        /\ mic.stream.slot = slotGen /\ mic.at = "push"
              => RecordedFor(mic.stream, mic.read, session, rdpeai'.gen)
        /\ mic.stream.slot = slotGen /\ mic.part # NoSound
              => RecordedFor(mic.stream, mic.part, session, rdpeai'.gen)
    <3>1. \A since \in Sounds : RecordedFor(mic.stream, since, session, rdpeai.gen)
                                  => RecordedFor(mic.stream, since, session, rdpeai'.gen)
      BY <2>3, StillRecorded
    <3>2. mic.stream.slot = slotGen => mic.stream.gen <= rdpeai'.gen
      <4>1. mic.stream.gen \in Nat
        BY <1>2
      <4> QED BY <1>1, <2>3, <4>1 DEF MicSound
    <3> QED BY <1>1, <1>2, <3>1, <3>2 DEF MicSound
  <2> QED BY <1>1, <2>1, <2>2, <2>3, <2>4 DEF MicSound
<1> QED BY <1>3, <1>4, <1>5, <1>6

\* submit_pcm lets a packet pass that was recorded for the stream that is open.
LEMMA OwnKept ==
    ASSUME MicInv, MicNext
    PROVE  MicIsOwn'
<1>1. MicTypes /\ MicIsOwn /\ LifeSound /\ PacketsSound
  BY DEF MicInv
<1>2. CASE SendPacket
  <2>1. heldAudio # <<>> /\ MaySend(Packet) /\ micWire' = Packet /\ UNCHANGED <<session, rdpeai>>
    BY <1>2 DEF SendPacket, AtPackets, sessionVars
  <2>2. heldAudio \in Seq(Packets) /\ rdpeai.gen \in Nat
    BY <1>1 DEF MicTypes
  <2>3. Packet \in Packets /\ RecordedFor(Packet.sub, Packet.since, session, rdpeai.gen)
    BY <1>1, <2>1, <2>2, TailRecorded DEF PacketsSound, Packet
  <2>4. Packet.sub.gen = rdpeai.gen
    BY <2>1 DEF MaySend, MayCarry
  <2>5. Packet.since \in [session: Nat, gen: Nat]
    BY <2>3 DEF Packets, Sounds
  <2>6. Packet.since.session = session /\ Packet.since.gen = rdpeai.gen
    BY <2>2, <2>3, <2>4, <2>5 DEF RecordedFor
  <2> QED BY <2>1, <2>5, <2>6 DEF MicIsOwn
<1>3. CASE PacketWritten \/ PacketFails
  BY <1>3 DEF PacketWritten, PacketFails, MicIsOwn
<1>4. CASE OpenStream \/ CloseChannel \/ StartSession
  BY <1>1, <1>4 DEF OpenStream, CloseChannel, StartSession, MicRequests, LifeSound, MicIdle, MicIsOwn
<1>5. CASE StartChannel
  <2>1. rdpeai \in [channel: BOOLEAN, open: BOOLEAN, gen: Nat]
    BY <1>1 DEF MicTypes
  <2>2. rdpeai'.gen = rdpeai.gen /\ UNCHANGED <<session, micWire>>
    BY <1>5, <2>1 DEF StartChannel
  <2> QED BY <1>1, <2>2 DEF MicIsOwn
<1>6. CASE ~(SendPacket \/ PacketWritten \/ PacketFails \/ OpenStream \/ CloseChannel
             \/ StartSession \/ StartChannel)
  <2>1. UNCHANGED <<session, rdpeai, micWire>>
    <3>1. CASE CameraHalf
      BY <3>1 DEF CameraHalf, MoveForeground, CameraRuns, CameraRequest, CameraInvoke, BeginDrain,
                  DrainCamera, DrainTakes, micVars, sessionVars
    <3>2. CASE MicAlone
      BY <1>6, <3>2 DEF MicAlone, DropPacket, Handoff, MicInvoke, Connect, Joined, MicLooks, MicReads,
                        MicReadsNothing, MicBeginsPacket, micOthers, sessionVars
    <3>3. CASE MicShares \/ MoveForegroundGone \/ Detached
      BY <1>6, <3>3 DEF MicShares, Detach, Attach, MicFillsPacket, MoveForegroundGone, Detached,
                        micOthers, micVars, sessionVars
    <3> QED BY <1>6, <3>1, <3>2, <3>3, MicSteps
  <2> QED BY <1>1, <2>1 DEF MicIsOwn
<1> QED BY <1>2, <1>3, <1>4, <1>5, <1>6

-----------------------------------------------------------------------------
(* The theorems *)

\* A session begins with empty hands.
LEMMA MicInitially == MicInit => MicInv
<1> SUFFICES ASSUME MicInit PROVE MicInv
  OBVIOUS
<1>1. CameraInv
  BY CameraInitially DEF MicInit
<1>2. MicTypes
  <2>1. NoSound \in Sounds /\ NoStream \in [slot: Nat, gen: Nat]
    BY DEF NoSound, Sounds, NoStream
  <2>2. mic \in [at: {"look", "read", "push"}, stream: [slot: Nat, gen: Nat],
                 read: Sounds, part: Sounds]
    BY <2>1 DEF MicInit, IdleMic
  <2>3. micWire \in Packets
    BY <2>1 DEF MicInit, NoPacket, Packets
  <2>4. /\ peer \in [channel: BOOLEAN, stream: BOOLEAN]
        /\ rdpeai \in [channel: BOOLEAN, open: BOOLEAN, gen: Nat]
        /\ micSlot \in [streaming: BOOLEAN, gen: Nat]
    BY DEF MicInit, NoPeer, NewRdpeai
  <2>5. micCalls \in Seq(Callback) /\ heldAudio \in Seq(Packets)
    BY DEF MicInit
  <2>6. /\ redirect \in Profiles /\ session \in Nat /\ slotGen \in Nat
        /\ life \in {"starting", "attached", "detaching", "joining", "gone"}
        /\ link \in [state: {"connecting", "active", "ended"}, count: Nat]
    BY DEF MicInit
  <2> QED BY <2>2, <2>3, <2>4, <2>5, <2>6 DEF MicTypes
<1>3. LifeSound
  <2>1. ~Active(bridge)
    <3>1. EmptyBridge.lifecycle = "deactivated" /\ bridge.lifecycle = EmptyBridge.lifecycle
      BY DEF MicInit, Init, EmptyBridge
    <3> QED BY <3>1 DEF Active
  <2>2. life # "gone" /\ (life # "attached" => "camera" \notin redirect)
    BY DEF MicInit
  <2> QED BY <2>1, <2>2 DEF LifeSound
<1>4. StreamSound
  BY DEF MicInit, StreamSound
<1>5. MicSound
  BY DEF MicInit, MicSound, IdleMic, NoStream, NoSound
<1>6. PacketsSound
  <2>1. mbox.audio = <<>> /\ sound = <<>> /\ heldAudio = <<>>
    BY DEF MicInit, Init, EmptyMailbox
  <2> QED BY <2>1, NothingRecorded DEF PacketsSound
<1>7. MicIsOwn
  BY DEF MicInit, MicIsOwn
<1> QED BY <1>1, <1>2, <1>3, <1>4, <1>5, <1>6, <1>7 DEF MicInv

\* Every step keeps the invariant.
LEMMA MicInvStep == MicInv /\ [MicNext]_allVars => MicInv'
<1> SUFFICES ASSUME MicInv, [MicNext]_allVars PROVE MicInv'
  OBVIOUS
<1>1. CASE MicNext
  <2>1. CameraInv /\ MicTypes /\ LifeSound /\ PacketsSound
    BY DEF MicInv
  <2> QED BY <1>1, <2>1, MicKeepsCredit, MicTypesKept, LifeKept, StreamsKept, MicSoundKept, PacketsKept,
             OwnKept DEF MicInv
<1>2. CASE UNCHANGED allVars
  <2>1. UNCHANGED credVars /\ UNCHANGED micVars
        /\ UNCHANGED <<desired, foreground, physical, lock, owner, target, ui>>
    BY <1>2 DEF allVars, vars, credVars, shellVars, uiVars, workerVars
  <2>2. UNCHANGED <<bridge, mbox, worker>>
    BY <2>1 DEF credVars
  <2>3. CameraInv'
    BY <2>1, CreditStutters DEF MicInv, CameraInv, ShellTypes
  <2>4. UNCHANGED <<redirect, life, session, slotGen, link, peer, rdpeai, micSlot, micCalls, mic,
                    sound, heldAudio, micWire>>
    BY <2>1 DEF micVars, sessionVars
  <2>5. MicTypes' /\ LifeSound' /\ StreamSound'
    BY <2>2, <2>4 DEF MicInv, MicTypes, LifeSound, StreamSound, MicIdle
  <2>6. MicSound' /\ PacketsSound' /\ MicIsOwn'
    BY <2>2, <2>4 DEF MicInv, MicSound, PacketsSound, MicIsOwn
  <2> QED BY <2>3, <2>5, <2>6 DEF MicInv
<1> QED BY <1>1, <1>2

\* The inductive invariant of a session with a camera or a microphone.
THEOREM Invariance == MicSpec => []MicInv
  BY MicInitially, MicInvStep, PTL DEF MicSpec

\* Every variable of the session, its worker and its capture threads keeps its type.
THEOREM TypeCorrect == MicSpec => []MicTypeOK
<1>1. MicInv => MicTypeOK
  <2> SUFFICES ASSUME MicInv PROVE MicTypeOK
    OBVIOUS
  <2>1. TypeOK
    BY TypesTogether DEF MicInv, CameraInv, CreditInv
  <2>2. sound \in Seq(Sounds) /\ Len(sound) = Len(mbox.audio)
    BY DEF MicInv, PacketsSound, Paired
  <2>3. MicTypes
    BY DEF MicInv
  <2> QED BY <2>1, <2>2, <2>3 DEF MicTypes, MicTypeOK
<1> QED BY <1>1, Invariance, PTL

\* In every session, with its microphone, its handoffs and its successors in the slot, a
\* camera credit is never lost, doubled or answered twice (rdpecam, media_mailbox.rs and
\* capture_slots.c).
THEOREM CreditNeverLost == MicSpec => []CreditInOnePlace
<1>1. MicInv => CreditInOnePlace
  BY OnePlace DEF MicInv, CameraInv
<1> QED BY <1>1, Invariance, PTL

\* No microphone packet goes out on a stream or in a session that it was not recorded for
\* (audio_collect_desired_locked, audio_stream_sync, audio_packet, submit_pcm).
THEOREM MicrophoneIsOwn == MicSpec => []MicIsOwn
<1>1. MicInv => MicIsOwn
  BY DEF MicInv
<1> QED BY <1>1, Invariance, PTL
=============================================================================
