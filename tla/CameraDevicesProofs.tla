------------------------- MODULE CameraDevicesProofs -------------------------
(***************************************************************************)
(* Proofs about CameraDevices, for every set of channels and every bound.  *)
(***************************************************************************)
EXTENDS CameraDevices, TLAPS

-----------------------------------------------------------------------------
(* What the operators of the bridge return. *)

CaptureSlot == [streaming: BOOLEAN, gen: Nat, credit: 0..1]

\* camera_stop ends the stream of its own generation only, and a credit changes neither the
\* stream nor its generation.
LEMMA HeardCalls ==
    ASSUME NEW s \in CaptureSlot
    PROVE  /\ Heard(s, NoCall) = s
           /\ \A g \in Nat :
                /\ Heard(s, Call("stop", g)) \in CaptureSlot
                /\ s.gen # g => Heard(s, Call("stop", g)) = s
                /\ s.gen = g => Heard(s, Call("stop", g)).streaming = FALSE
                /\ Heard(s, Call("sample", g)) \in CaptureSlot
                /\ Heard(s, Call("sample", g)).gen = s.gen
                /\ Heard(s, Call("sample", g)).streaming = s.streaming
<1>1. Heard(s, NoCall) = s
  BY DEF Heard, NoCall
<1>2. ASSUME NEW g \in Nat
      PROVE  /\ Heard(s, Call("stop", g)) \in CaptureSlot
             /\ s.gen # g => Heard(s, Call("stop", g)) = s
             /\ s.gen = g => Heard(s, Call("stop", g)).streaming = FALSE
  <2>1. Heard(s, Call("stop", g)) =
           IF s.gen # g THEN s ELSE [s EXCEPT !.streaming = FALSE, !.credit = 0]
    BY DEF Heard, Call
  <2>2. CASE s.gen # g
    BY <2>1, <2>2
  <2>3. CASE s.gen = g
    <3>1. Heard(s, Call("stop", g)) = [s EXCEPT !.streaming = FALSE, !.credit = 0]
      BY <2>1, <2>3
    <3>2. 0 \in 0..1
      OBVIOUS
    <3>3. [s EXCEPT !.streaming = FALSE, !.credit = 0].streaming = FALSE
      BY DEF CaptureSlot
    <3>4. [s EXCEPT !.streaming = FALSE, !.credit = 0] \in CaptureSlot
      BY <3>2 DEF CaptureSlot
    <3> QED BY <2>3, <3>1, <3>3, <3>4
  <2> QED BY <2>2, <2>3
<1>3. ASSUME NEW g \in Nat
      PROVE  /\ Heard(s, Call("sample", g)) \in CaptureSlot
             /\ Heard(s, Call("sample", g)).gen = s.gen
             /\ Heard(s, Call("sample", g)).streaming = s.streaming
  <2>1. Heard(s, Call("sample", g)) =
           IF s.streaming /\ s.gen = g THEN [s EXCEPT !.credit = 1] ELSE s
    BY DEF Heard, Call
  <2> QED BY <2>1 DEF CaptureSlot
<1> QED BY <1>1, <1>2, <1>3

\* The announcement and the tokens are as they were.
SameLife(n, b) == /\ n.available = b.available /\ n.advertised = b.advertised
                  /\ n.nextToken = b.nextToken

\* Nothing is streamed, in use or waited for.
Idle(n) == n.lifecycle = "deactivated" /\ n.pending = 0

\* The absent device is a value that the device field may hold.
LEMMA NoDeviceType == NoDevice \in Device
  BY DEF NoDevice, Device, NoChannel

\* stop_capture_locked touches neither the device nor its activation.
LEMMA StopCaptureFields ==
    ASSUME NEW b \in Bridge
    PROVE  LET n == StopCapture(b) IN
           /\ n \in Bridge /\ SameLife(n, b) /\ n.retired = b.retired
           /\ n.device = b.device /\ n.pending = 0
           /\ ~Streaming(n) /\ Active(n) = Active(b)
<1>1. (IF Streaming(b) THEN "activated" ELSE b.lifecycle) \in
         {"deactivated", "activated", "streaming"}
  BY DEF Bridge
<1>2. (IF Streaming(b) THEN b.gen + 1 ELSE b.gen) \in Nat
  BY DEF Bridge
<1>3. 0 \in 0..MaxPending
  BY MaxPendingAssumption
<1>4. StopCapture(b) \in Bridge
  BY <1>1, <1>2, <1>3 DEF StopCapture, Bridge
<1>5. StopCapture(b).lifecycle = IF Streaming(b) THEN "activated" ELSE b.lifecycle
  BY DEF StopCapture, Bridge
<1>6. /\ StopCapture(b).retired = b.retired /\ StopCapture(b).device = b.device
      /\ StopCapture(b).pending = 0 /\ SameLife(StopCapture(b), b)
  BY DEF StopCapture, Bridge, SameLife
<1> QED BY <1>4, <1>5, <1>6 DEF Streaming, Active

\* A device that is retired leaves an idle bridge, and every token so far is spent.
LEMMA RetireDeviceFields ==
    ASSUME NEW b \in Bridge
    PROVE  LET n == RetireDevice(b) IN
           /\ n \in Bridge /\ SameLife(n, b) /\ n.retired = b.nextToken
           /\ n.device = NoDevice /\ Idle(n)
<1>1. StopCapture(b) \in Bridge /\ SameLife(StopCapture(b), b) /\ StopCapture(b).pending = 0
  BY StopCaptureFields
<1>2. b.nextToken \in Nat
  BY DEF Bridge
<1>3. RetireDevice(b) \in Bridge
  BY <1>1, <1>2, NoDeviceType DEF RetireDevice, Bridge
<1> QED BY <1>1, <1>3 DEF RetireDevice, SameLife, Idle, Bridge

\* A device that is replaced leaves an idle bridge, and its own token is spent.
LEMMA ReplaceDeviceFields ==
    ASSUME NEW b \in Bridge, NEW d \in Device
    PROVE  /\ LET n == ReplaceDevice(b, d) IN
               /\ n \in Bridge /\ SameLife(n, b) /\ n.device = d /\ Idle(n)
               /\ n.retired = IF b.device.token > b.retired THEN b.device.token ELSE b.retired
           /\ DeviceClose(b) = ReplaceDevice(b, NoDevice)
<1>1. /\ StopCapture(b) \in Bridge /\ SameLife(StopCapture(b), b)
      /\ StopCapture(b).pending = 0 /\ StopCapture(b).retired = b.retired
  BY StopCaptureFields
<1>2. (IF b.device.token > StopCapture(b).retired THEN b.device.token
       ELSE StopCapture(b).retired) \in Nat
  BY <1>1 DEF Bridge, Device
<1>3. ReplaceDevice(b, d) \in Bridge
  BY <1>1, <1>2 DEF ReplaceDevice, Bridge
<1>4. LET n == ReplaceDevice(b, d) IN
        /\ n.available = b.available /\ n.advertised = b.advertised
        /\ n.nextToken = b.nextToken /\ n.device = d
        /\ n.lifecycle = "deactivated" /\ n.pending = 0
        /\ n.retired = IF b.device.token > b.retired THEN b.device.token ELSE b.retired
  BY <1>1, <1>2 DEF ReplaceDevice, SameLife, Bridge
<1>5. DeviceClose(b) = ReplaceDevice(b, NoDevice)
  BY DEF DeviceClose, ReplaceDevice
<1> QED BY <1>3, <1>4, <1>5 DEF SameLife, Idle

\* An announcement spends every token so far and touches nothing else.
LEMMA AdvertiseFields ==
    ASSUME NEW b \in Bridge
    PROVE  LET n == Advertise(b) IN
           /\ n \in Bridge /\ n.available = b.available /\ n.nextToken = b.nextToken
           /\ n.device = b.device /\ n.pending = b.pending
           /\ n.lifecycle = b.lifecycle /\ n.gen = b.gen
           /\ MayAdvertise(b) => n.advertised /\ n.retired = b.nextToken
           /\ ~MayAdvertise(b) => n = b
<1>1. b.nextToken \in Nat
  BY DEF Bridge
<1> QED BY <1>1 DEF Advertise, Bridge

-----------------------------------------------------------------------------
(* The inductive invariant. *)

Server == [added: BOOLEAN, addedAt: Nat, owed: 0..MaxPending]

\* Tokens are handed out in order, and the announcement, what was retired with it and
\* the attached processor are all among those handed out.
TokensOrdered ==
    /\ server.addedAt <= bridge.retired /\ bridge.retired <= bridge.nextToken
    /\ bridge.device.token <= bridge.nextToken /\ bridge.nextToken <= MaxToken

\* A device that is in use is attached, and a stream that has stopped waits for nothing.
UseNeedsDevice ==
    /\ Active(bridge) => bridge.device # NoDevice
    /\ bridge.pending > 0 => Streaming(bridge)

IInv == /\ TypeOK /\ TokensOrdered /\ UseNeedsDevice
        /\ DeviceIsCurrent /\ NothingOwedForgotten /\ CaptureFollowsStream

\* The session begins with no camera, no processor and nothing owed.
LEMMA InitIInv == Init => IInv
<1> SUFFICES ASSUME Init PROVE IInv
  OBVIOUS
<1>1. TypeOK
  BY MaxPendingAssumption DEF Init, TypeOK, EmptyBridge, Bridge, Device, NoDevice, NoChannel
<1>2. TokensOrdered /\ UseNeedsDevice /\ DeviceIsCurrent
  BY BoundsAssumption DEF Init, EmptyBridge, NoDevice, TokensOrdered, UseNeedsDevice, Active,
                          Streaming, DeviceIsCurrent
<1>3. NothingOwedForgotten /\ CaptureFollowsStream
  BY DEF Init, EmptyBridge, NothingOwedForgotten, CaptureFollowsStream, Streaming
<1> QED BY <1>1, <1>2, <1>3 DEF IInv

-----------------------------------------------------------------------------
(* What a step has to show. *)

\* The stop of the bridge's own stream ends the capture.
LEMMA StopHeard ==
    ASSUME IInv
    PROVE  /\ Heard(slot, StopCall(bridge)) \in CaptureSlot
           /\ Heard(slot, StopCall(bridge)).streaming = FALSE
<1>1. slot \in CaptureSlot /\ bridge.gen \in Nat
  BY DEF IInv, TypeOK, CaptureSlot, Bridge
<1>2. slot.streaming = Streaming(bridge) /\ (slot.streaming => slot.gen = bridge.gen)
  BY DEF IInv, CaptureFollowsStream
<1>3. CASE Streaming(bridge)
  <2>1. StopCall(bridge) = Call("stop", bridge.gen) /\ slot.gen = bridge.gen
    BY <1>2, <1>3 DEF StopCall
  <2>2. /\ Heard(slot, Call("stop", bridge.gen)) \in CaptureSlot
        /\ slot.gen = bridge.gen => Heard(slot, Call("stop", bridge.gen)).streaming = FALSE
    BY <1>1, HeardCalls
  <2> QED BY <2>1, <2>2
<1>4. CASE ~Streaming(bridge)
  <2>1. StopCall(bridge) = NoCall /\ slot.streaming = FALSE
    BY <1>2, <1>4 DEF StopCall, Streaming
  <2> QED BY <1>1, <2>1, HeardCalls
<1> QED BY <1>3, <1>4

\* What the server is told of an ended channel.
LEMMA ServerFields ==
    ASSUME TypeOK
    PROVE  /\ server \in Server
           /\ \A n \in {Withdrawn, [server EXCEPT !.owed = 0]} :
                n \in Server /\ n.owed = 0 /\ n.addedAt = server.addedAt
<1>1. server \in Server /\ 0 \in 0..MaxPending
  BY MaxPendingAssumption DEF TypeOK, Server
<1>2. Withdrawn \in Server /\ Withdrawn.owed = 0 /\ Withdrawn.addedAt = server.addedAt
  BY <1>1 DEF Withdrawn, Server
<1>3. LET n == [server EXCEPT !.owed = 0]
      IN  n \in Server /\ n.owed = 0 /\ n.addedAt = server.addedAt
  BY <1>1 DEF Server
<1> QED BY <1>1, <1>2, <1>3

\* With no device attached, nothing is in use, owed or captured.
LEMMA NoDeviceIdle ==
    ASSUME IInv, bridge.device = NoDevice
    PROVE  Idle(bridge) /\ slot.streaming = FALSE /\ server.owed = 0
<1>1. bridge.lifecycle = "deactivated"
  BY DEF IInv, UseNeedsDevice, Active
<1>2. bridge.pending = 0
  BY <1>1 DEF IInv, TypeOK, Bridge, UseNeedsDevice, Streaming
<1>3. slot.streaming = FALSE
  BY <1>1 DEF IInv, CaptureFollowsStream, Streaming
<1> QED BY <1>1, <1>2, <1>3 DEF Idle, IInv, NothingOwedForgotten

\* A step after which no device is attached and nothing is owed keeps the invariant.
LEMMA IdleStep ==
    ASSUME IInv,
           bridge' \in Bridge, bridge'.device = NoDevice, Idle(bridge'),
           bridge'.nextToken = bridge.nextToken, bridge'.retired <= bridge.nextToken,
           slot' \in CaptureSlot, slot'.streaming = FALSE,
           server' \in Server, server'.owed = 0, server'.addedAt <= bridge'.retired,
           enumerator' \in Channels \cup {NoChannel}, answer' \in Nat,
           procs' \in [Tokens -> Channels \cup {NoChannel}]
    PROVE  IInv'
<1>1. TypeOK'
  BY DEF TypeOK, Server, CaptureSlot
<1>2. TokensOrdered'
  <2>1. bridge.nextToken <= MaxToken /\ bridge.nextToken \in Nat
    BY DEF IInv, TypeOK, TokensOrdered, Bridge
  <2>2. bridge'.device.token = 0
    BY DEF NoDevice
  <2> QED BY <2>1, <2>2, BoundsAssumption DEF TokensOrdered
<1>3. UseNeedsDevice' /\ NothingOwedForgotten'
  BY DEF Idle, UseNeedsDevice, NothingOwedForgotten, Active
<1>4. DeviceIsCurrent'
  BY DEF DeviceIsCurrent
<1>5. CaptureFollowsStream'
  BY DEF Idle, CaptureFollowsStream, Streaming
<1> QED BY <1>1, <1>2, <1>3, <1>4, <1>5 DEF IInv

\* A step of the attached channel keeps the device and its tokens, so what is left to show
\* is the types and what relates the stream to its device, its answers and the capture.
LEMMA AttachedStep ==
    ASSUME IInv,
           bridge' \in Bridge, SameLife(bridge', bridge), bridge'.retired = bridge.retired,
           bridge'.device = bridge.device,
           slot' \in CaptureSlot,
           server' \in Server, server'.addedAt = server.addedAt, answer' \in Nat,
           enumerator' = enumerator, procs' = procs,
           UseNeedsDevice', NothingOwedForgotten', CaptureFollowsStream'
    PROVE  IInv'
<1>1. TypeOK'
  BY DEF IInv, TypeOK, Server, CaptureSlot
<1>2. TokensOrdered'
  BY DEF IInv, TokensOrdered, SameLife
<1>3. DeviceIsCurrent'
  BY DEF IInv, DeviceIsCurrent, SameLife
<1> QED BY <1>1, <1>2, <1>3 DEF IInv

\* A step that may announce the camera, taken while no device is attached.
LEMMA AnnounceStep ==
    ASSUME IInv, bridge.device = NoDevice,
           NEW m \in Bridge, m.advertised = bridge.advertised, m.nextToken = bridge.nextToken,
           m.retired = bridge.retired, m.device = NoDevice, Idle(m),
           bridge' = Advertise(m), server' = Announced(Advertise(m)), slot' = slot,
           enumerator' = enumerator, procs' = procs, answer' = answer
    PROVE  IInv'
<1>1. /\ bridge' \in Bridge /\ bridge'.nextToken = bridge.nextToken
      /\ bridge'.device = NoDevice /\ Idle(bridge')
      /\ MayAdvertise(m) => bridge'.advertised /\ bridge'.retired = bridge.nextToken
      /\ ~MayAdvertise(m) => bridge' = m
  BY AdvertiseFields DEF Idle
<1>2. /\ slot \in CaptureSlot /\ server \in Server /\ bridge.nextToken \in Nat
      /\ bridge.retired <= bridge.nextToken /\ server.addedAt <= bridge.retired
      /\ enumerator \in Channels \cup {NoChannel} /\ answer \in Nat
      /\ procs \in [Tokens -> Channels \cup {NoChannel}]
  BY DEF IInv, TypeOK, TokensOrdered, CaptureSlot, Server, Bridge
<1>3. slot.streaming = FALSE /\ server.owed = 0
  BY NoDeviceIdle
<1>4. CASE MayAdvertise(m)
  <2>1. server' = [added |-> TRUE, addedAt |-> bridge.nextToken, owed |-> 0]
    BY <1>1, <1>4 DEF Announced, MayAdvertise
  <2>2. server' \in Server /\ server'.owed = 0 /\ server'.addedAt = bridge.nextToken
    BY <1>2, <2>1, MaxPendingAssumption DEF Server
  <2>3. bridge'.retired <= bridge.nextToken /\ server'.addedAt <= bridge'.retired
    BY <1>1, <1>2, <1>4, <2>2
  <2> QED BY <1>1, <1>2, <1>3, <2>2, <2>3, IdleStep
<1>5. CASE ~MayAdvertise(m)
  <2>1. server' = server
    BY <1>1, <1>5 DEF Announced
  <2> QED BY <1>1, <1>2, <1>3, <1>5, <2>1, IdleStep
<1> QED BY <1>4, <1>5

-----------------------------------------------------------------------------
(* Each action keeps the invariant. *)

\* What every step may use of the types.
LEMMA Types ==
    ASSUME IInv
    PROVE  /\ bridge \in Bridge /\ slot \in CaptureSlot /\ server \in Server
           /\ enumerator \in Channels \cup {NoChannel} /\ answer \in Nat
           /\ procs \in [Tokens -> Channels \cup {NoChannel}]
           /\ bridge.nextToken \in Nat /\ bridge.retired \in Nat /\ server.addedAt \in Nat
           /\ server.addedAt <= bridge.retired /\ bridge.retired <= bridge.nextToken
  BY DEF IInv, TypeOK, TokensOrdered, CaptureSlot, Server, Bridge

\* A step that retires the device, and tells capture and server so.
LEMMA RetireStep ==
    ASSUME IInv, NEW m \in Bridge, m.nextToken = bridge.nextToken,
           bridge' = RetireDevice(m), slot' = Heard(slot, StopCall(bridge)),
           server' = Withdrawn, enumerator' \in Channels \cup {NoChannel}, answer' \in Nat,
           procs' = procs
    PROVE  IInv'
<1> USE Types
<1>1. slot' \in CaptureSlot /\ slot'.streaming = FALSE
  BY StopHeard
<1>2. server' \in Server /\ server'.owed = 0 /\ server'.addedAt = server.addedAt
  BY ServerFields DEF IInv
<1>3. /\ bridge' \in Bridge /\ bridge'.nextToken = bridge.nextToken
      /\ bridge'.retired = bridge.nextToken /\ bridge'.device = NoDevice /\ Idle(bridge')
  BY RetireDeviceFields DEF SameLife
<1>4. bridge'.retired <= bridge.nextToken /\ server'.addedAt <= bridge'.retired
  BY <1>2, <1>3
<1> QED BY <1>1, <1>2, <1>3, <1>4, IdleStep

\* set_available, from either side of the shell's wish.
LEMMA SetAvailableKeeps ==
    ASSUME IInv, NEW available \in BOOLEAN, SetAvailableStep(available)
    PROVE  IInv'
<1> USE Types
<1>1. CASE available
  <2> DEFINE m == [bridge EXCEPT !.available = TRUE]
  <2>1. ~bridge.available /\ SetAvailable(bridge, available) = Advertise(m)
    BY <1>1 DEF SetAvailableStep, SetAvailable
  <2>2. bridge.device = NoDevice
    BY <2>1 DEF IInv, DeviceIsCurrent
  <2>3. /\ m \in Bridge /\ m.advertised = bridge.advertised /\ m.nextToken = bridge.nextToken
        /\ m.retired = bridge.retired /\ m.device = NoDevice
        /\ m.lifecycle = bridge.lifecycle /\ m.pending = bridge.pending
    BY <2>2 DEF Bridge
  <2>4. Idle(m)
    BY <2>2, <2>3, NoDeviceIdle DEF Idle
  <2>5. slot' = slot
    <3>1. slot' = Heard(slot, NoCall)
      BY <1>1 DEF SetAvailableStep, SetAvailableCall, Handle
    <3> QED BY <3>1, HeardCalls
  <2>6. bridge' = Advertise(m) /\ server' = Announced(Advertise(m))
    BY <1>1, <2>1 DEF SetAvailableStep, Handle
  <2>7. enumerator' = enumerator /\ procs' = procs /\ answer' = answer
    BY <1>1 DEF SetAvailableStep
  <2> HIDE DEF m
  <2> QED BY <2>2, <2>3, <2>4, <2>5, <2>6, <2>7, AnnounceStep
<1>2. CASE ~available
  <2> DEFINE m == [bridge EXCEPT !.available = FALSE, !.advertised = FALSE]
  <2>0. available = FALSE /\ bridge.available = TRUE
    BY <1>2 DEF SetAvailableStep, Bridge
  <2>1. bridge.available /\ SetAvailable(bridge, available) = RetireDevice(m)
    BY <2>0 DEF SetAvailable
  <2>2. m \in Bridge /\ m.nextToken = bridge.nextToken
    BY DEF Bridge
  <2>3. bridge' = RetireDevice(m) /\ server' = Withdrawn
    BY <1>2, <2>1 DEF SetAvailableStep, Handle
  <2>4. slot' = Heard(slot, StopCall(bridge))
    BY <1>2, <2>1 DEF SetAvailableStep, SetAvailableCall, Handle
  <2>5. enumerator' = enumerator /\ procs' = procs /\ answer' = 0
    BY <1>2 DEF SetAvailableStep
  <2> HIDE DEF m
  <2> QED BY <2>2, <2>3, <2>4, <2>5, RetireStep
<1> QED BY <1>1, <1>2

\* The enumerator channel opens: what was attached belongs to an older one.
LEMMA StartEnumeratorKeeps ==
    ASSUME IInv, NEW c \in Channels, StartEnumerator(c)
    PROVE  IInv'
<1> DEFINE m == [bridge EXCEPT !.enumChannel = c, !.negotiated = FALSE, !.advertised = FALSE]
<1>1. m \in Bridge /\ m.nextToken = bridge.nextToken
  BY Types DEF Bridge
<1>2. /\ bridge' = RetireDevice(m) /\ server' = Withdrawn
      /\ slot' = Heard(slot, StopCall(bridge))
      /\ enumerator' = c /\ procs' = procs /\ answer' = answer
  BY DEF StartEnumerator, EnumeratorStart, Handle
<1> HIDE DEF m
<1> QED BY <1>1, <1>2, Types, RetireStep

\* The version is agreed: the camera is announced, unless it already is or is not wanted.
LEMMA VersionResponseKeeps ==
    ASSUME IInv, VersionResponse
    PROVE  IInv'
<1> USE Types
<1> DEFINE m == [bridge EXCEPT !.negotiated = TRUE]
<1>1. /\ m \in Bridge /\ SameLife(m, bridge) /\ m.retired = bridge.retired
      /\ m.device = bridge.device /\ m.lifecycle = bridge.lifecycle
      /\ m.pending = bridge.pending /\ m.gen = bridge.gen
  BY DEF Bridge, SameLife
<1>2. /\ bridge' = Advertise(m) /\ server' = Announced(Advertise(m))
      /\ slot' = Heard(slot, NoCall)
      /\ enumerator' = enumerator /\ procs' = procs /\ answer' = answer
  BY DEF VersionResponse, EnumeratorVersion, Handle
<1>3. slot' = slot
  BY <1>2, HeardCalls
<1> HIDE DEF m
<1>4. CASE MayAdvertise(m)
  <2>1. bridge.device = NoDevice
    BY <1>1, <1>4 DEF MayAdvertise, SameLife, IInv, DeviceIsCurrent
  <2>2. Idle(m)
    BY <1>1, <2>1, NoDeviceIdle DEF Idle
  <2> QED BY <1>1, <1>2, <1>3, <2>1, <2>2, AnnounceStep DEF SameLife
<1>5. CASE ~MayAdvertise(m)
  <2>1. bridge' = m
    BY <1>1, <1>2, <1>5, AdvertiseFields
  <2>2. server' = server
    BY <1>1, <1>2, <1>5, AdvertiseFields DEF Announced, SameLife
  <2>3. UseNeedsDevice' /\ NothingOwedForgotten'
    BY <1>1, <2>1, <2>2 DEF IInv, UseNeedsDevice, NothingOwedForgotten, Active, Streaming
  <2>4. CaptureFollowsStream'
    BY <1>1, <1>3, <2>1 DEF IInv, CaptureFollowsStream, Streaming
  <2> QED BY <1>1, <1>2, <1>3, <2>1, <2>2, <2>3, <2>4, AttachedStep
<1> QED BY <1>4, <1>5

\* The enumerator channel closes; one that is no longer the bridge's changes nothing there.
LEMMA CloseEnumeratorKeeps ==
    ASSUME IInv, CloseEnumerator
    PROVE  IInv'
<1> USE Types
<1>1. enumerator' = NoChannel /\ procs' = procs /\ answer' = answer
  BY DEF CloseEnumerator
<1>2. CASE bridge.enumChannel = enumerator
  <2> DEFINE m == [bridge EXCEPT !.enumChannel = NoChannel, !.negotiated = FALSE,
                                 !.advertised = FALSE]
  <2>1. m \in Bridge /\ m.nextToken = bridge.nextToken
    BY DEF Bridge
  <2>2. /\ bridge' = RetireDevice(m) /\ server' = Withdrawn
        /\ slot' = Heard(slot, StopCall(bridge))
    BY <1>2 DEF CloseEnumerator, EnumeratorClose, Handle
  <2> HIDE DEF m
  <2> QED BY <1>1, <2>1, <2>2, RetireStep
<1>3. CASE bridge.enumChannel # enumerator
  <2>1. bridge' = bridge /\ slot' = slot /\ server' = server
    BY <1>3 DEF CloseEnumerator
  <2> QED BY <1>1, <2>1 DEF IInv, TypeOK, TokensOrdered, UseNeedsDevice, DeviceIsCurrent,
                            NothingOwedForgotten, CaptureFollowsStream
<1> QED BY <1>2, <1>3

\* The channel factory hands out a token above all others.
LEMMA CreateProcessorKeeps ==
    ASSUME IInv, CreateProcessor
    PROVE  IInv'
<1> USE Types
<1>1. /\ bridge' = AllocateToken(bridge) /\ bridge.nextToken < MaxToken
      /\ slot' = Heard(slot, NoCall) /\ server' = server
      /\ enumerator' = enumerator /\ procs' = procs /\ answer' = answer
  BY DEF CreateProcessor, Handle
<1>2. slot' = slot
  BY <1>1, HeardCalls
<1>3. /\ bridge' \in Bridge /\ bridge'.nextToken = bridge.nextToken + 1
      /\ bridge'.available = bridge.available /\ bridge'.advertised = bridge.advertised
      /\ bridge'.retired = bridge.retired /\ bridge'.device = bridge.device
      /\ bridge'.lifecycle = bridge.lifecycle /\ bridge'.pending = bridge.pending
      /\ bridge'.gen = bridge.gen
  BY <1>1 DEF AllocateToken, Bridge
<1>4. TypeOK'
  BY <1>1, <1>2, <1>3 DEF TypeOK, CaptureSlot, Server
<1>5. TokensOrdered'
  <2>1. bridge.device.token <= bridge.nextToken /\ bridge.device.token \in Nat
    BY DEF IInv, TokensOrdered, Bridge, Device
  <2> QED BY <1>1, <1>3, <2>1, BoundsAssumption DEF TokensOrdered
<1>6. UseNeedsDevice' /\ NothingOwedForgotten'
  BY <1>1, <1>3 DEF IInv, UseNeedsDevice, NothingOwedForgotten, Active, Streaming
<1>7. DeviceIsCurrent'
  BY <1>1, <1>3 DEF IInv, DeviceIsCurrent
<1>8. CaptureFollowsStream'
  BY <1>2, <1>3 DEF IInv, CaptureFollowsStream, Streaming
<1> QED BY <1>4, <1>5, <1>6, <1>7, <1>8 DEF IInv

\* CameraDevice::start: an object of the current announcement that is not older than the
\* attached one takes its place or moves to its channel; any other only remembers its own.
LEMMA StartDeviceKeeps ==
    ASSUME IInv, NEW t \in Tokens, NEW c \in Channels, StartDevice(t, c)
    PROVE  IInv'
<1> USE Types
<1> DEFINE d == [token |-> t, channel |-> c]
<1>1. /\ procs' = [procs EXCEPT ![t] = c] /\ procs' \in [Tokens -> Channels \cup {NoChannel}]
      /\ enumerator' = enumerator /\ answer' = answer /\ t <= bridge.nextToken
      /\ t \in Nat /\ t > 0
  BY BoundsAssumption DEF StartDevice, Tokens
<1>2. d \in Device /\ d.token = t /\ d.channel = c
  BY <1>1 DEF Device
<1>3. /\ bridge' = DeviceStart(bridge, d) /\ slot' = Heard(slot, DeviceStartCall(bridge, d))
      /\ server' = IF MayAttach(bridge, t) /\ bridge.device.token # t
                   THEN [server EXCEPT !.owed = 0] ELSE server
  BY DEF StartDevice, Handle
<1> HIDE DEF d
<1>4. CASE ~MayAttach(bridge, t)
  <2>1. bridge' = bridge /\ server' = server /\ slot' = Heard(slot, NoCall)
    BY <1>2, <1>3, <1>4 DEF DeviceStart, DeviceStartCall
  <2>2. slot' = slot
    BY <2>1, HeardCalls
  <2>3. ASSUME bridge.device # NoDevice
        PROVE  bridge.device.token \in Tokens /\ bridge.device.token # t
    <3>1. /\ bridge.available /\ bridge.advertised /\ bridge.device.token > bridge.retired
          /\ bridge.device.token <= bridge.nextToken /\ bridge.nextToken <= MaxToken
      BY <2>3 DEF IInv, DeviceIsCurrent, TokensOrdered
    <3>2. bridge.device.token \in Nat
      BY DEF Bridge, Device
    <3>3. bridge.device.token \in Tokens
      BY <3>1, <3>2, BoundsAssumption DEF Tokens
    <3>4. bridge.device.token # t
      BY <1>4, <3>1, <3>2 DEF MayAttach
    <3> QED BY <3>3, <3>4
  <2>4. DeviceIsCurrent'
    BY <1>1, <2>1, <2>3 DEF IInv, DeviceIsCurrent
  <2>5. TypeOK'
    BY <1>1, <2>1, <2>2 DEF IInv, TypeOK
  <2> QED BY <2>1, <2>2, <2>4, <2>5 DEF IInv, TokensOrdered, UseNeedsDevice,
                                        NothingOwedForgotten, CaptureFollowsStream
<1>5. CASE MayAttach(bridge, t) /\ bridge.device.token = t
  <2>1. bridge' = [bridge EXCEPT !.device = d] /\ server' = server
        /\ slot' = Heard(slot, NoCall)
    BY <1>2, <1>3, <1>5 DEF DeviceStart, DeviceStartCall
  <2>2. slot' = slot
    BY <2>1, HeardCalls
  <2>3. /\ bridge' \in Bridge /\ SameLife(bridge', bridge) /\ bridge'.retired = bridge.retired
        /\ bridge'.device = d /\ bridge'.lifecycle = bridge.lifecycle
        /\ bridge'.pending = bridge.pending /\ bridge'.gen = bridge.gen
    BY <1>2, <2>1 DEF Bridge, SameLife
  <2>4. TypeOK'
    BY <1>1, <2>1, <2>2, <2>3 DEF IInv, TypeOK
  <2>5. TokensOrdered'
    BY <1>1, <1>2, <1>5, <2>1, <2>3 DEF IInv, TokensOrdered, SameLife
  <2>6. UseNeedsDevice' /\ NothingOwedForgotten'
    BY <1>1, <1>2, <2>1, <2>3
       DEF IInv, UseNeedsDevice, NothingOwedForgotten, Active, Streaming, NoDevice
  <2>7. DeviceIsCurrent'
    <3>1. bridge.device # NoDevice
      BY <1>1, <1>5 DEF NoDevice
    <3> QED BY <1>1, <1>2, <1>5, <2>1, <2>3, <3>1 DEF IInv, DeviceIsCurrent, SameLife
  <2>8. CaptureFollowsStream'
    BY <2>2, <2>3 DEF IInv, CaptureFollowsStream, Streaming
  <2> QED BY <2>4, <2>5, <2>6, <2>7, <2>8 DEF IInv
<1>6. CASE MayAttach(bridge, t) /\ bridge.device.token # t
  <2>1. bridge' = ReplaceDevice(bridge, d) /\ server' = [server EXCEPT !.owed = 0]
        /\ slot' = Heard(slot, StopCall(bridge))
    BY <1>2, <1>3, <1>6 DEF DeviceStart, DeviceStartCall
  <2>2. slot' \in CaptureSlot /\ slot'.streaming = FALSE
    BY <2>1, StopHeard
  <2>3. server' \in Server /\ server'.owed = 0 /\ server'.addedAt = server.addedAt
    BY <2>1, ServerFields DEF IInv
  <2>4. /\ bridge' \in Bridge /\ SameLife(bridge', bridge) /\ bridge'.device = d
        /\ Idle(bridge')
        /\ bridge'.retired = IF bridge.device.token > bridge.retired
                             THEN bridge.device.token ELSE bridge.retired
    BY <1>2, <2>1, ReplaceDeviceFields
  <2>5. /\ bridge.device.token \in Nat /\ bridge.device.token <= t /\ t > bridge.retired
        /\ bridge.available /\ bridge.advertised
        /\ bridge.device.token <= bridge.nextToken /\ bridge.nextToken <= MaxToken
    BY <1>6 DEF IInv, TokensOrdered, Bridge, Device, MayAttach
  <2>6. /\ server'.addedAt <= bridge'.retired /\ bridge'.retired <= bridge'.nextToken
        /\ t > bridge'.retired /\ t > server'.addedAt
    BY <1>1, <1>6, <2>3, <2>4, <2>5 DEF SameLife
  <2>7. TypeOK'
    BY <1>1, <2>2, <2>3, <2>4 DEF TypeOK, CaptureSlot, Server
  <2>8. TokensOrdered'
    BY <1>1, <1>2, <2>4, <2>5, <2>6 DEF TokensOrdered, SameLife
  <2>9. UseNeedsDevice' /\ NothingOwedForgotten'
    BY <1>1, <1>2, <2>3, <2>4 DEF UseNeedsDevice, NothingOwedForgotten, Active, Idle
  <2>10. DeviceIsCurrent'
    BY <1>1, <1>2, <2>4, <2>5, <2>6 DEF DeviceIsCurrent, SameLife
  <2>11. CaptureFollowsStream'
    BY <2>2, <2>4 DEF CaptureFollowsStream, Streaming, Idle
  <2> QED BY <2>7, <2>8, <2>9, <2>10, <2>11 DEF IInv
<1> QED BY <1>4, <1>5, <1>6

\* CameraDevice::close: only the channel that is attached takes the device with it.
LEMMA CloseDeviceKeeps ==
    ASSUME IInv, NEW t \in Tokens, CloseDevice(t)
    PROVE  IInv'
<1> USE Types
<1>1. /\ procs' = [procs EXCEPT ![t] = NoChannel]
      /\ procs' \in [Tokens -> Channels \cup {NoChannel}]
      /\ enumerator' = enumerator /\ answer' = answer
  BY DEF CloseDevice
<1>2. CASE bridge.device = [token |-> t, channel |-> procs[t]]
  <2>1. bridge' = ReplaceDevice(bridge, NoDevice) /\ server' = [server EXCEPT !.owed = 0]
        /\ slot' = Heard(slot, StopCall(bridge))
    BY <1>2, ReplaceDeviceFields, NoDeviceType DEF CloseDevice, Handle
  <2>2. slot' \in CaptureSlot /\ slot'.streaming = FALSE
    BY <2>1, StopHeard
  <2>3. server' \in Server /\ server'.owed = 0 /\ server'.addedAt = server.addedAt
    BY <2>1, ServerFields DEF IInv
  <2>4. /\ bridge' \in Bridge /\ bridge'.nextToken = bridge.nextToken
        /\ bridge'.device = NoDevice /\ Idle(bridge')
        /\ bridge'.retired = IF bridge.device.token > bridge.retired
                             THEN bridge.device.token ELSE bridge.retired
    BY <2>1, ReplaceDeviceFields, NoDeviceType DEF SameLife
  <2>5. bridge.device.token \in Nat /\ bridge.device.token <= bridge.nextToken
    BY DEF IInv, TokensOrdered, Bridge, Device
  <2>6. bridge'.retired <= bridge.nextToken /\ server'.addedAt <= bridge'.retired
    BY <2>3, <2>4, <2>5
  <2> QED BY <1>1, <2>2, <2>3, <2>4, <2>6, IdleStep
<1>3. CASE bridge.device # [token |-> t, channel |-> procs[t]]
  <2>1. bridge' = bridge /\ slot' = slot /\ server' = server
    BY <1>3 DEF CloseDevice
  <2>2. ASSUME bridge.device # NoDevice
        PROVE  bridge.device.token \in Tokens /\ bridge.device.token # t
    <3>1. /\ bridge.device.token > bridge.retired
          /\ bridge.device.token <= bridge.nextToken /\ bridge.nextToken <= MaxToken
          /\ procs[bridge.device.token] = bridge.device.channel
      BY <2>2 DEF IInv, DeviceIsCurrent, TokensOrdered
    <3>2. bridge.device \in Device /\ bridge.device.token \in Nat
      BY DEF Bridge, Device
    <3>3. bridge.device.token \in Tokens
      BY <3>1, <3>2, BoundsAssumption DEF Tokens
    <3>4. bridge.device = [token |-> bridge.device.token, channel |-> bridge.device.channel]
      BY <3>2 DEF Device
    <3> QED BY <1>3, <3>1, <3>3, <3>4
  <2>3. DeviceIsCurrent'
    BY <1>1, <2>1, <2>2 DEF IInv, DeviceIsCurrent
  <2>4. TypeOK'
    BY <1>1, <2>1 DEF IInv, TypeOK
  <2> QED BY <2>1, <2>3, <2>4 DEF IInv, TokensOrdered, UseNeedsDevice,
                                  NothingOwedForgotten, CaptureFollowsStream
<1> QED BY <1>2, <1>3

\* A request only reaches the bridge while a device is attached.
LEMMA AttachedDevice ==
    ASSUME IInv, NEW t \in Tokens, FromAttached(t)
    PROVE  bridge.device # NoDevice
  BY BoundsAssumption DEF FromAttached, NoDevice, Tokens

\* Activation counts a user of the device and starts no stream.
LEMMA ActivateKeeps ==
    ASSUME IInv, NEW t \in Tokens, ActivateRequest(t)
    PROVE  IInv'
<1> USE Types
<1>1. /\ bridge' = Activate(bridge) /\ slot' = Heard(slot, NoCall) /\ server' = server
      /\ enumerator' = enumerator /\ procs' = procs /\ answer' = answer
      /\ bridge.device # NoDevice
  BY AttachedDevice DEF ActivateRequest, Handle
<1>2. slot' = slot
  BY <1>1, HeardCalls
<1>3. /\ bridge' \in Bridge /\ SameLife(bridge', bridge) /\ bridge'.retired = bridge.retired
      /\ bridge'.device = bridge.device /\ bridge'.pending = bridge.pending
      /\ bridge'.gen = bridge.gen /\ Streaming(bridge') = Streaming(bridge)
  <2>1. CASE bridge.available /\ bridge.advertised
    <3>1. (IF bridge.lifecycle = "deactivated" THEN "activated" ELSE bridge.lifecycle) \in
             {"deactivated", "activated", "streaming"}
      BY DEF Bridge
    <3>2. bridge.refs + 1 \in Nat
      BY DEF Bridge
    <3>3. bridge' \in Bridge
      BY <1>1, <2>1, <3>1, <3>2 DEF Activate, Bridge
    <3>4. bridge'.lifecycle =
             IF bridge.lifecycle = "deactivated" THEN "activated" ELSE bridge.lifecycle
      BY <1>1, <2>1 DEF Activate, Bridge
    <3>5. /\ SameLife(bridge', bridge) /\ bridge'.retired = bridge.retired
          /\ bridge'.device = bridge.device /\ bridge'.pending = bridge.pending
          /\ bridge'.gen = bridge.gen
      BY <1>1, <2>1 DEF Activate, Bridge, SameLife
    <3> QED BY <3>3, <3>4, <3>5 DEF Streaming
  <2>2. CASE ~(bridge.available /\ bridge.advertised)
    BY <1>1, <2>2 DEF Activate, SameLife
  <2> QED BY <2>1, <2>2
<1>4. UseNeedsDevice' /\ NothingOwedForgotten'
  BY <1>1, <1>3 DEF IInv, UseNeedsDevice, NothingOwedForgotten
<1>5. CaptureFollowsStream'
  BY <1>2, <1>3 DEF IInv, CaptureFollowsStream
<1> QED BY <1>1, <1>2, <1>3, <1>4, <1>5, AttachedStep

\* A stream that the server stops answers every pending request and ends the capture.
LEMMA StopStep ==
    ASSUME IInv, bridge.device # NoDevice,
           bridge' \in Bridge, SameLife(bridge', bridge), bridge'.retired = bridge.retired,
           bridge'.device = bridge.device, bridge'.pending = 0, ~Streaming(bridge'),
           slot' = Heard(slot, StopCall(bridge)),
           server' = [server EXCEPT !.owed = @ - bridge.pending],
           enumerator' = enumerator, procs' = procs, answer' = answer
    PROVE  IInv'
<1> USE Types
<1>1. slot' \in CaptureSlot /\ slot'.streaming = FALSE
  BY StopHeard
<1>2. server' \in Server /\ server'.owed = 0 /\ server'.addedAt = server.addedAt
  <2>1. server.owed = bridge.pending /\ bridge.pending \in 0..MaxPending
    BY DEF IInv, NothingOwedForgotten, Bridge
  <2>2. server.owed - bridge.pending = 0 /\ 0 \in 0..MaxPending
    BY <2>1, MaxPendingAssumption
  <2> QED BY <2>2 DEF Server
<1>3. UseNeedsDevice' /\ NothingOwedForgotten'
  BY <1>2 DEF UseNeedsDevice, NothingOwedForgotten
<1>4. CaptureFollowsStream'
  BY <1>1 DEF CaptureFollowsStream, Streaming
<1> QED BY <1>1, <1>2, <1>3, <1>4, AttachedStep

\* A request that finds nothing to do.
LEMMA NothingToDo ==
    ASSUME IInv, bridge' = bridge, slot' = slot, enumerator' = enumerator, procs' = procs,
           answer' \in Nat, server' = server
    PROVE  IInv'
  BY DEF IInv, TypeOK, TokensOrdered, UseNeedsDevice, DeviceIsCurrent, NothingOwedForgotten,
         CaptureFollowsStream

\* A message that settles none of the pending requests tells the server nothing new.
LEMMA OwedUnchanged ==
    ASSUME IInv
    PROVE  [server EXCEPT !.owed = @ - 0] = server
<1>1. server.owed \in Nat /\ server.owed - 0 = server.owed
  BY DEF IInv, TypeOK
<1> QED BY <1>1, Types DEF Server

\* Only the last deactivation stops the stream.
LEMMA DeactivateKeeps ==
    ASSUME IInv, NEW t \in Tokens, DeactivateRequest(t)
    PROVE  IInv'
<1> USE Types
<1>1. /\ bridge' = Deactivate(bridge) /\ slot' = Heard(slot, DeactivateCall(bridge))
      /\ server' = [server EXCEPT !.owed = @ - ErrorsOnStop(bridge.refs = 1)]
      /\ enumerator' = enumerator /\ procs' = procs /\ answer' = answer
      /\ bridge.device # NoDevice /\ bridge.refs \in Nat
  BY AttachedDevice DEF DeactivateRequest, Handle, Bridge
<1>2. CASE bridge.refs = 1
  <2>1. /\ StopCapture(bridge) \in Bridge /\ SameLife(StopCapture(bridge), bridge)
        /\ StopCapture(bridge).retired = bridge.retired
        /\ StopCapture(bridge).device = bridge.device /\ StopCapture(bridge).pending = 0
    BY StopCaptureFields
  <2>2. bridge' = [StopCapture(bridge) EXCEPT !.refs = 0, !.lifecycle = "deactivated"]
    BY <1>1, <1>2 DEF Deactivate
  <2>3. /\ bridge' \in Bridge /\ SameLife(bridge', bridge) /\ bridge'.retired = bridge.retired
        /\ bridge'.device = bridge.device /\ bridge'.pending = 0
        /\ bridge'.lifecycle = "deactivated"
    BY <2>1, <2>2 DEF Bridge, SameLife
  <2>4. slot' = Heard(slot, StopCall(bridge))
    BY <1>1, <1>2 DEF DeactivateCall
  <2>5. server' = [server EXCEPT !.owed = @ - bridge.pending]
    BY <1>1, <1>2 DEF ErrorsOnStop
  <2> QED BY <1>1, <2>3, <2>4, <2>5, StopStep DEF Streaming
<1>3. CASE bridge.refs # 1
  <2>1. slot' = slot
    <3>1. slot' = Heard(slot, NoCall)
      BY <1>1, <1>3 DEF DeactivateCall
    <3> QED BY <3>1, HeardCalls
  <2>2. server' = server
    <3>1. server' = [server EXCEPT !.owed = @ - 0]
      BY <1>1, <1>3 DEF ErrorsOnStop
    <3> QED BY <3>1, OwedUnchanged
  <2>3. CASE bridge.refs = 0
    BY <1>1, <2>1, <2>2, <2>3, NothingToDo DEF Deactivate
  <2>4. CASE bridge.refs > 1
    <3>1. bridge' = [bridge EXCEPT !.refs = bridge.refs - 1] /\ bridge.refs - 1 \in Nat
      BY <1>1, <2>4 DEF Deactivate
    <3>2. /\ bridge' \in Bridge /\ SameLife(bridge', bridge)
          /\ bridge'.retired = bridge.retired /\ bridge'.device = bridge.device
          /\ bridge'.pending = bridge.pending /\ bridge'.gen = bridge.gen
          /\ bridge'.lifecycle = bridge.lifecycle
      BY <3>1 DEF Bridge, SameLife
    <3>3. UseNeedsDevice' /\ NothingOwedForgotten'
      BY <2>2, <3>2 DEF IInv, UseNeedsDevice, NothingOwedForgotten, Active, Streaming
    <3>4. CaptureFollowsStream'
      BY <2>1, <3>2 DEF IInv, CaptureFollowsStream, Streaming
    <3> QED BY <1>1, <2>1, <2>2, <3>2, <3>3, <3>4, AttachedStep
  <2> QED BY <1>1, <1>3, <2>3, <2>4
<1> QED BY <1>2, <1>3

\* Stopping the streams keeps the activation.
LEMMA StopStreamsKeeps ==
    ASSUME IInv, NEW t \in Tokens, StopStreamsRequest(t)
    PROVE  IInv'
<1> USE Types
<1>1. /\ bridge' = StopStreams(bridge) /\ slot' = Heard(slot, StopStreamsCall(bridge))
      /\ server' = [server EXCEPT !.owed = @ - ErrorsOnStop(Active(bridge))]
      /\ enumerator' = enumerator /\ procs' = procs /\ answer' = answer
      /\ bridge.device # NoDevice
  BY AttachedDevice DEF StopStreamsRequest, Handle
<1>2. CASE Active(bridge)
  <2>1. /\ bridge' = StopCapture(bridge) /\ slot' = Heard(slot, StopCall(bridge))
        /\ server' = [server EXCEPT !.owed = @ - bridge.pending]
    BY <1>1, <1>2 DEF StopStreams, StopStreamsCall, ErrorsOnStop
  <2>2. /\ bridge' \in Bridge /\ SameLife(bridge', bridge) /\ bridge'.retired = bridge.retired
        /\ bridge'.device = bridge.device /\ bridge'.pending = 0 /\ ~Streaming(bridge')
    BY <2>1, StopCaptureFields
  <2> QED BY <1>1, <2>1, <2>2, StopStep
<1>3. CASE ~Active(bridge)
  <2>1. /\ bridge' = bridge /\ slot' = Heard(slot, NoCall)
        /\ server' = [server EXCEPT !.owed = @ - 0]
    BY <1>1, <1>3 DEF StopStreams, StopStreamsCall, ErrorsOnStop
  <2>2. slot' = slot /\ server' = server
    BY <2>1, HeardCalls, OwedUnchanged
  <2> QED BY <1>1, <2>1, <2>2, NothingToDo
<1> QED BY <1>2, <1>3

\* A stream starts with nothing pending, and the capture follows with its generation.
LEMMA StartStreamsKeeps ==
    ASSUME IInv, NEW t \in Tokens, NEW ok \in BOOLEAN, StartStreamsRequest(t, ok)
    PROVE  IInv'
<1> USE Types
<1>1. /\ bridge' = StartStreams(bridge, ok) /\ slot' = Heard(slot, StartStreamsCall(bridge, ok))
      /\ server' = server /\ enumerator' = enumerator /\ procs' = procs /\ answer' = answer
      /\ bridge.device # NoDevice
  BY AttachedDevice DEF StartStreamsRequest, Handle
<1>2. CASE MayStartStreams(bridge, ok)
  <2>1. bridge.gen + 1 \in Nat /\ 0 \in 0..MaxPending
    BY MaxPendingAssumption DEF Bridge
  <2>2. bridge' = [bridge EXCEPT !.lifecycle = "streaming", !.gen = bridge.gen + 1,
                                 !.pending = 0, !.credit = FALSE, !.armed = 0]
    BY <1>1, <1>2 DEF StartStreams
  <2>3. bridge' \in Bridge
    BY <2>1, <2>2 DEF Bridge
  <2>4. /\ SameLife(bridge', bridge) /\ bridge'.retired = bridge.retired
        /\ bridge'.device = bridge.device /\ bridge'.pending = 0
        /\ bridge'.gen = bridge.gen + 1 /\ bridge'.lifecycle = "streaming"
    BY <2>2 DEF Bridge, SameLife
  <2>5. slot' = [streaming |-> TRUE, gen |-> bridge.gen + 1, credit |-> 0]
    <3>1. slot' = Heard(slot, Call("start", bridge.gen + 1))
      BY <1>1, <1>2 DEF StartStreamsCall
    <3>2. slot' = Heard(slot, [kind |-> "start", gen |-> bridge.gen + 1])
      BY <3>1 DEF Call
    <3> QED BY <3>2 DEF Heard
  <2>6. slot' \in CaptureSlot /\ slot'.streaming = TRUE /\ slot'.gen = bridge.gen + 1
    <3>1. 0 \in 0..1
      OBVIOUS
    <3> QED BY <2>1, <2>5, <3>1 DEF CaptureSlot
  <2>7. server.owed = 0
    <3>1. bridge.pending = 0
      BY <1>2 DEF IInv, UseNeedsDevice, MayStartStreams, Bridge
    <3> QED BY <3>1 DEF IInv, NothingOwedForgotten
  <2>8. UseNeedsDevice' /\ NothingOwedForgotten'
    BY <1>1, <2>4, <2>7 DEF UseNeedsDevice, NothingOwedForgotten
  <2>9. CaptureFollowsStream'
    BY <2>4, <2>6 DEF CaptureFollowsStream, Streaming
  <2> QED BY <1>1, <2>3, <2>4, <2>6, <2>8, <2>9, AttachedStep
<1>3. CASE ~MayStartStreams(bridge, ok)
  <2>1. bridge' = bridge /\ slot' = Heard(slot, NoCall)
    BY <1>1, <1>3 DEF StartStreams, StartStreamsCall
  <2>2. slot' = slot
    BY <2>1, HeardCalls
  <2> QED BY <1>1, <2>1, <2>2, NothingToDo
<1> QED BY <1>2, <1>3

\* Handing out a credit changes neither the stream nor what is pending.
LEMMA ArmCreditFields ==
    ASSUME NEW b \in Bridge
    PROVE  LET n == ArmCredit(b) IN
           /\ n \in Bridge /\ SameLife(n, b) /\ n.retired = b.retired /\ n.device = b.device
           /\ n.pending = b.pending /\ n.gen = b.gen /\ n.lifecycle = b.lifecycle
  BY DEF ArmCredit, Bridge, SameLife

\* A request that is queued is owed, one that is refused is not.
LEMMA SampleRequestKeeps ==
    ASSUME IInv, NEW t \in Tokens, NEW ok \in BOOLEAN, SampleRequestStep(t, ok)
    PROVE  IInv'
<1> USE Types
<1>1. /\ bridge' = SampleRequest(bridge, ok)
      /\ slot' = Heard(slot, SampleRequestCall(bridge, ok))
      /\ server' = IF MayQueueSample(bridge, ok)
                   THEN [server EXCEPT !.owed = @ + 1] ELSE server
      /\ enumerator' = enumerator /\ procs' = procs /\ answer' = answer
      /\ bridge.device # NoDevice
  BY AttachedDevice DEF SampleRequestStep, Handle
<1>2. slot' \in CaptureSlot /\ slot'.gen = slot.gen /\ slot'.streaming = slot.streaming
  <2>1. bridge.gen \in Nat
    BY DEF Bridge
  <2>2. CASE slot' = Heard(slot, Call("sample", bridge.gen))
    BY <2>1, <2>2, HeardCalls
  <2>3. CASE slot' = Heard(slot, NoCall)
    BY <2>3, HeardCalls
  <2> QED BY <1>1, <2>2, <2>3 DEF SampleRequestCall
<1>3. CASE MayQueueSample(bridge, ok)
  <2> DEFINE m == [bridge EXCEPT !.pending = bridge.pending + 1]
  <2>1. bridge' = ArmCredit(m)
    BY <1>1, <1>3 DEF SampleRequest
  <2>2. bridge.pending \in 0..MaxPending /\ bridge.pending + 1 \in 0..MaxPending
    BY <1>3, MaxPendingAssumption DEF MayQueueSample, Bridge
  <2>3. /\ m \in Bridge /\ SameLife(m, bridge) /\ m.retired = bridge.retired
        /\ m.device = bridge.device /\ m.pending = bridge.pending + 1 /\ m.gen = bridge.gen
        /\ m.lifecycle = bridge.lifecycle
    BY <2>2 DEF Bridge, SameLife
  <2> HIDE DEF m
  <2>4. /\ bridge' \in Bridge /\ SameLife(bridge', bridge) /\ bridge'.retired = bridge.retired
        /\ bridge'.device = bridge.device /\ bridge'.pending = bridge.pending + 1
        /\ bridge'.gen = bridge.gen /\ bridge'.lifecycle = bridge.lifecycle
    BY <2>1, <2>3, ArmCreditFields DEF SameLife
  <2>5. server.owed = bridge.pending
    BY DEF IInv, NothingOwedForgotten
  <2>6. server' = [server EXCEPT !.owed = bridge.pending + 1]
    BY <1>1, <1>3, <2>5
  <2>7. /\ server' \in Server /\ server'.addedAt = server.addedAt
        /\ server'.owed = bridge.pending + 1
    BY <2>2, <2>6 DEF Server
  <2>8. UseNeedsDevice' /\ NothingOwedForgotten'
    BY <1>1, <1>3, <2>4, <2>7 DEF UseNeedsDevice, NothingOwedForgotten, MayQueueSample, Streaming
  <2>9. CaptureFollowsStream'
    BY <1>2, <2>4 DEF IInv, CaptureFollowsStream, Streaming
  <2> QED BY <1>1, <1>2, <2>4, <2>7, <2>8, <2>9, AttachedStep
<1>4. CASE ~MayQueueSample(bridge, ok)
  <2>1. bridge' = bridge /\ slot' = Heard(slot, NoCall) /\ server' = server
    BY <1>1, <1>4 DEF SampleRequest, SampleRequestCall
  <2>2. slot' = slot
    BY <2>1, HeardCalls
  <2> QED BY <1>1, <2>1, <2>2, NothingToDo
<1> QED BY <1>3, <1>4

\* A frame takes the credit of its stream into the mailbox.
LEMMA CaptureKeeps ==
    ASSUME IInv, Capture
    PROVE  IInv'
<1> USE Types
<1>1. /\ slot' = [slot EXCEPT !.credit = 0] /\ answer' = slot.gen
      /\ bridge' = bridge /\ enumerator' = enumerator /\ procs' = procs /\ server' = server
  BY DEF Capture
<1>2. 0 \in 0..1
  OBVIOUS
<1>3. /\ slot' \in CaptureSlot /\ slot'.streaming = slot.streaming /\ slot'.gen = slot.gen
      /\ slot.gen \in Nat
  BY <1>1, <1>2 DEF CaptureSlot
<1>4. TypeOK'
  BY <1>1, <1>3 DEF IInv, TypeOK, CaptureSlot
<1>5. CaptureFollowsStream'
  BY <1>1, <1>3 DEF IInv, CaptureFollowsStream
<1> QED BY <1>1, <1>4, <1>5 DEF IInv, TokensOrdered, UseNeedsDevice, DeviceIsCurrent,
                                NothingOwedForgotten

\* An answer of the current stream settles one request; any other is dropped.
LEMMA SendAnswerKeeps ==
    ASSUME IInv, SendAnswer
    PROVE  IInv'
<1> USE Types
<1>1. answer' = 0 /\ slot' = slot /\ enumerator' = enumerator /\ procs' = procs
  BY DEF SendAnswer
<1>2. CASE MayAnswer(bridge, answer)
  <2> DEFINE m == [bridge EXCEPT !.pending = bridge.pending - 1, !.credit = FALSE]
  <2> DEFINE n == ArmCredit(m)
  <2>1. bridge' = [n EXCEPT !.armed = IF CanArm(m) THEN bridge.gen ELSE 0]
        /\ server' = [server EXCEPT !.owed = @ - 1]
    BY <1>2 DEF SendAnswer, Answer
  <2>2. /\ bridge.pending \in 0..MaxPending /\ bridge.pending - 1 \in 0..MaxPending
        /\ bridge.pending > 0 /\ Streaming(bridge) /\ bridge.device # NoDevice
    BY <1>2, MaxPendingAssumption DEF MayAnswer, Bridge
  <2>3. /\ m \in Bridge /\ SameLife(m, bridge) /\ m.retired = bridge.retired
        /\ m.device = bridge.device /\ m.pending = bridge.pending - 1 /\ m.gen = bridge.gen
        /\ m.lifecycle = bridge.lifecycle
    BY <2>2 DEF Bridge, SameLife
  <2> HIDE DEF m
  <2>4. /\ n \in Bridge /\ SameLife(n, bridge) /\ n.retired = bridge.retired
        /\ n.device = bridge.device /\ n.pending = bridge.pending - 1 /\ n.gen = bridge.gen
        /\ n.lifecycle = bridge.lifecycle
    BY <2>3, ArmCreditFields DEF SameLife
  <2> HIDE DEF n
  <2>5. (IF CanArm(m) THEN bridge.gen ELSE 0) \in Nat
    BY DEF Bridge
  <2>6. /\ bridge' \in Bridge /\ SameLife(bridge', bridge) /\ bridge'.retired = bridge.retired
        /\ bridge'.device = bridge.device /\ bridge'.pending = bridge.pending - 1
        /\ bridge'.gen = bridge.gen /\ bridge'.lifecycle = bridge.lifecycle
    BY <2>1, <2>4, <2>5 DEF Bridge, SameLife
  <2>7. server.owed = bridge.pending
    BY DEF IInv, NothingOwedForgotten
  <2>8. server' = [server EXCEPT !.owed = bridge.pending - 1]
    BY <2>1, <2>7
  <2>9. /\ server' \in Server /\ server'.addedAt = server.addedAt
        /\ server'.owed = bridge.pending - 1
    BY <2>2, <2>8 DEF Server
  <2>10. UseNeedsDevice' /\ NothingOwedForgotten'
    BY <2>2, <2>6, <2>9 DEF UseNeedsDevice, NothingOwedForgotten, Streaming
  <2>11. CaptureFollowsStream'
    BY <1>1, <2>6 DEF IInv, CaptureFollowsStream, Streaming
  <2> QED BY <1>1, <2>6, <2>9, <2>10, <2>11, AttachedStep
<1>3. CASE ~MayAnswer(bridge, answer)
  <2>1. bridge' = bridge /\ server' = server
    BY <1>3 DEF SendAnswer
  <2> QED BY <1>1, <2>1, NothingToDo
<1> QED BY <1>2, <1>3

\* Telling the next credit changes neither the stream nor what is pending.
LEMMA NotifyNextCreditKeeps ==
    ASSUME IInv, NotifyNextCredit
    PROVE  IInv'
<1> USE Types
<1>1. /\ bridge' = [bridge EXCEPT !.armed = 0]
      /\ slot' = Heard(slot, Call("sample", bridge.armed))
      /\ server' = server /\ enumerator' = enumerator /\ procs' = procs /\ answer' = answer
  BY DEF NotifyNextCredit, Handle, NextCreditTaken, NextCreditCall
<1>2. slot' \in CaptureSlot /\ slot'.gen = slot.gen /\ slot'.streaming = slot.streaming
  <2>1. bridge.armed \in Nat
    BY DEF Bridge
  <2> QED BY <1>1, <2>1, HeardCalls
<1>3. /\ bridge' \in Bridge /\ SameLife(bridge', bridge) /\ bridge'.retired = bridge.retired
      /\ bridge'.device = bridge.device /\ bridge'.pending = bridge.pending
      /\ bridge'.gen = bridge.gen /\ bridge'.lifecycle = bridge.lifecycle
  BY <1>1 DEF Bridge, SameLife
<1>4. UseNeedsDevice' /\ NothingOwedForgotten'
  BY <1>1, <1>3 DEF IInv, UseNeedsDevice, NothingOwedForgotten, Active, Streaming
<1>5. CaptureFollowsStream'
  BY <1>2, <1>3 DEF IInv, CaptureFollowsStream, Streaming
<1> QED BY <1>1, <1>2, <1>3, <1>4, <1>5, AttachedStep

\* Every step of the specification keeps the invariant.
LEMMA IInvStep == IInv /\ [Next]_vars => IInv'
<1> SUFFICES ASSUME IInv, [Next]_vars PROVE IInv'
  OBVIOUS
<1>1. ASSUME NEW available \in BOOLEAN, SetAvailableStep(available) PROVE IInv'
  BY <1>1, SetAvailableKeeps
<1>2. ASSUME NEW c \in Channels, StartEnumerator(c) PROVE IInv'
  BY <1>2, StartEnumeratorKeeps
<1>3. ASSUME VersionResponse \/ CloseEnumerator \/ CreateProcessor PROVE IInv'
  BY <1>3, VersionResponseKeeps, CloseEnumeratorKeeps, CreateProcessorKeeps
<1>4. ASSUME NEW t \in Tokens, NEW c \in Channels, StartDevice(t, c) PROVE IInv'
  BY <1>4, StartDeviceKeeps
<1>5. ASSUME NEW t \in Tokens, CloseDevice(t) \/ ActivateRequest(t) PROVE IInv'
  BY <1>5, CloseDeviceKeeps, ActivateKeeps
<1>6. ASSUME NEW t \in Tokens, DeactivateRequest(t) \/ StopStreamsRequest(t) PROVE IInv'
  BY <1>6, DeactivateKeeps, StopStreamsKeeps
<1>7. ASSUME NEW t \in Tokens, NEW ok \in BOOLEAN,
             StartStreamsRequest(t, ok) \/ SampleRequestStep(t, ok)
      PROVE  IInv'
  BY <1>7, StartStreamsKeeps, SampleRequestKeeps
<1>8. ASSUME Capture \/ SendAnswer \/ NotifyNextCredit PROVE IInv'
  BY <1>8, CaptureKeeps, SendAnswerKeeps, NotifyNextCreditKeeps
<1>9. CASE UNCHANGED vars
  BY <1>9, NothingToDo, Types DEF vars
<1> QED BY <1>1, <1>2, <1>3, <1>4, <1>5, <1>6, <1>7, <1>8, <1>9 DEF Next

-----------------------------------------------------------------------------
(* The results. *)

\* The inductive invariant holds in every reachable state.
THEOREM Invariance == Spec => []IInv
  BY InitIInv, IInvStep, PTL DEF Spec

\* The variables keep their types.
THEOREM TypeCorrect == Spec => []TypeOK
<1>1. IInv => TypeOK
  BY DEF IInv
<1> QED BY <1>1, Invariance, PTL

\* CameraDevice::start never attaches an object of an earlier announcement, whatever the
\* order in which the server opens and closes channels and uses their numbers again, and
\* the attached object always listens on the channel it was attached with.
THEOREM AttachedIsCurrent == Spec => []DeviceIsCurrent
<1>1. IInv => DeviceIsCurrent
  BY DEF IInv
<1> QED BY <1>1, Invariance, PTL

\* Every sample request that was accepted is still pending, or was answered exactly once:
\* by a frame, by the errors of a stop, or with the channel that asked it.
THEOREM NothingForgotten == Spec => []NothingOwedForgotten
<1>1. IInv => NothingOwedForgotten
  BY DEF IInv
<1> QED BY <1>1, Invariance, PTL

\* The capture side streams while the bridge does and for its generation, at every point
\* where a handler and its callback are done.
THEOREM CaptureFollows == Spec => []CaptureFollowsStream
<1>1. IInv => CaptureFollowsStream
  BY DEF IInv
<1> QED BY <1>1, Invariance, PTL
=============================================================================
