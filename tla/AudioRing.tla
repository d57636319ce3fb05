----------------------------- MODULE AudioRing -----------------------------
(***************************************************************************)
(* One source of the audio mixer: the lock-free ring between the worker of *)
(* a session, which pushes PCM and changes its format, and the pump, which *)
(* renders a block every 10 ms (audio_pipeline_source.c).                  *)
(*                                                                         *)
(* A step is one access to an atomic the other thread also writes, with    *)
(* what its thread does up to the next.  The decision to play              *)
(* (source_prepare_playout, with the check that the source is open) is one *)
(* step, and so is a trim with the load that follows it: they move only    *)
(* the reader's own cursor.  A frame carries what it was pushed as, and    *)
(* where.  The sample rate is the number of frames of a unit of time; the  *)
(* converter makes one frame of each it takes; a block is two fades long.  *)
(***************************************************************************)
EXTENDS Integers, Sequences

CONSTANTS
    Capacity,       \* NATIVE_AUDIO_PIPELINE_CAPACITY_FRAMES
    Wrap,           \* 2^32, where the cursors wrap
    FadeFrames,     \* NATIVE_AUDIO_FADE_FRAMES, half a block
    TargetMin, TargetInitial,   \* NATIVE_AUDIO_TARGET_*_MS
    Headroom,       \* NATIVE_AUDIO_TARGET_HEADROOM_MS
    TrimKeep,       \* NATIVE_AUDIO_HARD_TRIM_KEEP_MS
    TrimError,      \* NATIVE_AUDIO_HARD_TRIM_ERROR_MS
    PushSizes,      \* the sizes of a packet
    Limits          \* bounds to choose from: the calls that change the format or
                    \* close (formats), the long gaps (gaps), the sample rates
                    \* (rates) and NATIVE_AUDIO_TARGET_MAX_MS (most)

\* The ring keeps its place when a cursor wraps, a boundary left behind does not
\* look like one ahead, and the largest target, with what a trim keeps above it,
\* fits in the ring at the highest rate.
ASSUME RingConstants ==
    /\ Capacity \in Nat \ {0} /\ Wrap \in Nat /\ Wrap >= 3 * Capacity /\ Wrap % Capacity = 0
    /\ PushSizes \subseteq Nat \ {0} /\ FadeFrames \in Nat \ {0}
    /\ TargetMin \in Nat \ {0} /\ TargetInitial \in Nat /\ TargetMin <= TargetInitial
    /\ Headroom \in Nat /\ TrimKeep \in Nat /\ TrimError \in Nat
    /\ Limits # {} /\ Limits \subseteq [formats: Nat, gaps: Nat, rates: SUBSET Nat, most: Nat]
    /\ \A l \in Limits : /\ TargetInitial <= l.most /\ 0 \notin l.rates /\ l.rates # {}
                        /\ \A r \in l.rates : (l.most + TrimKeep) * r <= Capacity

VARIABLES
    shared,     \* the atomics of NativeAudioSource
    ring,       \* the samples
    producer,   \* the worker's side
    pump,       \* the render thread's side
    limits,     \* the bounds of this behaviour, never changed
    age,        \* time since the last packet: 0, 1 (a stale burst), 2 (a long gap)
    heard       \* the frames the converter took in this step

vars == <<shared, ring, producer, pump, limits, age, heard>>

NoFrame == [at |-> 0, gen |-> 0, spurt |-> 0, rate |-> 0]

Init ==
    /\ shared = [read |-> 0, write |-> 0, reset |-> 0, gen |-> 0, rate |-> 0, open |-> FALSE,
                 spurtCursor |-> 0, spurt |-> 0, trim |-> FALSE, target |-> TargetInitial]
    /\ ring = [i \in 0..(Capacity - 1) |-> NoFrame]
    /\ producer = [pc |-> "idle", rate |-> 0, frames |-> 0, known |-> FALSE]
    /\ pump = [pc |-> "generation", converting |-> FALSE, changed |-> FALSE, loaded |-> 0,
               applied |-> 0, seen |-> 0, rate |-> 0, write |-> 0, live |-> FALSE,
               rebuffering |-> TRUE, trimAfterFade |-> FALSE, fade |-> 0, segment |-> 0,
               left |-> 0, underrun |-> FALSE]
    /\ limits \in Limits
    /\ age = 0
    /\ heard = <<>>

-----------------------------------------------------------------------------
\* Cursors.

Ahead(from, to) == (to - from) % Wrap

Least(a, b) == IF a < b THEN a ELSE b

\* native_audio_source_queue_ms.
QueueMs(s) == IF s.rate = 0 THEN 0 ELSE Ahead(s.read, s.write) \div s.rate

\* source_advance_read_cursor: a boundary the reader has passed is left alone.
Advanced(read, boundary) == IF Ahead(read, boundary) <= Capacity THEN boundary ELSE read

\* source_trim_to_target keeps the target and a little more.
Trimmed(s, rate) ==
    LET queued == Ahead(s.read, s.write)
        kept   == (s.target + TrimKeep) * rate
    IN  [s EXCEPT !.read = IF queued > kept THEN (@ + queued - kept) % Wrap ELSE @,
                  !.trim = FALSE]

\* source_prepare_playout's trim request: the producer's, or a backlog too long.
WantsTrim(s) ==
    \/ s.trim
    \/ QueueMs(s) > s.target + (IF s.target > TrimError THEN s.target ELSE TrimError)

-----------------------------------------------------------------------------
\* The worker.

ProducerAt(here, there) == producer.pc = here /\ producer' = [producer EXCEPT !.pc = there]

ReaderIdle == heard' = <<>> /\ UNCHANGED pump

\* native_audio_pipeline_set_source_format, up to its store of the rate.
SetFormat(rate) ==
    /\ producer.pc = "idle" /\ shared.gen < limits.formats
    /\ producer' = [producer EXCEPT !.pc = "formatReset", !.rate = rate, !.known = FALSE]
    /\ shared' = [shared EXCEPT !.target = TargetInitial, !.rate = rate]
    /\ UNCHANGED <<ring, age, limits>> /\ ReaderIdle

FormatReset ==
    /\ ProducerAt("formatReset", "formatGeneration")
    /\ shared' = [shared EXCEPT !.reset = shared.write]
    /\ UNCHANGED <<ring, age, limits>> /\ ReaderIdle

FormatGeneration ==
    /\ ProducerAt("formatGeneration", "formatOpen")
    /\ shared' = [shared EXCEPT !.gen = @ + 1]
    /\ UNCHANGED <<ring, age, limits>> /\ ReaderIdle

FormatOpen ==
    /\ ProducerAt("formatOpen", "idle")
    /\ shared' = [shared EXCEPT !.open = TRUE]
    /\ UNCHANGED <<ring, age, limits>> /\ ReaderIdle

\* native_audio_pipeline_close_source.
Close ==
    /\ ProducerAt("idle", "closeReset") /\ shared.gen < limits.formats
    /\ shared' = [shared EXCEPT !.open = FALSE]
    /\ UNCHANGED <<ring, age, limits>> /\ ReaderIdle

CloseReset ==
    /\ ProducerAt("closeReset", "closeGeneration")
    /\ shared' = [shared EXCEPT !.reset = shared.write]
    /\ UNCHANGED <<ring, age, limits>> /\ ReaderIdle

CloseGeneration ==
    /\ producer.pc = "closeGeneration"
    /\ producer' = [producer EXCEPT !.pc = "idle", !.known = FALSE]
    /\ shared' = [shared EXCEPT !.gen = @ + 1]
    /\ UNCHANGED <<ring, age, limits>> /\ ReaderIdle

\* What native_audio_jitter_update may make of the target: at least the initial one after a
\* gap, a raise, a decay once an arrival is known, or nothing (a decay that lost to a raise).
NextTarget(gap, target) ==
    \/ gap /\ target >= TargetInitial
    \/ ~gap /\ target >= shared.target
    \/ ~gap /\ producer.known /\ target = shared.target - 1

\* native_audio_pipeline_push, up to the target; a gap starts a talkspurt.
BeginPush(frames, target) ==
    /\ producer.pc = "idle" /\ shared.open
    /\ LET gap == producer.known /\ age = 2 IN
         /\ NextTarget(gap, target)
         /\ producer' = [producer EXCEPT !.pc = IF gap THEN "spurtCursor" ELSE "pushRead",
                                         !.frames = frames, !.known = TRUE]
    /\ shared' = [shared EXCEPT !.target = target]
    /\ age' = 0
    /\ UNCHANGED <<ring, limits>> /\ ReaderIdle

SpurtCursor ==
    /\ ProducerAt("spurtCursor", "spurtGeneration")
    /\ shared' = [shared EXCEPT !.spurtCursor = shared.write]
    /\ UNCHANGED <<ring, age, limits>> /\ ReaderIdle

SpurtGeneration ==
    /\ ProducerAt("spurtGeneration", "pushRead")
    /\ shared' = [shared EXCEPT !.spurt = @ + 1]
    /\ UNCHANGED <<ring, age, limits>> /\ ReaderIdle

\* Mutant: one frame more than there is room for.
RoomAndOne(used) == Capacity + 1 - used

\* The frames that fit.
Room(used) == IF used < Capacity THEN Capacity - used ELSE 0

\* Loads the reader's cursor and copies; what does not fit is dropped and asks for a trim.
PushRead ==
    /\ producer.pc = "pushRead"
    /\ LET fits == Least(producer.frames, Room(Ahead(shared.read, shared.write))) IN
         /\ producer' = [producer EXCEPT !.pc = IF fits = 0 THEN "idle" ELSE "publish",
                                         !.frames = fits]
         /\ shared' = [shared EXCEPT !.trim = @ \/ fits < producer.frames]
         /\ ring' = [i \in DOMAIN ring |->
                       LET k == (i - shared.write) % Capacity IN
                       IF k < fits
                         THEN [at |-> (shared.write + k) % Wrap, gen |-> shared.gen,
                               spurt |-> shared.spurt, rate |-> producer.rate]
                         ELSE ring[i]]
    /\ UNCHANGED <<age, limits>> /\ ReaderIdle

Publish ==
    /\ producer.pc = "publish"
    /\ shared' = [shared EXCEPT !.write = (@ + producer.frames) % Wrap]
    /\ producer' = [producer EXCEPT !.pc = "idle", !.frames = 0]
    /\ UNCHANGED <<ring, age, limits>> /\ ReaderIdle

-----------------------------------------------------------------------------
\* The pump: one source_read per block.

WriterIdle == UNCHANGED <<ring, producer, age, limits>>

Silent == heard' = <<>>

\* The end of source_read.
Rest(p) == [p EXCEPT !.pc = "generation", !.converting = FALSE, !.changed = FALSE,
                     !.underrun = FALSE, !.segment = 0, !.left = 0, !.write = 0]

\* What a discontinuity leaves of the playout.
Cut(p) == [p EXCEPT !.live = FALSE, !.rebuffering = TRUE, !.trimAfterFade = FALSE, !.fade = 0]

\* After the generations have been looked at: a read begins or goes on to the samples; a
\* discontinuity while converting ends the block, and an underrun before it still counts.
AfterChecks(p) ==
    IF ~p.converting THEN [p EXCEPT !.pc = "prepare"]
    ELSE IF ~p.changed THEN [p EXCEPT !.pc = "convert"]
    ELSE IF p.underrun THEN [p EXCEPT !.pc = "underrun"] ELSE Rest(p)

\* source_apply_generation: the generation, the rate, then the cursor.
LoadGeneration ==
    /\ pump.pc = "generation"
    /\ pump' = IF shared.gen = pump.applied
                 THEN [pump EXCEPT !.pc = "talkspurt"]
                 ELSE [pump EXCEPT !.pc = "rate", !.loaded = shared.gen]
    /\ Silent /\ WriterIdle /\ UNCHANGED shared

LoadRate ==
    /\ pump.pc = "rate"
    /\ pump' = [pump EXCEPT !.pc = "reset", !.rate = shared.rate]
    /\ Silent /\ WriterIdle /\ UNCHANGED shared

ApplyGeneration ==
    /\ pump.pc = "reset"
    /\ shared' = [shared EXCEPT !.read = Advanced(@, shared.reset)]
    /\ pump' = [Cut(pump) EXCEPT !.pc = "talkspurt", !.applied = pump.loaded, !.changed = TRUE,
                                !.loaded = 0]
    /\ Silent /\ WriterIdle

\* source_apply_talkspurt.
LoadTalkspurt ==
    /\ pump.pc = "talkspurt"
    /\ pump' = IF shared.spurt = pump.seen
                 THEN AfterChecks(pump)
                 ELSE [pump EXCEPT !.pc = "spurtCursor", !.loaded = shared.spurt]
    /\ Silent /\ WriterIdle /\ UNCHANGED shared

ApplyTalkspurt ==
    /\ pump.pc = "spurtCursor"
    /\ shared' = [shared EXCEPT !.read = Advanced(@, shared.spurtCursor)]
    /\ pump' = AfterChecks([Cut(pump) EXCEPT !.seen = pump.loaded, !.changed = TRUE,
                                          !.loaded = 0])
    /\ Silent /\ WriterIdle

\* Mutant: only a full target starts the playout.
MayStartOnTarget(s) == QueueMs(s) >= s.target

\* Enough is queued, or a short burst has waited too long.
MayStart(s) == QueueMs(s) >= s.target \/ (QueueMs(s) > 0 /\ age >= 1)

\* source_read from its check that the source is open and has a converter, with
\* source_prepare_playout and source_prepare_live_read.
Prepare ==
    /\ pump.pc = "prepare"
    /\ LET usable == shared.open /\ pump.rate # 0
           s == IF usable /\ pump.rebuffering /\ WantsTrim(shared)
                  THEN Trimmed(shared, pump.rate) ELSE shared
           live == pump.live \/ (pump.rebuffering /\ MayStart(s))
           fades == ~pump.trimAfterFade /\ pump.fade = 0 /\ WantsTrim(s)
       IN /\ shared' = s
          /\ pump' = CASE ~usable -> Rest([pump EXCEPT !.live = FALSE, !.rebuffering = TRUE])
                       [] usable /\ ~live -> Rest(pump)
                       [] usable /\ live ->
                            [pump EXCEPT !.pc = "segment", !.live = TRUE, !.rebuffering = FALSE,
                                         !.trimAfterFade = @ \/ fades,
                                         !.fade = IF fades THEN FadeFrames ELSE @,
                                         !.left = 2 * FadeFrames, !.changed = FALSE]
    /\ Silent /\ WriterIdle

\* A segment goes to the end of the fade or of the block.
SegmentOf(p) == IF p.fade > 0 THEN Least(p.left, p.fade) ELSE p.left

\* The head of source_render_live's loop trims once the fade has made way for it;
\* source_convert_frames loads the writer's cursor before it looks at the generations.
LoadWrite ==
    /\ pump.pc \in {"segment", "more"}
    /\ LET trims == pump.pc = "segment" /\ pump.trimAfterFade /\ pump.fade = 0 IN
         /\ shared' = IF trims THEN Trimmed(shared, pump.rate) ELSE shared
         /\ pump' = [pump EXCEPT !.pc = "generation", !.converting = TRUE,
                                 !.write = shared.write, !.trimAfterFade = @ /\ ~trims,
                                 !.segment = IF pump.pc = "segment" THEN SegmentOf(pump) ELSE @]
    /\ Silent /\ WriterIdle

\* The end of a segment: `short` when not all of it could be made.
SegmentDone(p, short) ==
    LET left == p.left - p.segment IN
    CASE left > 0 -> [p EXCEPT !.pc = "segment", !.left = left, !.underrun = @ \/ short,
                               !.fade = 0, !.segment = 0, !.write = 0]
      [] left = 0 /\ (short \/ p.underrun) -> [p EXCEPT !.pc = "underrun", !.fade = 0]
      [] OTHER -> Rest([p EXCEPT !.fade = 0])

\* Mutant: the writer's cursor is looked at after the generations.
SeenLatest == shared.write

\* How far the converter has seen the writer get.
Seen == pump.write

\* Takes some of the frames it has seen, up to the ring's end; for what is then still to make
\* of the segment it looks again.
Convert ==
    /\ pump.pc = "convert"
    /\ LET queued == Ahead(shared.read, Seen)
           place  == shared.read % Capacity
           some   == Least(Least(queued, pump.segment), Capacity - place)
       IN \/ /\ queued = 0
             /\ pump' = SegmentDone(pump, TRUE)
             /\ Silent /\ UNCHANGED shared
          \/ \E n \in 1..some :
               /\ shared' = [shared EXCEPT !.read = (@ + n) % Wrap]
               /\ heard' = [i \in 1..n |-> ring[place + i - 1]]
               /\ pump' = IF n = pump.segment
                            THEN SegmentDone(pump, FALSE)
                            ELSE [pump EXCEPT !.pc = "more", !.segment = @ - n, !.left = @ - n,
                                              !.write = 0, !.fade = IF @ > n THEN @ - n ELSE 0]
    /\ WriterIdle

\* source_handle_underrun raises the target and waits for it again.
Underrun ==
    /\ pump.pc = "underrun"
    /\ shared' = [shared EXCEPT !.target =
                    IF @ + Headroom > limits.most THEN limits.most ELSE @ + Headroom]
    /\ pump' = Rest(Cut(pump))
    /\ Silent /\ WriterIdle

\* Time passes.
Tick ==
    /\ age = 0 \/ (age = 1 /\ shared.spurt < limits.gaps)
    /\ age' = age + 1
    /\ UNCHANGED <<shared, ring, producer, limits>> /\ ReaderIdle

-----------------------------------------------------------------------------
FormatCall == FormatReset \/ FormatGeneration \/ FormatOpen \/ CloseReset \/ CloseGeneration
PushCall == SpurtCursor \/ SpurtGeneration \/ PushRead \/ Publish

Render ==
    \/ LoadGeneration \/ LoadRate \/ ApplyGeneration \/ LoadTalkspurt \/ ApplyTalkspurt
    \/ Prepare \/ LoadWrite \/ Convert \/ Underrun

Next ==
    \/ \E rate \in limits.rates : SetFormat(rate)
    \/ Close
    \/ \E frames \in PushSizes, target \in TargetMin..limits.most : BeginPush(frames, target)
    \/ FormatCall \/ PushCall \/ Render \/ Tick

Spec == Init /\ [][Next]_vars

\* A call of the worker returns, the pump renders a block every 10 ms, and time passes.
FairSpec == Spec /\ WF_vars(FormatCall \/ PushCall) /\ WF_vars(Render) /\ WF_vars(Tick)

-----------------------------------------------------------------------------
\* Properties.

\* What is heard belongs to the format and to the talkspurt the converter was last set up
\* for: no frame queued before a change of format or a long gap is played after it, although
\* the two are published with atomics of their own (source_convert_frames loads the writer's
\* cursor before it looks at the generations).  It is converted at the rate it was pushed
\* with, but for frames of a format that is being changed: the next rate is stored before
\* the generation that goes with it.
HeardIsCurrent ==
    \A i \in DOMAIN heard :
        /\ heard[i].gen = pump.applied /\ heard[i].spurt = pump.seen
        /\ heard[i].rate # pump.rate
             => shared.gen # pump.applied \/ producer.pc \in {"formatReset", "formatGeneration"}

\* What is heard is what was pushed there: the worker never writes over a frame the pump may
\* still take, and the pump never takes one that is not yet published, across trims, drops,
\* overflows and the wrap of the cursors.
HeardAsPushed == [][\A i \in DOMAIN heard' : heard'[i].at = (shared.read + i - 1) % Wrap]_vars

\* A burst too short to reach the target is played, or dropped by a change of format, instead
\* of being stranded until the next packet (source_prepare_playout's stale_short_burst).
BurstIsPlayed == <>[](age >= 1) => <>[](QueueMs(shared) = 0)
=============================================================================
