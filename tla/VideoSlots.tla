----------------------------- MODULE VideoSlots -----------------------------
(***************************************************************************)
(* Four session slots share one hardware decoder.  This module has the     *)
(* operations of the C shell on a slot and on the decoder:                 *)
(* native_rdp_video.c and au_snapshot.c, which the RDP workers run under   *)
(* video_lock, and native_session.c, which only the SDL thread runs.       *)
(* SessionSwitch makes them steps.                                         *)
(*                                                                         *)
(* They act on the world w, a record of                                    *)
(*   app   the SDL thread's own fields (and active_index, which it stores) *)
(*   ses   the slots                                                       *)
(*   scr   the decoder and the RGBA canvas, guarded by video_lock          *)
(*   peer  each connection's far end: what its server has been told        *)
(*                                                                         *)
(* An access unit is a seed (SPS/PPS/IDR) or a delta, which can only be    *)
(* decoded after its predecessor.  A taker of a stream, the decoder or a   *)
(* cache, is "level" when the last unit the client received of that        *)
(* connection is the last one it took; a decoder that takes a delta when   *)
(* it is not level is "broken", until a seed repairs it.                   *)
(* Epochs are compared only for equality with the owner's, so an owner     *)
(* keeps whether its epoch is still the slot's instead of a number.        *)
(***************************************************************************)
EXTENDS Naturals

CONSTANTS
    Slots,          \* the colour-key sessions
    None,           \* no slot
    MaxCache,       \* NATIVE_AU_SNAPSHOT_MAX_AUS
    MaxPaths,       \* NATIVE_MAX_GRAPHICS_PATH_SWITCHES
    SnapshotForce   \* LGNOME_SNAPSHOT_FORCE

ASSUME MaxCacheAssumption == MaxCache \in Nat \ {0}
ASSUME MaxPathsAssumption == MaxPaths \in Nat
ASSUME SnapshotForceAssumption == SnapshotForce \in BOOLEAN
ASSUME NoneAssumption == None \notin Slots

Cache == [armed: BOOLEAN, len: 0..MaxCache, level: BOOLEAN, gap: BOOLEAN]
NoCache == [armed |-> FALSE, len |-> 0, level |-> FALSE, gap |-> FALSE]
ArmedCache == [NoCache EXCEPT !.armed = TRUE]
CacheReady(c) == c.armed /\ c.len > 0

Slot == [rdp: BOOLEAN, state: {"idle", "connecting", "active", "closed"}, failed: BOOLEAN,
         suppressed: BOOLEAN, pending: BOOLEAN, retried: BOOLEAN, deaf: BOOLEAN,
         bitmap: BOOLEAN, seen: BOOLEAN, paths: 0..(MaxPaths + 1),
         cache: Cache, ready: BOOLEAN]

EmptySlot == [rdp |-> FALSE, state |-> "idle", failed |-> FALSE, suppressed |-> FALSE,
              pending |-> FALSE, retried |-> FALSE, deaf |-> FALSE, bitmap |-> FALSE,
              seen |-> FALSE, paths |-> 0, cache |-> NoCache, ready |-> FALSE]

Screen == [owner: Slots \cup {None}, current: BOOLEAN, needKey: BOOLEAN, level: BOOLEAN,
           broken: BOOLEAN, asked: BOOLEAN, refresh: BOOLEAN,
           rgba: Slots \cup {None}, rgbaCurrent: BOOLEAN]

DarkScreen == [owner |-> None, current |-> FALSE, needKey |-> FALSE, level |-> FALSE,
               broken |-> FALSE, asked |-> FALSE, refresh |-> FALSE,
               rgba |-> None, rgbaCurrent |-> FALSE]

\* A server streams when `on`; `want` and `refresh` are commands it has not
\* applied yet, `fresh` says its next unit is a seed.
Peer == [on: BOOLEAN, want: BOOLEAN, refresh: BOOLEAN, fresh: BOOLEAN]
NoPeer == [on |-> FALSE, want |-> TRUE, refresh |-> FALSE, fresh |-> TRUE]

LiveTarget(w, s) ==
    LET slot == w.ses[s]
    IN  slot.rdp /\ ~slot.failed /\ (slot.state = "active" \/ slot.pending)

StillConnecting(w, s) == w.ses[s].rdp /\ w.ses[s].state # "active"
AnyConnected(w) == \E s \in Slots : w.ses[s].rdp

(***************************************************************************)
(* Terminal events.  terminal_state is taken by compare-and-swap, so only  *)
(* the first event of a connection counts.  A decoder failure of the slot  *)
(* on screen stops the program; everything else waits for the supervisor.  *)
(***************************************************************************)
ReportTerminal(w, s) == [w EXCEPT !.ses[s].failed = TRUE]

DecoderError(w, s) ==
    IF w.ses[s].failed THEN w
    ELSE IF w.app.active = s THEN [w EXCEPT !.app.running = FALSE]
    ELSE ReportTerminal(w, s)

(***************************************************************************)
(* The cache: native_au_snapshot_append                                    *)
(***************************************************************************)
Append(c, unit, fits) ==
    IF unit = "seed"
    THEN IF fits THEN [armed |-> TRUE, len |-> 1, level |-> TRUE, gap |-> FALSE] ELSE NoCache
    ELSE IF c.len = 0 THEN c
    ELSE IF ~fits \/ c.len = MaxCache THEN NoCache
    ELSE [c EXCEPT !.len = @ + 1, !.gap = @ \/ ~c.level, !.level = TRUE]

(***************************************************************************)
(* The decoder                                                             *)
(*                                                                         *)
(* `luck` is how one unit fares: "ok", "notready" (the backend drops it    *)
(* and will want a keyframe), "resized" (the desktop has a new size),      *)
(* "big" (it does not fit a cache) or "error".                             *)
(***************************************************************************)
Lucks == {"ok", "notready", "resized", "big", "error"}

\* The decoder did not take the last unit of slot s.
Missed(w, s) == [w EXCEPT !.scr.level = @ /\ w.scr.owner # s]

Feed(w, s, unit, luck) ==
    IF luck = "error" THEN DecoderError(w, s)
    ELSE IF luck = "notready" THEN [Missed(w, s) EXCEPT !.scr.needKey = TRUE]
    ELSE IF unit = "delta" /\ w.scr.needKey
    THEN [Missed(w, s) EXCEPT !.scr = [@ EXCEPT !.asked = TRUE,
                                                !.refresh = w.scr.refresh \/ ~w.scr.asked]]
    ELSE [w EXCEPT !.scr = [@ EXCEPT !.needKey = FALSE, !.asked = FALSE, !.level = TRUE,
                                     !.broken = unit = "delta" /\ (w.scr.broken \/ ~w.scr.level)],
                   !.app.progress = TRUE]

OpenDecoder(w, s) ==
    [w EXCEPT !.scr = [@ EXCEPT !.owner = s, !.current = TRUE, !.needKey = TRUE,
                                !.level = FALSE, !.broken = FALSE]]

Foreign(w, s) == w.scr.owner # None /\ (w.scr.owner # s \/ ~w.scr.current)

\* From the owner check to the feed.  A foreign decoder keeps the old picture
\* until the new owner has a seed.
Decode(w, s, unit, luck) ==
    IF Foreign(w, s) /\ unit = "delta" THEN w
    ELSE LET handed == IF Foreign(w, s)
                       THEN [w EXCEPT !.scr = [@ EXCEPT !.owner = s, !.current = TRUE,
                                                        !.level = FALSE, !.asked = FALSE]]
                       ELSE w
             opened == IF handed.scr.owner = None THEN OpenDecoder(handed, s)
                       ELSE IF luck = "resized"
                       THEN [OpenDecoder(handed, s) EXCEPT !.scr.asked = FALSE]
                       ELSE handed
         IN  Feed(opened, s, unit, luck)

CloseRgba(w) == [w EXCEPT !.scr = [@ EXCEPT !.rgba = None, !.rgbaCurrent = FALSE]]
CloseDecoder(w) ==
    [w EXCEPT !.scr = [@ EXCEPT !.owner = None, !.current = FALSE, !.needKey = FALSE,
                                !.level = FALSE, !.broken = FALSE, !.asked = FALSE]]

\* The owner of both paths changed path; past the limit neither can present it.
TooManyPaths(w, s) == w.ses[s].paths >= MaxPaths
NotePath(w, s) == [w EXCEPT !.ses[s].paths = @ + 1]

(***************************************************************************)
(* One unit of slot s reaches the client: native_video_ingest_au_locked    *)
(***************************************************************************)
Cached(w, s, unit, luck) ==
    LET c == Append(w.ses[s].cache, unit, luck # "big")
    IN  [Missed(w, s) EXCEPT !.ses[s] = [@ EXCEPT !.cache = c, !.ready = CacheReady(c)]]

\* Mutant: the slot's own canvas stays over its video.
ShownKeepsCanvas(w, s, unit, luck) ==
    LET own == w.scr.rgba = s /\ w.scr.rgbaCurrent
    IN  IF w.scr.rgba = None THEN Decode(w, s, unit, luck)
        ELSE IF ~own THEN Decode(CloseRgba(w), s, unit, luck)
        ELSE IF TooManyPaths(w, s) THEN DecoderError(w, s)
        ELSE Decode(NotePath(w, s), s, unit, luck)

Shown(w, s, unit, luck) ==
    LET own == w.scr.rgba = s /\ w.scr.rgbaCurrent
    IN  IF w.scr.rgba = None THEN Decode(w, s, unit, luck)
        ELSE IF ~own THEN Decode(CloseRgba(w), s, unit, luck)
        ELSE IF TooManyPaths(w, s) THEN DecoderError(CloseRgba(w), s)
        ELSE Decode(NotePath(CloseRgba(w), s), s, unit, luck)

\* Mutant: the screen comes before the cache, so a unit can overtake the replay.
IngestActiveFirst(w, s, unit, luck) ==
    LET noted == [w EXCEPT !.ses[s] = [@ EXCEPT !.bitmap = FALSE, !.seen = TRUE]]
    IN  IF w.app.active = s
        THEN Shown([noted EXCEPT !.ses[s].cache.level = FALSE], s, unit, luck)
        ELSE IF w.ses[s].cache.armed THEN Cached(noted, s, unit, luck)
        ELSE Missed(noted, s)

Ingest(w, s, unit, luck) ==
    LET noted == [w EXCEPT !.ses[s] = [@ EXCEPT !.bitmap = FALSE, !.seen = TRUE]]
    IN  IF w.ses[s].cache.armed THEN Cached(noted, s, unit, luck)
        ELSE IF w.app.active # s THEN Missed(noted, s)
        ELSE Shown([noted EXCEPT !.ses[s].cache.level = FALSE], s, unit, luck)

(***************************************************************************)
(* A bitmap update: on_bitmap_update.  `recent`: video of this connection  *)
(* came within the hold; `fed`: the decoder was fed within it.             *)
(***************************************************************************)
Bitmap(w, s, recent, fed, luck) ==
    LET video == w.ses[s].seen /\ recent
        mine == w.scr.owner = s /\ w.scr.current
        shown == [w EXCEPT !.ses[s].bitmap = TRUE]
        freed == IF w.scr.owner = None THEN shown ELSE CloseDecoder(shown)
        drawn == IF luck = "error" THEN DecoderError(freed, s)
                 ELSE [freed EXCEPT !.scr = [@ EXCEPT !.rgba = s, !.rgbaCurrent = TRUE],
                                    !.app.progress = TRUE]
    IN  IF w.app.active # s \/ (w.ses[s].cache.armed /\ video)
        THEN [w EXCEPT !.ses[s].bitmap = ~video]
        ELSE IF ~mine THEN drawn
        ELSE IF fed THEN [w EXCEPT !.ses[s].bitmap = FALSE]
        ELSE IF TooManyPaths(w, s) THEN DecoderError(freed, s)
        ELSE NotePath(drawn, s)

(***************************************************************************)
(* Slot lifecycle, on the SDL thread.  Stopping joins the worker, so no    *)
(* unit of the old connection can follow.                                  *)
(***************************************************************************)
StopSlot(w, s) ==
    [w EXCEPT !.ses[s] = [@ EXCEPT !.rdp = FALSE, !.state = "idle", !.failed = FALSE,
                                   !.suppressed = FALSE, !.pending = FALSE,
                                   !.bitmap = FALSE, !.seen = FALSE,
                                   !.cache = NoCache, !.ready = FALSE],
              !.peer[s] = NoPeer]

\* native_stop_media: the last session has gone, so the screen goes too.
StopMedia(w) ==
    IF AnyConnected(w) THEN w
    ELSE [w EXCEPT !.scr = [DarkScreen EXCEPT !.asked = w.scr.asked, !.refresh = w.scr.refresh]]

\* native_slot_connect.  `fate` says whether the cache can be allocated and
\* whether the worker starts.
Fates == [memory: BOOLEAN, starts: BOOLEAN]

Connect(w, s, arm, fate) ==
    LET stopped == StopSlot(w, s)
        cache == IF arm /\ fate.memory THEN ArmedCache ELSE NoCache
        armed == [stopped EXCEPT !.ses[s] = [@ EXCEPT !.cache = cache, !.paths = 0],
                                 !.scr = [@ EXCEPT !.current = w.scr.current /\ w.scr.owner # s,
                                                   !.level = w.scr.level /\ w.scr.owner # s,
                                                   !.rgbaCurrent = /\ w.scr.rgbaCurrent
                                                                   /\ w.scr.rgba # s,
                                                   !.asked = w.scr.asked /\ w.app.active # s]]
    IN  IF fate.starts
        THEN [armed EXCEPT !.ses[s] = [@ EXCEPT !.rdp = TRUE, !.state = "connecting"]]
        ELSE armed

\* A caller that cannot tell the user reports a failed start to the supervisor.
Reconnect(w, s, arm, fate) ==
    LET c == Connect(w, s, arm, fate)
    IN  IF fate.starts THEN c ELSE ReportTerminal(c, s)

\* rdp_set_suppress_output(false) together with the flag that remembers it.
Suppress(w, s) == [w EXCEPT !.ses[s].suppressed = TRUE, !.peer[s].want = FALSE]
Resume(w, s) == [w EXCEPT !.peer[s].want = TRUE]
Refresh(w, s) == [w EXCEPT !.peer[s].refresh = TRUE]

\* A hidden reconnect waits for its seed; without a cache it is only silenced.
AwaitSeed(w, s) ==
    IF w.ses[s].cache.armed THEN [w EXCEPT !.ses[s].pending = TRUE] ELSE Suppress(w, s)

\* Mutant: a slot left while it connects is not told to be quiet.
BackgroundOnlyActive(w, s, fate) ==
    LET slot == w.ses[s]
        hidden == Reconnect(w, s, TRUE, fate)
    IN  IF slot.state # "active" \/ slot.suppressed THEN w
        ELSE IF slot.deaf \/ SnapshotForce
        THEN IF fate.starts THEN AwaitSeed(hidden, s) ELSE hidden
        ELSE Suppress(w, s)

Background(w, s, fate) ==
    LET slot == w.ses[s]
        hidden == Reconnect(w, s, TRUE, fate)
    IN  IF ~slot.rdp \/ slot.suppressed THEN w
        ELSE IF (slot.deaf \/ SnapshotForce) /\ slot.state = "active"
        THEN IF fate.starts THEN AwaitSeed(hidden, s) ELSE hidden
        ELSE Suppress(w, s)

(***************************************************************************)
(* native_snapshot_replay: the whole chain in one video_lock section       *)
(***************************************************************************)
Replays(w, s, quiet) == CacheReady(w.ses[s].cache) /\ quiet

Replay(w, s, quiet, luck) ==
    LET c == w.ses[s].cache
        taken == [w EXCEPT !.ses[s] = [@ EXCEPT !.cache = NoCache, !.ready = FALSE]]
        fed == Ingest(taken, s, "seed", luck)
    IN  IF ~Replays(w, s, quiet) THEN taken
        ELSE IF luck \in {"notready", "error"} THEN fed
        ELSE [fed EXCEPT !.scr = [@ EXCEPT !.level = c.level, !.broken = c.gap]]
=============================================================================
