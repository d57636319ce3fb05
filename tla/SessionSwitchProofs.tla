------------------------ MODULE SessionSwitchProofs ------------------------
(***************************************************************************)
(* Proofs about SessionSwitch, for any number of slots, any scenario and   *)
(* any bound on caches and path switches: what is on screen is alive, fed  *)
(* and awake, and a replay continues exactly where its server does.        *)
(***************************************************************************)
EXTENDS SessionSwitch, TLAPS

-----------------------------------------------------------------------------
(* The inductive invariant *)

Worlds == [app: App, ses: [Slots -> Slot], scr: Screen, peer: [Slots -> Peer]]

\* A cache that holds units has every unit since its seed.
CacheSound(c) == c.len > 0 => c.armed /\ c.level /\ ~c.gap

\* Only a slot that is hidden, or about to be, has a cache that takes its units away; one
\* that waits for a seed is not suppressed; and who is not suppressed was told to send.
SlotSound(slot, far) ==
    /\ CacheSound(slot.cache)
    /\ slot.state = "active" => slot.rdp
    /\ slot.rdp =>
        /\ slot.cache.armed => slot.pending \/ slot.suppressed
        /\ slot.pending => ~slot.suppressed
        /\ ~slot.failed /\ ~slot.suppressed => far.want

SlotsSound(w) == \A s \in Slots : SlotSound(w.ses[s], w.peer[s])

\* Between two sections of a handoff: who hands the screen over, and to whom.
StepSound(a) ==
    /\ a.step = "loop" => a.heir = None /\ a.dead = None
    /\ a.step = "resume" => a.dead # a.active
    /\ a.step = "handoff" => a.dead = a.active /\ a.heir \in Slots \ {a.active} /\ a.streaming

\* The slot on screen, which may still have its cache to replay after it was published.
ActiveSound(a, slot) ==
    IF a.step = "resume"
    THEN slot.rdp /\ ~slot.pending /\ ~(a.direct /\ slot.suppressed)
    ELSE /\ slot.rdp => ~slot.cache.armed /\ ~slot.pending /\ ~slot.suppressed
         /\ a.streaming => slot.rdp \/ slot.failed

PictureSound(a, s) ==
    s.rgba # None => s.rgba = a.active /\ ~(s.rgbaCurrent /\ s.current /\ s.owner = s.rgba)

RefreshSound(w) ==
    w.scr.refresh /\ w.ses[w.app.active].rdp => w.scr.owner \in {w.app.active, None}

Sound(w) ==
    /\ w \in Worlds
    /\ SlotsSound(w) /\ StepSound(w.app) /\ ActiveSound(w.app, w.ses[w.app.active])
    /\ PictureSound(w.app, w.scr) /\ RefreshSound(w)

IInv == Sound(World) /\ scenario \in Scenarios /\ presses \in Nat

-----------------------------------------------------------------------------
(* The operations on one slot *)

\* The slots other than s are as they were.
Elsewhere(w, r, s) == \A x \in Slots \ {s} : r.ses[x] = w.ses[x] /\ r.peer[x] = w.peer[x]

\* The screen has lost something, or nothing.
Dimmer(a, b) ==
    /\ b.rgba \in {a.rgba, None} /\ b.owner \in {a.owner, None}
    /\ (b.rgbaCurrent => a.rgbaCurrent) /\ (b.current => a.current) /\ (b.refresh => a.refresh)

\* The caches a slot may begin with.
LEMMA CacheTypes ==
    /\ NoCache \in Cache /\ ~NoCache.armed /\ NoCache.len = 0
    /\ ArmedCache \in Cache /\ ArmedCache.armed /\ ArmedCache.len = 0
<1>1. NoCache \in Cache /\ ~NoCache.armed /\ NoCache.len = 0
  BY MaxCacheAssumption DEF NoCache, Cache
<1>2. ArmedCache \in Cache /\ ArmedCache.armed /\ ArmedCache.len = 0
  BY <1>1 DEF ArmedCache, Cache
<1> QED BY <1>1, <1>2

\* A world with other fields of the SDL thread, another screen, slot or server.
LEMMA WithApp ==
    ASSUME NEW w \in Worlds, NEW a \in App
    PROVE  LET r == [w EXCEPT !.app = a] IN
           r \in Worlds /\ r.app = a /\ r.ses = w.ses /\ r.scr = w.scr /\ r.peer = w.peer
BY DEF Worlds

\* A world with another screen differs in nothing else.
LEMMA WithScreen ==
    ASSUME NEW w \in Worlds, NEW a \in Screen
    PROVE  LET r == [w EXCEPT !.scr = a] IN
           r \in Worlds /\ r.app = w.app /\ r.ses = w.ses /\ r.scr = a /\ r.peer = w.peer
BY DEF Worlds

\* A world with another slot s keeps the other slots.
LEMMA WithSlot ==
    ASSUME NEW w \in Worlds, NEW s \in Slots, NEW slot \in Slot
    PROVE  LET r == [w EXCEPT !.ses[s] = slot] IN
           /\ r \in Worlds /\ r.app = w.app /\ r.scr = w.scr /\ r.peer = w.peer
           /\ r.ses[s] = slot /\ \A x \in Slots \ {s} : r.ses[x] = w.ses[x]
BY DEF Worlds

\* A world with another far end of slot s keeps the other far ends.
LEMMA WithPeer ==
    ASSUME NEW w \in Worlds, NEW s \in Slots, NEW far \in Peer
    PROVE  LET r == [w EXCEPT !.peer[s] = far] IN
           /\ r \in Worlds /\ r.app = w.app /\ r.scr = w.scr /\ r.ses = w.ses
           /\ r.peer[s] = far /\ \A x \in Slots \ {s} : r.peer[x] = w.peer[x]
BY DEF Worlds

\* What the parts of a world are.
LEMMA WorldParts ==
    ASSUME NEW w \in Worlds
    PROVE  /\ w.app \in App /\ w.scr \in Screen
           /\ \A s \in Slots : w.ses[s] \in Slot /\ w.peer[s] \in Peer
BY DEF Worlds

\* A connection that is stopped leaves an empty slot; its hints of the server stay.
LEMMA StopSlotFacts ==
    ASSUME NEW w \in Worlds, NEW s \in Slots
    PROVE  LET r == StopSlot(w, s) IN
           /\ r \in Worlds /\ r.app = w.app /\ r.scr = w.scr /\ Elsewhere(w, r, s)
           /\ ~r.ses[s].rdp /\ r.ses[s].state = "idle" /\ ~r.ses[s].failed
           /\ ~r.ses[s].suppressed /\ ~r.ses[s].pending
           /\ r.ses[s].cache = NoCache /\ r.peer[s] = NoPeer
           /\ SlotSound(r.ses[s], r.peer[s])
<1> DEFINE slot == [w.ses[s] EXCEPT !.rdp = FALSE, !.state = "idle", !.failed = FALSE,
                        !.suppressed = FALSE, !.pending = FALSE, !.bitmap = FALSE,
                        !.seen = FALSE, !.cache = NoCache, !.ready = FALSE]
           m == [w EXCEPT !.ses[s] = slot]
           r == StopSlot(w, s)
<1>0. w.ses[s] \in Slot
  BY WorldParts
<1>1. r = [m EXCEPT !.peer[s] = NoPeer]
  BY Zenon DEF StopSlot
<1>2. slot \in Slot /\ ~slot.rdp /\ slot.state = "idle" /\ ~slot.failed /\ slot.cache = NoCache
      /\ ~slot.suppressed /\ ~slot.pending
  BY <1>0, CacheTypes DEF Slot
<1>3. NoPeer \in Peer
  BY DEF NoPeer, Peer
<1> HIDE DEF slot
<1>4. /\ m \in Worlds /\ m.app = w.app /\ m.scr = w.scr /\ m.peer = w.peer
      /\ m.ses[s] = slot /\ \A x \in Slots \ {s} : m.ses[x] = w.ses[x]
  BY <1>2, WithSlot
<1> HIDE DEF m
<1>5. /\ r \in Worlds /\ r.app = m.app /\ r.scr = m.scr /\ r.ses = m.ses
      /\ r.peer[s] = NoPeer /\ \A x \in Slots \ {s} : r.peer[x] = m.peer[x]
  BY <1>1, <1>3, <1>4, WithPeer
<1>6. SlotSound(slot, NoPeer)
  BY <1>2, CacheTypes DEF SlotSound, CacheSound
<1> QED BY <1>2, <1>4, <1>5, <1>6 DEF Elsewhere

\* A connection that was made, or not: an empty slot, perhaps with a cache to fill.
Empty(slot, arm) ==
    /\ slot.state # "active" /\ ~slot.suppressed /\ ~slot.pending
    /\ slot.cache.armed => arm
    /\ slot.cache.len = 0

\* Connecting a slot stops it first, and may leave it with a cache only when one was asked for.
LEMMA ConnectFacts ==
    ASSUME NEW w \in Worlds, NEW s \in Slots, NEW arm \in BOOLEAN, NEW fate \in Fates
    PROVE  LET r == Connect(w, s, arm, fate) IN
           /\ r \in Worlds /\ r.app = w.app /\ Elsewhere(w, r, s) /\ Dimmer(w.scr, r.scr)
           /\ r.peer[s] = NoPeer /\ Empty(r.ses[s], arm) /\ ~r.ses[s].failed
           /\ r.ses[s].rdp <=> fate.starts
           /\ r.ses[s].cache.armed => fate.memory
<1> DEFINE stopped == StopSlot(w, s)
           cache == IF arm /\ fate.memory THEN ArmedCache ELSE NoCache
           slot == [stopped.ses[s] EXCEPT !.cache = cache, !.paths = 0]
           current == w.scr.current /\ w.scr.owner # s
           level == w.scr.level /\ w.scr.owner # s
           rgbaCurrent == w.scr.rgbaCurrent /\ w.scr.rgba # s
           asked == w.scr.asked /\ w.app.active # s
           screen == [stopped.scr EXCEPT !.current = current, !.level = level,
                                         !.rgbaCurrent = rgbaCurrent, !.asked = asked]
           m == [stopped EXCEPT !.ses[s] = slot]
           armed == [m EXCEPT !.scr = screen]
           up == [armed.ses[s] EXCEPT !.rdp = TRUE, !.state = "connecting"]
           r == Connect(w, s, arm, fate)
<1>1. r = IF fate.starts THEN [armed EXCEPT !.ses[s] = up] ELSE armed
  BY Zenon DEF Connect
<1>2. /\ stopped \in Worlds /\ stopped.app = w.app /\ stopped.scr = w.scr
      /\ Elsewhere(w, stopped, s) /\ ~stopped.ses[s].rdp /\ stopped.ses[s].state = "idle"
      /\ ~stopped.ses[s].failed /\ ~stopped.ses[s].suppressed /\ ~stopped.ses[s].pending
      /\ stopped.peer[s] = NoPeer
  BY StopSlotFacts
<1> HIDE DEF stopped
<1>3. stopped.ses[s] \in Slot /\ w.scr \in Screen
  BY <1>2, WorldParts
<1>4. cache \in Cache /\ cache.len = 0 /\ (cache.armed => arm /\ fate.memory)
  BY CacheTypes
<1> HIDE DEF cache
<1>5. /\ slot \in Slot /\ Empty(slot, arm) /\ ~slot.failed /\ ~slot.rdp
      /\ slot.cache.armed => fate.memory
  <2>1. 0 \in 0..(MaxPaths + 1)
    BY MaxPathsAssumption
  <2>2. slot \in Slot
    BY <1>3, <1>4, <2>1 DEF Slot
  <2>3. /\ slot.cache = cache /\ slot.state = "idle" /\ ~slot.suppressed /\ ~slot.pending
        /\ ~slot.failed /\ ~slot.rdp
    BY <1>2, <1>3 DEF Slot
  <2> QED BY <1>4, <2>2, <2>3 DEF Empty
<1>6. screen \in Screen /\ Dimmer(w.scr, screen)
  <2>1. /\ current \in BOOLEAN /\ level \in BOOLEAN /\ rgbaCurrent \in BOOLEAN
        /\ asked \in BOOLEAN
    OBVIOUS
  <2>2. (current => w.scr.current) /\ (rgbaCurrent => w.scr.rgbaCurrent)
    OBVIOUS
  <2> HIDE DEF current, level, rgbaCurrent, asked
  <2>3. screen \in Screen
    BY <1>2, <1>3, <2>1 DEF Screen
  <2>4. /\ screen.owner = w.scr.owner /\ screen.rgba = w.scr.rgba
        /\ screen.refresh = w.scr.refresh /\ screen.current = current
        /\ screen.rgbaCurrent = rgbaCurrent
    BY <1>2, <1>3, <2>1 DEF Screen
  <2> QED BY <2>2, <2>3, <2>4 DEF Dimmer
<1> HIDE DEF slot, screen
<1>7. /\ m \in Worlds /\ m.app = w.app /\ m.peer = stopped.peer /\ m.ses[s] = slot
      /\ \A x \in Slots \ {s} : m.ses[x] = stopped.ses[x]
  BY <1>2, <1>5, WithSlot
<1> HIDE DEF m
<1>8. /\ armed \in Worlds /\ armed.app = w.app /\ armed.peer = stopped.peer
      /\ armed.ses = m.ses /\ armed.scr = screen
  BY <1>6, <1>7, WithScreen
<1> HIDE DEF armed
<1>9. /\ up \in Slot /\ Empty(up, arm) /\ ~up.failed /\ up.rdp
      /\ up.cache.armed => fate.memory
  BY <1>5, <1>7, <1>8 DEF Slot, Empty
<1> HIDE DEF up
<1>10. CASE fate.starts
  <2>1. /\ r \in Worlds /\ r.app = armed.app /\ r.scr = armed.scr /\ r.peer = armed.peer
        /\ r.ses[s] = up /\ \A x \in Slots \ {s} : r.ses[x] = armed.ses[x]
    BY <1>1, <1>8, <1>9, <1>10, WithSlot
  <2> QED BY <1>2, <1>6, <1>7, <1>8, <1>9, <1>10, <2>1 DEF Elsewhere
<1>11. CASE ~fate.starts
  BY <1>1, <1>2, <1>5, <1>6, <1>7, <1>8, <1>11 DEF Elsewhere
<1> QED BY <1>10, <1>11

\* A session that is reconnected has a connection again, or a failure to be drained.
LEMMA ReconnectFacts ==
    ASSUME NEW w \in Worlds, NEW s \in Slots, NEW arm \in BOOLEAN, NEW fate \in Fates
    PROVE  LET r == Reconnect(w, s, arm, fate) IN
           /\ r \in Worlds /\ r.app = w.app /\ Elsewhere(w, r, s) /\ Dimmer(w.scr, r.scr)
           /\ r.peer[s] = NoPeer /\ Empty(r.ses[s], arm)
           /\ r.ses[s].rdp <=> fate.starts
           /\ r.ses[s].failed <=> ~fate.starts
           /\ r.ses[s].cache.armed => fate.memory
<1> DEFINE c == Connect(w, s, arm, fate)
           slot == [c.ses[s] EXCEPT !.failed = TRUE]
           r == Reconnect(w, s, arm, fate)
<1>1. r = IF fate.starts THEN c ELSE [c EXCEPT !.ses[s] = slot]
  BY Zenon DEF Reconnect, ReportTerminal
<1>2. /\ c \in Worlds /\ c.app = w.app /\ Elsewhere(w, c, s) /\ Dimmer(w.scr, c.scr)
      /\ c.peer[s] = NoPeer /\ Empty(c.ses[s], arm) /\ ~c.ses[s].failed
      /\ c.ses[s].rdp <=> fate.starts
      /\ c.ses[s].cache.armed => fate.memory
  BY ConnectFacts
<1> HIDE DEF c
<1>3. c.ses[s] \in Slot
  BY <1>2, WorldParts
<1>4. /\ slot \in Slot /\ Empty(slot, arm) /\ slot.failed /\ slot.rdp = c.ses[s].rdp
      /\ slot.cache = c.ses[s].cache
  BY <1>2, <1>3 DEF Slot, Empty
<1> HIDE DEF slot
<1>5. CASE fate.starts
  BY <1>1, <1>2, <1>5
<1>6. CASE ~fate.starts
  <2>1. /\ r \in Worlds /\ r.app = c.app /\ r.scr = c.scr /\ r.peer = c.peer
        /\ r.ses[s] = slot /\ \A x \in Slots \ {s} : r.ses[x] = c.ses[x]
    BY <1>1, <1>2, <1>4, <1>6, WithSlot
  <2> QED BY <1>2, <1>4, <1>6, <2>1 DEF Elsewhere
<1> QED BY <1>5, <1>6

\* Under a cache, where the user does not see it, or in the user's sight.
LEMMA ReconnectHidden ==
    ASSUME NEW w \in Worlds, NEW s \in Slots, NEW fate \in Fates
    PROVE  LET r == Reconnect(w, s, TRUE, fate) IN
           /\ r \in Worlds /\ r.app = w.app /\ Elsewhere(w, r, s) /\ Dimmer(w.scr, r.scr)
           /\ r.peer[s] = NoPeer /\ Empty(r.ses[s], TRUE)
           /\ r.ses[s].rdp <=> fate.starts
           /\ r.ses[s].cache.armed => fate.memory
<1>1. PICK arm \in BOOLEAN : arm = TRUE
  OBVIOUS
<1>2. LET r == Reconnect(w, s, arm, fate) IN
      /\ r \in Worlds /\ r.app = w.app /\ Elsewhere(w, r, s) /\ Dimmer(w.scr, r.scr)
      /\ r.peer[s] = NoPeer /\ Empty(r.ses[s], arm)
      /\ r.ses[s].rdp <=> fate.starts
      /\ r.ses[s].cache.armed => fate.memory
  BY ReconnectFacts
<1> QED BY <1>1, <1>2

\* A reconnect of the slot on screen arms no cache, and a start that fails is reported.
LEMMA ReconnectShown ==
    ASSUME NEW w \in Worlds, NEW s \in Slots, NEW fate \in Fates
    PROVE  LET r == Reconnect(w, s, FALSE, fate) IN
           /\ r \in Worlds /\ r.app = w.app /\ Elsewhere(w, r, s) /\ Dimmer(w.scr, r.scr)
           /\ r.peer[s] = NoPeer /\ Empty(r.ses[s], FALSE)
           /\ r.ses[s].rdp \/ r.ses[s].failed
<1>1. PICK arm \in BOOLEAN : arm = FALSE
  OBVIOUS
<1>2. LET r == Reconnect(w, s, arm, fate) IN
      /\ r \in Worlds /\ r.app = w.app /\ Elsewhere(w, r, s) /\ Dimmer(w.scr, r.scr)
      /\ r.peer[s] = NoPeer /\ Empty(r.ses[s], arm)
      /\ r.ses[s].rdp <=> fate.starts
      /\ r.ses[s].failed <=> ~fate.starts
  BY ReconnectFacts
<1> QED BY <1>1, <1>2

\* What suppressing, resuming and refreshing a slot change.
LEMMA SuppressFacts ==
    ASSUME NEW w \in Worlds, NEW s \in Slots
    PROVE  LET r == Suppress(w, s) IN
           /\ r \in Worlds /\ r.app = w.app /\ r.scr = w.scr /\ Elsewhere(w, r, s)
           /\ r.ses[s].suppressed /\ r.ses[s].pending = w.ses[s].pending
           /\ r.ses[s].rdp = w.ses[s].rdp /\ r.ses[s].state = w.ses[s].state
           /\ r.ses[s].failed = w.ses[s].failed /\ r.ses[s].cache = w.ses[s].cache
<1> DEFINE slot == [w.ses[s] EXCEPT !.suppressed = TRUE]
           far == [w.peer[s] EXCEPT !.want = FALSE]
           m == [w EXCEPT !.ses[s] = slot]
           r == Suppress(w, s)
<1>1. r = [m EXCEPT !.peer[s] = [m.peer[s] EXCEPT !.want = FALSE]]
  BY Zenon DEF Suppress
<1>2. w.ses[s] \in Slot /\ w.peer[s] \in Peer
  BY WorldParts
<1>3. slot \in Slot /\ far \in Peer
  BY <1>2 DEF Slot, Peer
<1>4. /\ slot.suppressed /\ slot.pending = w.ses[s].pending
      /\ slot.rdp = w.ses[s].rdp /\ slot.state = w.ses[s].state
      /\ slot.failed = w.ses[s].failed /\ slot.cache = w.ses[s].cache
  BY <1>2 DEF Slot
<1> HIDE DEF slot
<1>5. /\ m \in Worlds /\ m.app = w.app /\ m.scr = w.scr /\ m.peer = w.peer
      /\ m.ses[s] = slot /\ \A x \in Slots \ {s} : m.ses[x] = w.ses[x]
  BY <1>3, WithSlot
<1> HIDE DEF m
<1>6. r = [m EXCEPT !.peer[s] = far]
  BY <1>1, <1>5
<1> HIDE DEF far
<1>7. /\ r \in Worlds /\ r.app = m.app /\ r.scr = m.scr /\ r.ses = m.ses
      /\ r.peer[s] = far /\ \A x \in Slots \ {s} : r.peer[x] = m.peer[x]
  BY <1>3, <1>5, <1>6, WithPeer
<1> QED BY <1>4, <1>5, <1>7 DEF Elsewhere

\* Telling a server to send changes nothing but what it was told.
LEMMA ResumeFacts ==
    ASSUME NEW w \in Worlds, NEW s \in Slots
    PROVE  LET r == Resume(w, s) IN
           /\ r \in Worlds /\ r.app = w.app /\ r.scr = w.scr /\ r.ses = w.ses
           /\ r.peer[s] = [w.peer[s] EXCEPT !.want = TRUE] /\ r.peer[s].want
           /\ Elsewhere(w, r, s)
<1> DEFINE far == [w.peer[s] EXCEPT !.want = TRUE]
           r == Resume(w, s)
<1>1. r = [w EXCEPT !.peer[s] = far]
  BY Zenon DEF Resume
<1>2. w.peer[s] \in Peer
  BY WorldParts
<1>3. far \in Peer /\ far.want
  BY <1>2 DEF Peer
<1> HIDE DEF far
<1>4. /\ r \in Worlds /\ r.app = w.app /\ r.scr = w.scr /\ r.ses = w.ses
      /\ r.peer[s] = far /\ \A x \in Slots \ {s} : r.peer[x] = w.peer[x]
  BY <1>1, <1>3, WithPeer
<1> USE DEF far
<1> QED BY <1>3, <1>4 DEF Elsewhere

\* Asking a server for a keyframe changes nothing but what it was asked.
LEMMA RefreshFacts ==
    ASSUME NEW w \in Worlds, NEW s \in Slots
    PROVE  LET r == Refresh(w, s) IN
           /\ r \in Worlds /\ r.app = w.app /\ r.scr = w.scr /\ r.ses = w.ses
           /\ r.peer[s].want = w.peer[s].want /\ r.peer[s].refresh
           /\ Elsewhere(w, r, s)
<1> DEFINE far == [w.peer[s] EXCEPT !.refresh = TRUE]
           r == Refresh(w, s)
<1>1. r = [w EXCEPT !.peer[s] = far]
  BY Zenon DEF Refresh
<1>2. w.peer[s] \in Peer
  BY WorldParts
<1>3. far \in Peer /\ far.want = w.peer[s].want /\ far.refresh
  BY <1>2 DEF Peer
<1> HIDE DEF far
<1>4. /\ r \in Worlds /\ r.app = w.app /\ r.scr = w.scr /\ r.ses = w.ses
      /\ r.peer[s] = far /\ \A x \in Slots \ {s} : r.peer[x] = w.peer[x]
  BY <1>1, <1>3, WithPeer
<1> QED BY <1>3, <1>4 DEF Elsewhere

\* An empty slot that hides nothing is sound.
LEMMA EmptySound ==
    ASSUME NEW slot \in Slot, NEW arm \in BOOLEAN, Empty(slot, arm), ~arm \/ ~slot.rdp
    PROVE  SlotSound(slot, NoPeer)
BY DEF Empty, SlotSound, CacheSound, NoPeer

\* A slot that may go to the background as it is.
Hideable(slot) ==
    CacheSound(slot.cache) /\ (slot.state = "active" => slot.rdp) /\ (slot.rdp => ~slot.pending)

\* A hidden connection waits for its seed or is suppressed.
LEMMA AwaitSeedFacts ==
    ASSUME NEW w \in Worlds, NEW s \in Slots, Empty(w.ses[s], TRUE), w.peer[s] = NoPeer,
           w.ses[s].rdp
    PROVE  LET r == AwaitSeed(w, s) IN
           /\ r \in Worlds /\ r.app = w.app /\ r.scr = w.scr /\ Elsewhere(w, r, s)
           /\ SlotSound(r.ses[s], r.peer[s]) /\ r.ses[s].rdp
<1> DEFINE slot == [w.ses[s] EXCEPT !.pending = TRUE]
           m == [w EXCEPT !.ses[s] = slot]
           r == AwaitSeed(w, s)
<1>1. r = IF w.ses[s].cache.armed THEN m ELSE Suppress(w, s)
  BY Zenon DEF AwaitSeed
<1>2. w.ses[s] \in Slot
  BY WorldParts
<1>3. slot \in Slot /\ slot.rdp /\ ~slot.suppressed /\ slot.state # "active"
      /\ slot.cache = w.ses[s].cache /\ slot.pending
  BY <1>2 DEF Slot, Empty
<1> HIDE DEF slot
<1>4. CASE w.ses[s].cache.armed
  <2>1. /\ m \in Worlds /\ m.app = w.app /\ m.scr = w.scr /\ m.peer = w.peer
        /\ m.ses[s] = slot /\ \A x \in Slots \ {s} : m.ses[x] = w.ses[x]
    BY <1>3, WithSlot
  <2>2. SlotSound(slot, NoPeer)
    BY <1>3 DEF SlotSound, CacheSound, Empty, NoPeer
  <2> QED BY <1>1, <1>3, <1>4, <2>1, <2>2 DEF Elsewhere
<1>5. CASE ~w.ses[s].cache.armed
  <2> DEFINE q == Suppress(w, s)
  <2>1. /\ q \in Worlds /\ q.app = w.app /\ q.scr = w.scr /\ Elsewhere(w, q, s)
        /\ q.ses[s].suppressed /\ q.ses[s].pending = w.ses[s].pending
        /\ q.ses[s].rdp = w.ses[s].rdp /\ q.ses[s].state = w.ses[s].state
        /\ q.ses[s].cache = w.ses[s].cache
    BY SuppressFacts
  <2>2. r = q
    BY <1>1, <1>5
  <2> HIDE DEF q, r
  <2>3. SlotSound(q.ses[s], q.peer[s])
    BY <2>1 DEF SlotSound, CacheSound, Empty
  <2>4. /\ r \in Worlds /\ r.app = w.app /\ r.scr = w.scr /\ Elsewhere(w, r, s)
        /\ SlotSound(r.ses[s], r.peer[s]) /\ r.ses[s].rdp
    BY <2>1, <2>2, <2>3
  <2> QED BY <2>4 DEF r
<1> QED BY <1>4, <1>5

\* A slot that leaves the screen is suppressed, or reconnected under a cache.
LEMMA BackgroundFacts ==
    ASSUME NEW w \in Worlds, NEW s \in Slots, NEW fate \in Fates, Hideable(w.ses[s])
    PROVE  LET r == Background(w, s, fate) IN
           /\ r \in Worlds /\ r.app = w.app /\ Elsewhere(w, r, s) /\ Dimmer(w.scr, r.scr)
           /\ SlotSound(r.ses[s], r.peer[s])
<1> DEFINE hidden == Reconnect(w, s, TRUE, fate)
           quiet == Suppress(w, s)
           r == Background(w, s, fate)
<1>1. r = IF ~w.ses[s].rdp \/ w.ses[s].suppressed THEN w
          ELSE IF (w.ses[s].deaf \/ SnapshotForce) /\ w.ses[s].state = "active"
          THEN IF fate.starts THEN AwaitSeed(hidden, s) ELSE hidden
          ELSE quiet
  BY Zenon DEF Background
<1>2. Dimmer(w.scr, w.scr) /\ Elsewhere(w, w, s)
  BY DEF Dimmer, Elsewhere
<1>3. CASE r = w /\ (~w.ses[s].rdp \/ w.ses[s].suppressed)
  BY <1>2, <1>3 DEF SlotSound, Hideable
<1>4. CASE r = quiet
  <2>1. /\ quiet \in Worlds /\ quiet.app = w.app /\ quiet.scr = w.scr /\ Elsewhere(w, quiet, s)
        /\ quiet.ses[s].suppressed /\ quiet.ses[s].pending = w.ses[s].pending
        /\ quiet.ses[s].rdp = w.ses[s].rdp /\ quiet.ses[s].state = w.ses[s].state
        /\ quiet.ses[s].cache = w.ses[s].cache
    BY SuppressFacts
  <2> HIDE DEF quiet
  <2> QED BY <1>2, <1>4, <2>1 DEF SlotSound, Hideable
<1>5. /\ hidden \in Worlds /\ hidden.app = w.app /\ Elsewhere(w, hidden, s)
      /\ Dimmer(w.scr, hidden.scr) /\ hidden.peer[s] = NoPeer /\ Empty(hidden.ses[s], TRUE)
      /\ (hidden.ses[s].rdp <=> fate.starts)
  BY ReconnectHidden
<1> HIDE DEF hidden
<1>6. CASE r = hidden /\ ~fate.starts
  <2>1. hidden.ses[s] \in Slot
    BY <1>5, WorldParts
  <2>2. SlotSound(hidden.ses[s], NoPeer)
    BY <1>5, <1>6, <2>1, EmptySound
  <2> QED BY <1>5, <1>6, <2>2
<1>7. CASE r = AwaitSeed(hidden, s) /\ fate.starts
  <2>1. LET q == AwaitSeed(hidden, s) IN
        /\ q \in Worlds /\ q.app = hidden.app /\ q.scr = hidden.scr /\ Elsewhere(hidden, q, s)
        /\ SlotSound(q.ses[s], q.peer[s])
    BY <1>5, <1>7, AwaitSeedFacts
  <2> QED BY <1>5, <1>7, <2>1 DEF Elsewhere
<1> QED BY <1>1, <1>3, <1>4, <1>6, <1>7

\* The last session takes the screen with it.
LEMMA StopMediaFacts ==
    ASSUME NEW w \in Worlds
    PROVE  LET r == StopMedia(w) IN
           /\ r \in Worlds /\ r.app = w.app /\ r.ses = w.ses /\ r.peer = w.peer
           /\ Dimmer(w.scr, r.scr)
           /\ (\E s \in Slots : w.ses[s].rdp) => r = w
<1> DEFINE dark == [DarkScreen EXCEPT !.asked = w.scr.asked, !.refresh = w.scr.refresh]
           r == StopMedia(w)
<1>1. r = IF AnyConnected(w) THEN w ELSE [w EXCEPT !.scr = dark]
  BY Zenon DEF StopMedia
<1>2. w.scr \in Screen /\ DarkScreen \in Screen
  BY WorldParts DEF DarkScreen, Screen
<1>3. dark \in Screen /\ dark.refresh = w.scr.refresh /\ dark.owner = None /\ dark.rgba = None
      /\ ~dark.rgbaCurrent /\ ~dark.current
  BY <1>2 DEF DarkScreen, Screen
<1> HIDE DEF dark
<1>4. CASE AnyConnected(w)
  BY <1>1, <1>4 DEF Dimmer
<1>5. CASE ~AnyConnected(w)
  <2>1. r \in Worlds /\ r.app = w.app /\ r.ses = w.ses /\ r.scr = dark /\ r.peer = w.peer
    BY <1>1, <1>3, <1>5, WithScreen
  <2> QED BY <1>3, <1>5, <2>1 DEF Dimmer, AnyConnected
<1> QED BY <1>4, <1>5

-----------------------------------------------------------------------------
(* What keeps a world sound *)

\* The SDL thread is where it was, with the same slot on the same screen.
Steady(a, b) ==
    /\ b.active = a.active /\ b.step = a.step /\ b.streaming = a.streaming
    /\ b.direct = a.direct /\ b.heir = a.heir /\ b.dead = a.dead

\* One slot may change, if what it becomes is sound, and the screen may lose something.
LEMMA SlotChange ==
    ASSUME NEW w \in Worlds, NEW r \in Worlds, NEW s \in Slots, Sound(w),
           Steady(w.app, r.app), Elsewhere(w, r, s), Dimmer(w.scr, r.scr),
           SlotSound(r.ses[s], r.peer[s]),
           s = w.app.active =>
               ActiveSound(r.app, r.ses[s]) /\ (r.ses[s].rdp => w.ses[s].rdp)
    PROVE  Sound(r)
<1>1. w.app \in App /\ r.app \in App /\ w.scr \in Screen /\ r.scr \in Screen
  BY WorldParts
<1>2. w.app.active \in Slots /\ r.app.active = w.app.active
  BY <1>1 DEF App, Steady
<1>3. SlotsSound(r)
  BY DEF Sound, SlotsSound, Elsewhere
<1>4. StepSound(r.app)
  BY DEF Sound, StepSound, Steady
<1>5. ActiveSound(r.app, r.ses[r.app.active])
  BY <1>2 DEF Sound, ActiveSound, Steady, Elsewhere
<1>6. PictureSound(r.app, r.scr)
  BY <1>1, <1>2, NoneAssumption DEF Sound, PictureSound, Dimmer, Screen
<1>7. r.ses[r.app.active].rdp => w.ses[w.app.active].rdp
  BY <1>2 DEF Elsewhere
<1>8. RefreshSound(r)
  BY <1>1, <1>2, <1>7 DEF Sound, RefreshSound, Dimmer
<1> QED BY <1>3, <1>4, <1>5, <1>6, <1>8 DEF Sound

\* A step of the state is the world it becomes.
LEMMA Becomes ==
    ASSUME NEW r \in Worlds, Become(r)
    PROVE  World' = r
<1>1. r = [app |-> r.app, ses |-> r.ses, scr |-> r.scr, peer |-> r.peer]
  BY DEF Worlds
<1> QED BY <1>1 DEF Become, World

-----------------------------------------------------------------------------
(* The decoder and the canvas *)

\* What a unit or a tile of slot s may change besides the screen: whether the program goes
\* on, and the slot, which stays as connected as it was and gets no cache to fill.
Received(w, r, s) ==
    /\ r \in Worlds /\ Steady(w.app, r.app) /\ (r.app.running => w.app.running)
    /\ r.peer = w.peer /\ \A x \in Slots \ {s} : r.ses[x] = w.ses[x]
    /\ r.ses[s].rdp = w.ses[s].rdp /\ r.ses[s].state = w.ses[s].state
    /\ r.ses[s].suppressed = w.ses[s].suppressed /\ r.ses[s].pending = w.ses[s].pending
    /\ w.ses[s].failed => r.ses[s].failed
    /\ r.ses[s].cache.armed => w.ses[s].cache.armed
    /\ CacheSound(w.ses[s].cache) => CacheSound(r.ses[s].cache)

\* A screen that nobody but slot s has a part in, in one of its two ways.
OwnScreen(a, s) ==
    a.rgba \in {s, None} /\ a.owner \in {s, None} /\ ~(a.rgba = s /\ a.owner = s)

\* The screen after it: as dark as before, or the slot's own.
Shows(w, r, s) == Dimmer(w.scr, r.scr) \/ (w.app.active = s /\ OwnScreen(r.scr, s))

\* What is received may be followed by more.
LEMMA ReceivedThen ==
    ASSUME NEW w, NEW m, NEW r, NEW s, Received(w, m, s), Received(m, r, s)
    PROVE  Received(w, r, s)
BY DEF Received, Steady

\* A unit that is let go by changes nothing.
LEMMA ReceivedNothing ==
    ASSUME NEW w \in Worlds, NEW s
    PROVE  Received(w, w, s) /\ Dimmer(w.scr, w.scr)
BY DEF Received, Steady, Dimmer

\* A world with another screen, and one with other notes on the slot.
LEMMA ReceivedScreen ==
    ASSUME NEW w \in Worlds, NEW s \in Slots, NEW a \in Screen
    PROVE  LET r == [w EXCEPT !.scr = a] IN Received(w, r, s) /\ r.scr = a /\ r.app = w.app
                                            /\ r.ses = w.ses
<1> DEFINE r == [w EXCEPT !.scr = a]
<1>1. r \in Worlds /\ r.app = w.app /\ r.ses = w.ses /\ r.scr = a /\ r.peer = w.peer
  BY WithScreen
<1> HIDE DEF r
<1>2. Received(w, r, s) /\ r.scr = a
  BY <1>1 DEF Received, Steady
<1> QED BY <1>1, <1>2 DEF r

\* A world with other notes on slot s: what it may forget is its cache.
LEMMA ReceivedSlot ==
    ASSUME NEW w \in Worlds, NEW s \in Slots, NEW slot \in Slot,
           slot.rdp = w.ses[s].rdp, slot.state = w.ses[s].state,
           slot.suppressed = w.ses[s].suppressed, slot.pending = w.ses[s].pending,
           w.ses[s].failed => slot.failed, slot.cache.armed => w.ses[s].cache.armed,
           CacheSound(w.ses[s].cache) => CacheSound(slot.cache)
    PROVE  LET r == [w EXCEPT !.ses[s] = slot] IN
           Received(w, r, s) /\ r.scr = w.scr /\ r.app = w.app /\ r.ses[s] = slot
<1> DEFINE r == [w EXCEPT !.ses[s] = slot]
<1>1. /\ r \in Worlds /\ r.app = w.app /\ r.scr = w.scr /\ r.peer = w.peer
      /\ r.ses[s] = slot /\ \A x \in Slots \ {s} : r.ses[x] = w.ses[x]
  BY WithSlot
<1> HIDE DEF r
<1>2. Received(w, r, s)
  BY <1>1 DEF Received, Steady
<1> QED BY <1>1, <1>2 DEF r

\* A failing decoder ends the program, or the connection of a slot that is not on screen.
LEMMA DecoderErrorFacts ==
    ASSUME NEW w \in Worlds, NEW s \in Slots
    PROVE  LET r == DecoderError(w, s) IN
           /\ Received(w, r, s) /\ r.scr = w.scr
           /\ w.app.active = s => w.ses[s].failed \/ ~r.app.running
<1> DEFINE off == [w.app EXCEPT !.running = FALSE]
           slot == [w.ses[s] EXCEPT !.failed = TRUE]
           r == DecoderError(w, s)
<1>1. r = IF w.ses[s].failed THEN w
          ELSE IF w.app.active = s THEN [w EXCEPT !.app = off]
          ELSE [w EXCEPT !.ses[s] = slot]
  BY Zenon DEF DecoderError, ReportTerminal
<1>2. w.app \in App /\ w.ses[s] \in Slot
  BY WorldParts
<1>3. off \in App /\ ~off.running /\ Steady(w.app, off)
  BY <1>2 DEF App, Steady
<1>4. /\ slot \in Slot /\ slot.rdp = w.ses[s].rdp /\ slot.state = w.ses[s].state
      /\ slot.suppressed = w.ses[s].suppressed /\ slot.pending = w.ses[s].pending
      /\ slot.failed /\ slot.cache = w.ses[s].cache
  BY <1>2 DEF Slot
<1> HIDE DEF off, slot
<1>5. CASE r = w /\ w.ses[s].failed
  BY <1>5, ReceivedNothing
<1>6. CASE r = [w EXCEPT !.app = off]
  <2>1. r \in Worlds /\ r.app = off /\ r.ses = w.ses /\ r.scr = w.scr /\ r.peer = w.peer
    BY <1>3, <1>6, WithApp
  <2> QED BY <1>3, <2>1 DEF Received
<1>7. CASE r = [w EXCEPT !.ses[s] = slot] /\ w.app.active # s
  <2>1. Received(w, r, s) /\ r.scr = w.scr
    BY <1>4, <1>7, ReceivedSlot
  <2> QED BY <1>7, <2>1
<1> QED BY <1>1, <1>5, <1>6, <1>7

\* Whose decoder and whose canvas it is stays as it was.
SameHands(a, b) ==
    /\ b.rgba = a.rgba /\ b.rgbaCurrent = a.rgbaCurrent
    /\ b.owner = a.owner /\ b.current = a.current

\* A missed unit changes who is level, never who is on screen.
LEMMA MissedFacts ==
    ASSUME NEW w \in Worlds, NEW s \in Slots
    PROVE  LET r == Missed(w, s) IN
           /\ Received(w, r, s) /\ SameHands(w.scr, r.scr) /\ r.scr.refresh = w.scr.refresh
           /\ r.app = w.app /\ r.ses = w.ses
<1> DEFINE level == w.scr.level /\ w.scr.owner # s
           screen == [w.scr EXCEPT !.level = level]
           r == Missed(w, s)
<1>1. r = [w EXCEPT !.scr = screen]
  BY Zenon DEF Missed
<1>2. w.scr \in Screen /\ level \in BOOLEAN
  BY WorldParts
<1> HIDE DEF level
<1>3. screen \in Screen /\ SameHands(w.scr, screen) /\ screen.refresh = w.scr.refresh
  BY <1>2 DEF Screen, SameHands
<1> HIDE DEF screen
<1> QED BY <1>1, <1>3, ReceivedScreen

\* A unit that is fed, or refused, leaves the decoder and the canvas in the same hands.
LEMMA FeedFacts ==
    ASSUME NEW w \in Worlds, NEW s \in Slots, NEW unit, NEW luck
    PROVE  LET r == Feed(w, s, unit, luck) IN Received(w, r, s) /\ SameHands(w.scr, r.scr)
<1> DEFINE missed == Missed(w, s)
           wanting == [missed.scr EXCEPT !.needKey = TRUE]
           refresh == w.scr.refresh \/ ~w.scr.asked
           asking == [missed.scr EXCEPT !.asked = TRUE, !.refresh = refresh]
           broken == unit = "delta" /\ (w.scr.broken \/ ~w.scr.level)
           fed == [w.scr EXCEPT !.needKey = FALSE, !.asked = FALSE, !.level = TRUE,
                                !.broken = broken]
           going == [w.app EXCEPT !.progress = TRUE]
           m == [w EXCEPT !.scr = fed]
           r == Feed(w, s, unit, luck)
<1>1. r = IF luck = "error" THEN DecoderError(w, s)
          ELSE IF luck = "notready" THEN [missed EXCEPT !.scr = wanting]
          ELSE IF unit = "delta" /\ w.scr.needKey THEN [missed EXCEPT !.scr = asking]
          ELSE [m EXCEPT !.app = [m.app EXCEPT !.progress = TRUE]]
  BY Zenon DEF Feed
<1>2. /\ Received(w, missed, s) /\ SameHands(w.scr, missed.scr)
      /\ missed.app = w.app /\ missed.ses = w.ses
  BY MissedFacts
<1>3. missed \in Worlds /\ missed.scr \in Screen /\ w.scr \in Screen /\ w.app \in App
  BY <1>2, WorldParts DEF Received
<1>4. refresh \in BOOLEAN /\ broken \in BOOLEAN
  OBVIOUS
<1> HIDE DEF missed, refresh, broken
<1>5. wanting \in Screen /\ SameHands(missed.scr, wanting)
  BY <1>3 DEF Screen, SameHands
<1>6. asking \in Screen /\ SameHands(missed.scr, asking)
  BY <1>3, <1>4 DEF Screen, SameHands
<1>7. fed \in Screen /\ SameHands(w.scr, fed)
  BY <1>3, <1>4 DEF Screen, SameHands
<1>8. going \in App /\ Steady(w.app, going) /\ going.running = w.app.running
  BY <1>3 DEF App, Steady
<1> HIDE DEF wanting, asking, fed, going
<1>9. CASE r = DecoderError(w, s)
  BY <1>9, DecoderErrorFacts DEF SameHands
<1>10. ASSUME NEW a \in Screen, SameHands(missed.scr, a), r = [missed EXCEPT !.scr = a]
       PROVE  Received(w, r, s) /\ SameHands(w.scr, r.scr)
  <2>1. Received(missed, r, s) /\ r.scr = a
    BY <1>3, <1>10, ReceivedScreen
  <2>2. Received(w, r, s)
    BY <1>2, <2>1, ReceivedThen
  <2> QED BY <1>2, <1>10, <2>1, <2>2 DEF SameHands
<1>11. CASE r = [m EXCEPT !.app = [m.app EXCEPT !.progress = TRUE]]
  <2>1. m \in Worlds /\ m.app = w.app /\ m.ses = w.ses /\ m.scr = fed /\ m.peer = w.peer
    BY <1>7, WithScreen
  <2> HIDE DEF m
  <2>2. r = [m EXCEPT !.app = going]
    BY <1>11, <2>1 DEF going
  <2>3. r \in Worlds /\ r.app = going /\ r.ses = m.ses /\ r.scr = fed /\ r.peer = m.peer
    BY <1>8, <2>1, <2>2, WithApp
  <2> QED BY <1>7, <1>8, <2>1, <2>3 DEF Received
<1> QED BY <1>1, <1>5, <1>6, <1>9, <1>10, <1>11

\* The decoder keeps its owner, or it is the slot's; the canvas is left alone.
LEMMA DecodeFacts ==
    ASSUME NEW w \in Worlds, NEW s \in Slots, NEW unit, NEW luck
    PROVE  LET r == Decode(w, s, unit, luck) IN
           /\ Received(w, r, s)
           /\ r.scr.rgba = w.scr.rgba /\ r.scr.rgbaCurrent = w.scr.rgbaCurrent
           /\ r = w \/ r.scr.owner = s
           /\ unit = "seed" => r.scr.owner = s
<1> DEFINE taken == [w.scr EXCEPT !.owner = s, !.current = TRUE, !.level = FALSE,
                                  !.asked = FALSE]
           handed == IF Foreign(w, s) THEN [w EXCEPT !.scr = taken] ELSE w
           begun(a) == [a EXCEPT !.owner = s, !.current = TRUE, !.needKey = TRUE,
                                 !.level = FALSE, !.broken = FALSE]
           anew == OpenDecoder(handed, s)
           sized == [anew EXCEPT !.scr = [anew.scr EXCEPT !.asked = FALSE]]
           opened == IF handed.scr.owner = None THEN anew
                     ELSE IF luck = "resized" THEN sized ELSE handed
           r == Decode(w, s, unit, luck)
<1>1. r = IF Foreign(w, s) /\ unit = "delta" THEN w ELSE Feed(opened, s, unit, luck)
  BY Zenon DEF Decode
<1>2. w.scr \in Screen /\ None \notin Slots
  BY WorldParts, NoneAssumption
<1>3. taken \in Screen /\ taken.rgba = w.scr.rgba /\ taken.rgbaCurrent = w.scr.rgbaCurrent
      /\ taken.owner = s
  BY <1>2 DEF Screen
<1> HIDE DEF taken
<1>4. /\ Received(w, handed, s)
      /\ handed.scr.rgba = w.scr.rgba /\ handed.scr.rgbaCurrent = w.scr.rgbaCurrent
      /\ handed.scr.owner \in {s, None}
  <2>1. CASE Foreign(w, s)
    BY <1>3, <2>1, ReceivedScreen
  <2>2. CASE ~Foreign(w, s)
    BY <1>2, <2>2, ReceivedNothing DEF Foreign
  <2> QED BY <2>1, <2>2
<1> HIDE DEF handed
<1>5. handed \in Worlds /\ handed.scr \in Screen
  BY <1>4, WorldParts DEF Received
<1>6. /\ Received(handed, anew, s) /\ anew.scr.owner = s
      /\ anew.scr.rgba = handed.scr.rgba /\ anew.scr.rgbaCurrent = handed.scr.rgbaCurrent
  <2>1. anew = [handed EXCEPT !.scr = begun(handed.scr)]
    BY Zenon DEF OpenDecoder
  <2>2. /\ begun(handed.scr) \in Screen /\ begun(handed.scr).owner = s
        /\ begun(handed.scr).rgba = handed.scr.rgba
        /\ begun(handed.scr).rgbaCurrent = handed.scr.rgbaCurrent
    BY <1>5 DEF Screen
  <2> HIDE DEF begun
  <2> QED BY <1>5, <2>1, <2>2, ReceivedScreen
<1> HIDE DEF anew
<1>7. anew \in Worlds /\ anew.scr \in Screen
  BY <1>6, WorldParts DEF Received
<1>8. /\ Received(anew, sized, s) /\ sized.scr.owner = s
      /\ sized.scr.rgba = anew.scr.rgba /\ sized.scr.rgbaCurrent = anew.scr.rgbaCurrent
  <2> DEFINE a == [anew.scr EXCEPT !.asked = FALSE]
  <2>1. a \in Screen /\ a.owner = s /\ a.rgba = anew.scr.rgba
        /\ a.rgbaCurrent = anew.scr.rgbaCurrent
    BY <1>6, <1>7 DEF Screen
  <2> HIDE DEF a
  <2>2. sized = [anew EXCEPT !.scr = a]
    BY DEF a
  <2> QED BY <1>7, <2>1, <2>2, ReceivedScreen
<1> HIDE DEF sized
<1>9. /\ Received(w, opened, s) /\ opened.scr.owner = s
      /\ opened.scr.rgba = w.scr.rgba /\ opened.scr.rgbaCurrent = w.scr.rgbaCurrent
  <2>1. Received(w, anew, s)
    BY <1>4, <1>6, ReceivedThen
  <2>2. Received(w, sized, s)
    BY <2>1, <1>8, ReceivedThen
  <2> QED BY <1>4, <1>6, <1>8, <2>1, <2>2
<1> HIDE DEF opened
<1>10. CASE Foreign(w, s) /\ unit = "delta"
  BY <1>1, <1>10, ReceivedNothing
<1>11. CASE r = Feed(opened, s, unit, luck)
  <2>1. opened \in Worlds
    BY <1>9 DEF Received
  <2>2. Received(opened, r, s) /\ SameHands(opened.scr, r.scr)
    BY <1>11, <2>1, FeedFacts
  <2>3. Received(w, r, s)
    BY <1>9, <2>2, ReceivedThen
  <2> QED BY <1>9, <2>2, <2>3 DEF SameHands
<1> QED BY <1>1, <1>10, <1>11

\* Closing the canvas leaves the decoder to its owner.
LEMMA CloseRgbaFacts ==
    ASSUME NEW w \in Worlds, NEW s \in Slots
    PROVE  LET r == CloseRgba(w) IN
           /\ Received(w, r, s) /\ r.app = w.app /\ r.ses = w.ses
           /\ Dimmer(w.scr, r.scr) /\ r.scr.rgba = None /\ r.scr.owner = w.scr.owner
<1> DEFINE a == [w.scr EXCEPT !.rgba = None, !.rgbaCurrent = FALSE]
           r == CloseRgba(w)
<1>1. r = [w EXCEPT !.scr = a]
  BY Zenon DEF CloseRgba
<1>2. w.scr \in Screen
  BY WorldParts
<1>3. a \in Screen /\ Dimmer(w.scr, a) /\ a.rgba = None /\ a.owner = w.scr.owner
  BY <1>2 DEF Screen, Dimmer
<1> HIDE DEF a
<1> QED BY <1>1, <1>3, ReceivedScreen

\* Closing the decoder leaves nobody owning it.
LEMMA CloseDecoderFacts ==
    ASSUME NEW w \in Worlds, NEW s \in Slots
    PROVE  LET r == CloseDecoder(w) IN
           /\ Received(w, r, s) /\ r.app = w.app /\ r.ses = w.ses
           /\ Dimmer(w.scr, r.scr) /\ r.scr.owner = None
<1> DEFINE a == [w.scr EXCEPT !.owner = None, !.current = FALSE, !.needKey = FALSE,
                              !.level = FALSE, !.broken = FALSE, !.asked = FALSE]
           r == CloseDecoder(w)
<1>1. r = [w EXCEPT !.scr = a]
  BY Zenon DEF CloseDecoder
<1>2. w.scr \in Screen
  BY WorldParts
<1>3. a \in Screen /\ Dimmer(w.scr, a) /\ a.owner = None
  BY <1>2 DEF Screen, Dimmer
<1> HIDE DEF a
<1> QED BY <1>1, <1>3, ReceivedScreen

\* Counting a change of path touches the slot's count only.
LEMMA NotePathFacts ==
    ASSUME NEW w \in Worlds, NEW s \in Slots, ~TooManyPaths(w, s)
    PROVE  LET r == NotePath(w, s) IN Received(w, r, s) /\ r.scr = w.scr /\ r.app = w.app
<1> DEFINE slot == [w.ses[s] EXCEPT !.paths = @ + 1]
           r == NotePath(w, s)
<1>1. r = [w EXCEPT !.ses[s] = slot]
  BY Zenon DEF NotePath
<1>2. w.ses[s] \in Slot
  BY WorldParts
<1>3. w.ses[s].paths + 1 \in 0..(MaxPaths + 1)
  BY <1>2, MaxPathsAssumption DEF TooManyPaths, Slot
<1>4. /\ slot \in Slot /\ slot.rdp = w.ses[s].rdp /\ slot.state = w.ses[s].state
      /\ slot.suppressed = w.ses[s].suppressed /\ slot.pending = w.ses[s].pending
      /\ slot.failed = w.ses[s].failed /\ slot.cache = w.ses[s].cache
  BY <1>2, <1>3 DEF Slot
<1> HIDE DEF slot
<1> QED BY <1>1, <1>4, ReceivedSlot

\* A cache that takes every unit stays level; one that cannot is voided.
LEMMA AppendFacts ==
    ASSUME NEW c \in Cache, NEW unit, NEW fits \in BOOLEAN
    PROVE  Append(c, unit, fits) \in Cache
           /\ (c.armed /\ CacheSound(c) => CacheSound(Append(c, unit, fits)))
<1> DEFINE first == [armed |-> TRUE, len |-> 1, level |-> TRUE, gap |-> FALSE]
           gap == c.gap \/ ~c.level
           more == [c EXCEPT !.len = c.len + 1, !.gap = gap, !.level = TRUE]
           r == Append(c, unit, fits)
<1>1. r = IF unit = "seed" THEN IF fits THEN first ELSE NoCache
          ELSE IF c.len = 0 THEN c
          ELSE IF ~fits \/ c.len = MaxCache THEN NoCache ELSE more
  BY Zenon DEF Append
<1>2. CASE r = NoCache \/ r = c
  BY <1>2, CacheTypes DEF CacheSound
<1>3. CASE r = first
  <2>1. first \in Cache /\ CacheSound(first)
    BY MaxCacheAssumption DEF Cache, CacheSound
  <2> QED BY <1>3, <2>1
<1>4. CASE r = more /\ c.len # 0 /\ c.len # MaxCache
  <2>1. c.len + 1 \in 0..MaxCache /\ gap \in BOOLEAN /\ c.len > 0
    BY <1>4, MaxCacheAssumption DEF Cache
  <2>2. more \in Cache /\ more.armed = c.armed /\ more.level /\ more.gap = gap
    <3> HIDE DEF gap
    <3> QED BY <2>1 DEF Cache
  <2>3. c.armed /\ CacheSound(c) => ~gap
    BY <2>1 DEF CacheSound
  <2> HIDE DEF more, gap
  <2> QED BY <1>4, <2>2, <2>3 DEF CacheSound
<1> QED BY <1>1, <1>2, <1>3, <1>4

\* A hidden slot's unit goes into its cache, past the decoder.
LEMMA CachedFacts ==
    ASSUME NEW w \in Worlds, NEW s \in Slots, NEW unit, NEW luck, w.ses[s].cache.armed
    PROVE  LET r == Cached(w, s, unit, luck) IN
           Received(w, r, s) /\ Dimmer(w.scr, r.scr)
<1> DEFINE missed == Missed(w, s)
           fits == luck # "big"
           c == Append(w.ses[s].cache, unit, luck # "big")
           ready == CacheReady(c)
           slot == [missed.ses[s] EXCEPT !.cache = c, !.ready = ready]
           r == Cached(w, s, unit, luck)
<1>1. r = [missed EXCEPT !.ses[s] = slot]
  BY Zenon DEF Cached
<1>2. /\ Received(w, missed, s) /\ SameHands(w.scr, missed.scr)
      /\ missed.scr.refresh = w.scr.refresh /\ missed.ses = w.ses
  BY MissedFacts
<1> HIDE DEF missed
<1>3. w.ses[s] \in Slot /\ w.ses[s].cache \in Cache /\ fits \in BOOLEAN
  BY WorldParts DEF Slot
<1>4. c \in Cache /\ (CacheSound(w.ses[s].cache) => CacheSound(c))
  <2>1. c = Append(w.ses[s].cache, unit, fits)
    OBVIOUS
  <2> HIDE DEF c, fits
  <2> QED BY <1>3, <2>1, AppendFacts
<1>5. ready \in BOOLEAN
  BY DEF CacheReady
<1> HIDE DEF c, ready
<1>6. /\ slot \in Slot /\ slot.rdp = w.ses[s].rdp /\ slot.state = w.ses[s].state
      /\ slot.suppressed = w.ses[s].suppressed /\ slot.pending = w.ses[s].pending
      /\ slot.failed = w.ses[s].failed /\ slot.cache = c
  BY <1>2, <1>3, <1>4, <1>5 DEF Slot
<1> HIDE DEF slot
<1>7. missed \in Worlds
  BY <1>2 DEF Received
<1>8. Received(missed, r, s) /\ r.scr = missed.scr
  BY <1>1, <1>2, <1>4, <1>6, <1>7, ReceivedSlot
<1>9. Received(w, r, s)
  BY <1>2, <1>8, ReceivedThen
<1> QED BY <1>2, <1>8, <1>9 DEF SameHands, Dimmer

\* A unit of the slot on screen takes the canvas down; the decoder is then its own, or is
\* left as it was.
LEMMA ShownFacts ==
    ASSUME NEW w \in Worlds, NEW s \in Slots, NEW unit, NEW luck, w.app.active = s
    PROVE  LET r == Shown(w, s, unit, luck) IN
           /\ Received(w, r, s) /\ Shows(w, r, s)
           /\ unit = "seed" => r.scr.owner = s \/ w.ses[s].failed \/ ~r.app.running
<1> DEFINE bare == CloseRgba(w)
           own == w.scr.rgba = s /\ w.scr.rgbaCurrent
           noted == NotePath(bare, s)
           r == Shown(w, s, unit, luck)
<1>1. r = IF w.scr.rgba = None THEN Decode(w, s, unit, luck)
          ELSE IF ~own THEN Decode(bare, s, unit, luck)
          ELSE IF TooManyPaths(w, s) THEN DecoderError(bare, s)
          ELSE Decode(noted, s, unit, luck)
  BY Zenon DEF Shown
<1>2. /\ Received(w, bare, s) /\ bare.app = w.app /\ bare.ses = w.ses
      /\ Dimmer(w.scr, bare.scr) /\ bare.scr.rgba = None
  BY CloseRgbaFacts
<1> HIDE DEF bare
<1>3. ASSUME NEW m \in Worlds, Received(w, m, s), Dimmer(w.scr, m.scr), m.scr.rgba = None,
             r = Decode(m, s, unit, luck)
      PROVE  /\ Received(w, r, s) /\ Shows(w, r, s)
             /\ unit = "seed" => r.scr.owner = s
  <2>1. /\ Received(m, r, s) /\ r.scr.rgba = None /\ (r = m \/ r.scr.owner = s)
        /\ unit = "seed" => r.scr.owner = s
    BY <1>3, DecodeFacts
  <2>2. Received(w, r, s)
    BY <1>3, <2>1, ReceivedThen
  <2> HIDE DEF r
  <2>3. Shows(w, r, s)
    BY <1>3, <2>1, NoneAssumption DEF Shows, OwnScreen
  <2> QED BY <2>1, <2>2, <2>3 DEF r
<1>4. CASE w.scr.rgba = None
  <2>1. Received(w, w, s) /\ Dimmer(w.scr, w.scr)
    BY ReceivedNothing
  <2> QED BY <1>1, <1>3, <1>4, <2>1
<1>5. bare \in Worlds
  BY <1>2 DEF Received
<1>6. CASE r = Decode(bare, s, unit, luck)
  BY <1>2, <1>3, <1>5, <1>6
<1>7. CASE r = DecoderError(bare, s)
  <2>1. /\ Received(bare, r, s) /\ r.scr = bare.scr
        /\ bare.app.active = s => bare.ses[s].failed \/ ~r.app.running
    BY <1>5, <1>7, DecoderErrorFacts
  <2>2. Received(w, r, s)
    BY <1>2, <2>1, ReceivedThen
  <2> QED BY <1>2, <2>1, <2>2 DEF Shows
<1>8. CASE r = Decode(noted, s, unit, luck) /\ ~TooManyPaths(w, s)
  <2>1. ~TooManyPaths(bare, s)
    BY <1>2, <1>8 DEF TooManyPaths
  <2>2. Received(bare, noted, s) /\ noted.scr = bare.scr
    BY <1>5, <2>1, NotePathFacts
  <2>3. Received(w, noted, s)
    BY <1>2, <2>2, ReceivedThen
  <2> HIDE DEF noted
  <2>4. noted \in Worlds
    BY <2>2 DEF Received
  <2> QED BY <1>2, <1>3, <1>8, <2>2, <2>3, <2>4
<1> QED BY <1>1, <1>4, <1>6, <1>7, <1>8

\* A unit is cached, missed or shown.
LEMMA IngestFacts ==
    ASSUME NEW w \in Worlds, NEW s \in Slots, NEW unit, NEW luck
    PROVE  LET r == Ingest(w, s, unit, luck) IN
           /\ Received(w, r, s) /\ Shows(w, r, s)
           /\ unit = "seed" /\ w.app.active = s /\ ~w.ses[s].cache.armed
                => r.scr.owner = s \/ w.ses[s].failed \/ ~r.app.running
<1> DEFINE slot == [w.ses[s] EXCEPT !.bitmap = FALSE, !.seen = TRUE]
           noted == [w EXCEPT !.ses[s] = slot]
           cache == [noted.ses[s].cache EXCEPT !.level = FALSE]
           lost == [noted.ses[s] EXCEPT !.cache = cache]
           behind == [noted EXCEPT !.ses[s] = lost]
           r == Ingest(w, s, unit, luck)
<1>1. r = IF w.ses[s].cache.armed THEN Cached(noted, s, unit, luck)
          ELSE IF w.app.active # s THEN Missed(noted, s)
          ELSE Shown([noted EXCEPT !.ses[s].cache.level = FALSE], s, unit, luck)
  BY Zenon DEF Ingest
<1>2. w.ses[s] \in Slot
  BY WorldParts
<1>3. /\ slot \in Slot /\ slot.rdp = w.ses[s].rdp /\ slot.state = w.ses[s].state
      /\ slot.suppressed = w.ses[s].suppressed /\ slot.pending = w.ses[s].pending
      /\ slot.failed = w.ses[s].failed /\ slot.cache = w.ses[s].cache
  BY <1>2 DEF Slot
<1> HIDE DEF slot
<1>4. Received(w, noted, s) /\ noted.scr = w.scr /\ noted.app = w.app /\ noted.ses[s] = slot
  BY <1>3, ReceivedSlot
<1>5. noted \in Worlds
  BY <1>4 DEF Received
<1>6. [noted EXCEPT !.ses[s].cache.level = FALSE] = behind
  BY Zenon
<1> HIDE DEF noted
<1>7. CASE w.ses[s].cache.armed
  <2>1. r = Cached(noted, s, unit, luck)
    BY <1>1, <1>7
  <2>2. Received(noted, r, s) /\ Dimmer(noted.scr, r.scr)
    BY <1>3, <1>4, <1>5, <1>7, <2>1, CachedFacts
  <2>3. Received(w, r, s)
    BY <1>4, <2>2, ReceivedThen
  <2> QED BY <1>4, <1>7, <2>2, <2>3 DEF Shows
<1>8. CASE r = Missed(noted, s) /\ w.app.active # s
  <2>1. Received(noted, r, s) /\ SameHands(noted.scr, r.scr) /\ r.scr.refresh = noted.scr.refresh
    BY <1>5, <1>8, MissedFacts
  <2>2. Received(w, r, s)
    BY <1>4, <2>1, ReceivedThen
  <2>3. Dimmer(w.scr, r.scr)
    BY <1>4, <2>1 DEF SameHands, Dimmer
  <2> QED BY <1>8, <2>2, <2>3 DEF Shows
<1>9. CASE r = Shown(behind, s, unit, luck) /\ w.app.active = s /\ ~w.ses[s].cache.armed
  <2>1. /\ cache \in Cache /\ cache.armed = w.ses[s].cache.armed
        /\ cache.len = w.ses[s].cache.len
    BY <1>2, <1>3, <1>4 DEF Slot, Cache
  <2> HIDE DEF cache
  <2>2. CacheSound(w.ses[s].cache) => CacheSound(cache)
    BY <1>9, <2>1 DEF CacheSound
  <2>3. /\ lost \in Slot /\ lost.rdp = w.ses[s].rdp /\ lost.state = w.ses[s].state
        /\ lost.suppressed = w.ses[s].suppressed /\ lost.pending = w.ses[s].pending
        /\ lost.failed = w.ses[s].failed /\ lost.cache = cache
    BY <1>3, <1>4, <2>1 DEF Slot
  <2> HIDE DEF lost
  <2>4. /\ Received(noted, behind, s) /\ behind.scr = w.scr /\ behind.app = w.app
        /\ behind.ses[s] = lost
    BY <1>3, <1>4, <1>5, <2>1, <2>2, <2>3, ReceivedSlot
  <2> HIDE DEF behind
  <2>5. behind \in Worlds
    BY <2>4 DEF Received
  <2>6. /\ Received(behind, r, s) /\ Shows(behind, r, s)
        /\ unit = "seed" => r.scr.owner = s \/ behind.ses[s].failed \/ ~r.app.running
    BY <1>9, <2>4, <2>5, ShownFacts
  <2>7. Received(noted, r, s)
    BY <2>4, <2>6, ReceivedThen
  <2>8. Received(w, r, s)
    BY <1>4, <2>7, ReceivedThen
  <2> QED BY <2>3, <2>4, <2>6, <2>8 DEF Shows
<1> QED BY <1>1, <1>6, <1>7, <1>8, <1>9

\* A tile of the slot on screen takes the decoder down, unless its video wins.
LEMMA BitmapFacts ==
    ASSUME NEW w \in Worlds, NEW s \in Slots, NEW recent \in BOOLEAN, NEW fed \in BOOLEAN,
           NEW luck
    PROVE  LET r == Bitmap(w, s, recent, fed, luck) IN Received(w, r, s) /\ Shows(w, r, s)
<1> DEFINE video == w.ses[s].seen /\ recent
           mine == w.scr.owner = s /\ w.scr.current
           noted(b) == [w EXCEPT !.ses[s].bitmap = b]
           shown == noted(TRUE)
           freed == IF w.scr.owner = None THEN shown ELSE CloseDecoder(shown)
           tiles == [freed.scr EXCEPT !.rgba = s, !.rgbaCurrent = TRUE]
           canvas == [freed EXCEPT !.scr = tiles]
           going == [canvas.app EXCEPT !.progress = TRUE]
           painted == [canvas EXCEPT !.app = going]
           drawn == IF luck = "error" THEN DecoderError(freed, s) ELSE painted
           r == Bitmap(w, s, recent, fed, luck)
<1>1. r = IF w.app.active # s \/ (w.ses[s].cache.armed /\ video) THEN noted(~video)
          ELSE IF ~mine THEN drawn
          ELSE IF fed THEN noted(FALSE)
          ELSE IF TooManyPaths(w, s) THEN DecoderError(freed, s)
          ELSE NotePath(drawn, s)
  BY Zenon DEF Bitmap
<1>2. w.ses[s] \in Slot
  BY WorldParts
<1>3. ASSUME NEW b \in BOOLEAN
      PROVE  /\ Received(w, noted(b), s) /\ noted(b).scr = w.scr /\ noted(b).app = w.app
             /\ noted(b).ses[s].paths = w.ses[s].paths
  <2> DEFINE slot == [w.ses[s] EXCEPT !.bitmap = b]
             q == noted(b)
  <2>1. /\ slot \in Slot /\ slot.rdp = w.ses[s].rdp /\ slot.state = w.ses[s].state
        /\ slot.suppressed = w.ses[s].suppressed /\ slot.pending = w.ses[s].pending
        /\ slot.failed = w.ses[s].failed /\ slot.cache = w.ses[s].cache
        /\ slot.paths = w.ses[s].paths
    BY <1>2 DEF Slot
  <2>2. q = [w EXCEPT !.ses[s] = slot]
    BY Zenon
  <2> HIDE DEF slot, q
  <2>3. Received(w, q, s) /\ q.scr = w.scr /\ q.app = w.app /\ q.ses[s] = slot
    BY <2>1, <2>2, ReceivedSlot
  <2> QED BY <2>1, <2>3 DEF q
<1>4. video \in BOOLEAN
  BY <1>2 DEF Slot
<1> HIDE DEF video
<1>5. CASE r = noted(~video) \/ r = noted(FALSE)
  <2>1. PICK b \in BOOLEAN : r = noted(b)
    BY <1>4, <1>5
  <2>2. Received(w, r, s) /\ r.scr = w.scr
    BY <1>3, <2>1
  <2> QED BY <2>2 DEF Shows, Dimmer
<1>6. /\ Received(w, shown, s) /\ shown.scr = w.scr /\ shown.app = w.app
      /\ shown.ses[s].paths = w.ses[s].paths
  BY <1>3
<1> HIDE DEF noted, shown
<1>7. shown \in Worlds
  BY <1>6 DEF Received
<1>8. /\ Received(w, freed, s) /\ Dimmer(w.scr, freed.scr) /\ freed.scr.owner = None
      /\ freed.app = w.app /\ freed.ses[s].paths = w.ses[s].paths
  <2>1. CASE w.scr.owner = None
    BY <1>6, <2>1 DEF Dimmer
  <2>2. CASE w.scr.owner # None
    <3>1. /\ Received(shown, freed, s) /\ freed.app = w.app /\ freed.ses = shown.ses
          /\ Dimmer(shown.scr, freed.scr) /\ freed.scr.owner = None
      BY <1>6, <1>7, <2>2, CloseDecoderFacts
    <3>2. Received(w, freed, s)
      BY <1>6, <3>1, ReceivedThen
    <3> QED BY <1>6, <3>1, <3>2
  <2> QED BY <2>1, <2>2
<1> HIDE DEF freed
<1>9. freed \in Worlds /\ freed.scr \in Screen
  BY <1>8, WorldParts DEF Received
<1>10. /\ Received(w, DecoderError(freed, s), s) /\ Shows(w, DecoderError(freed, s), s)
  <2> DEFINE q == DecoderError(freed, s)
  <2>1. Received(freed, q, s) /\ q.scr = freed.scr
    BY <1>9, DecoderErrorFacts
  <2> HIDE DEF q
  <2>2. Received(w, q, s) /\ Shows(w, q, s)
    BY <1>8, <2>1, ReceivedThen DEF Shows
  <2> QED BY <2>2 DEF q
<1>11. ASSUME w.app.active = s
       PROVE  /\ Received(w, painted, s) /\ Shows(w, painted, s)
              /\ painted.ses[s].paths = w.ses[s].paths
  <2>1. tiles \in Screen /\ OwnScreen(tiles, s)
    BY <1>8, <1>9, NoneAssumption DEF Screen, OwnScreen
  <2> HIDE DEF tiles
  <2>2. Received(freed, canvas, s) /\ canvas.scr = tiles /\ canvas.app = w.app
        /\ canvas.ses = freed.ses
    BY <1>8, <1>9, <2>1, ReceivedScreen
  <2> HIDE DEF canvas
  <2>3. canvas \in Worlds /\ w.app \in App
    BY <2>2, WorldParts DEF Received
  <2>4. going \in App /\ Steady(canvas.app, going) /\ going.running = canvas.app.running
    BY <2>2, <2>3 DEF App, Steady
  <2> HIDE DEF going
  <2>5. /\ painted \in Worlds /\ painted.app = going /\ painted.ses = canvas.ses
        /\ painted.scr = canvas.scr /\ painted.peer = canvas.peer
    BY <2>3, <2>4, WithApp
  <2> HIDE DEF painted
  <2>6. Received(canvas, painted, s)
    BY <2>4, <2>5 DEF Received
  <2>7. Received(freed, painted, s)
    BY <2>2, <2>6, ReceivedThen
  <2>8. Received(w, painted, s)
    BY <1>8, <2>7, ReceivedThen
  <2> QED BY <1>8, <1>11, <2>1, <2>2, <2>5, <2>8 DEF Shows
<1> HIDE DEF painted
<1>12. ASSUME w.app.active = s
       PROVE  /\ Received(w, drawn, s) /\ Shows(w, drawn, s)
  BY <1>10, <1>11, <1>12
<1>13. CASE r = drawn /\ w.app.active = s
  BY <1>12, <1>13
<1>14. CASE r = DecoderError(freed, s)
  BY <1>10, <1>14
<1>15. CASE r = NotePath(drawn, s) /\ w.app.active = s /\ ~TooManyPaths(w, s)
  <2>1. drawn.ses[s].paths = w.ses[s].paths
    <3>1. CASE luck = "error"
      <4>1. DecoderError(freed, s).ses[s].paths = freed.ses[s].paths
        <5>1. freed.ses[s] \in Slot
          BY <1>9, WorldParts
        <5> QED BY <1>9, <5>1 DEF DecoderError, ReportTerminal, Worlds, Slot
      <4> QED BY <1>8, <3>1, <4>1
    <3>2. CASE luck # "error"
      BY <1>11, <1>15, <3>2
    <3> QED BY <3>1, <3>2
  <2>2. Received(w, drawn, s) /\ Shows(w, drawn, s)
    BY <1>12, <1>15
  <2> HIDE DEF drawn
  <2>3. drawn \in Worlds /\ ~TooManyPaths(drawn, s)
    BY <1>15, <2>1, <2>2 DEF Received, TooManyPaths
  <2>4. Received(drawn, r, s) /\ r.scr = drawn.scr
    BY <1>15, <2>3, NotePathFacts
  <2>5. Received(w, r, s)
    BY <2>2, <2>4, ReceivedThen
  <2> QED BY <2>2, <2>4, <2>5 DEF Shows
<1> QED BY <1>1, <1>5, <1>13, <1>14, <1>15

\* A screen that is as dark as it was, or the slot's own, is sound for whom it was.
LEMMA ShowsSound ==
    ASSUME NEW w \in Worlds, NEW r \in Worlds, NEW s \in Slots,
           PictureSound(w.app, w.scr), RefreshSound(w), Shows(w, r, s),
           r.app.active = w.app.active,
           r.ses[r.app.active].rdp => w.ses[w.app.active].rdp
    PROVE  PictureSound(r.app, r.scr) /\ RefreshSound(r)
<1>1. w.app \in App /\ w.scr \in Screen /\ r.scr \in Screen
  BY WorldParts
<1>2. w.app.active \in Slots
  BY <1>1 DEF App
<1>3. CASE Dimmer(w.scr, r.scr)
  BY <1>1, <1>2, <1>3, NoneAssumption DEF PictureSound, RefreshSound, Dimmer, Screen
<1>4. CASE w.app.active = s /\ OwnScreen(r.scr, s)
  BY <1>4, NoneAssumption DEF PictureSound, RefreshSound, OwnScreen
<1> QED BY <1>3, <1>4 DEF Shows

\* What a unit or a tile does keeps the world sound.
LEMMA ReceivedSound ==
    ASSUME NEW w, NEW r, NEW s \in Slots, Sound(w), Received(w, r, s), Shows(w, r, s)
    PROVE  Sound(r)
<1>1. w \in Worlds /\ r \in Worlds
  BY DEF Sound, Received
<1>2. w.app \in App /\ w.scr \in Screen /\ r.scr \in Screen
  BY <1>1, WorldParts
<1>3. w.app.active \in Slots /\ Steady(w.app, r.app) /\ r.app.active = w.app.active
  BY <1>2 DEF App, Received, Steady
<1>4. SlotSound(r.ses[s], r.peer[s])
  BY DEF Sound, SlotsSound, SlotSound, Received
<1>5. SlotsSound(r)
  BY <1>4 DEF Sound, SlotsSound, Received
<1>6. StepSound(r.app)
  BY <1>3 DEF Sound, StepSound, Steady
<1>7. ActiveSound(r.app, r.ses[r.app.active])
  <2>1. ActiveSound(w.app, w.ses[w.app.active])
    BY DEF Sound
  <2>2. CASE w.app.active = s
    BY <1>3, <2>1, <2>2 DEF ActiveSound, Received, Steady
  <2>3. CASE w.app.active # s
    BY <1>3, <2>1, <2>3 DEF ActiveSound, Received, Steady
  <2> QED BY <2>2, <2>3
<1>8. r.ses[r.app.active].rdp = w.ses[w.app.active].rdp
  BY <1>3 DEF Received
<1>9. PictureSound(r.app, r.scr) /\ RefreshSound(r)
  BY <1>1, <1>3, <1>8, ShowsSound DEF Sound
<1> QED BY <1>1, <1>5, <1>6, <1>7, <1>9 DEF Sound

-----------------------------------------------------------------------------
(* The SDL thread's own steps *)

\* One slot takes a note that does not change what it shows, hides or was told.
Noted(w, r, s) ==
    /\ r \in Worlds /\ r.app = w.app /\ Dimmer(w.scr, r.scr) /\ Elsewhere(w, r, s)
    /\ r.ses[s].rdp = w.ses[s].rdp /\ r.ses[s].suppressed = w.ses[s].suppressed
    /\ r.ses[s].pending = w.ses[s].pending /\ r.ses[s].cache = w.ses[s].cache
    /\ w.ses[s].failed => r.ses[s].failed
    /\ r.ses[s].state = "active" => r.ses[s].rdp
    /\ r.peer[s].want = w.peer[s].want

\* Such a note keeps the world sound.
LEMMA NotedSound ==
    ASSUME NEW w, NEW r, NEW s \in Slots, Sound(w), Noted(w, r, s)
    PROVE  Sound(r)
<1>1. w \in Worlds /\ r \in Worlds /\ Elsewhere(w, r, s) /\ Dimmer(w.scr, r.scr)
  BY DEF Sound, Noted
<1>2. Steady(w.app, r.app)
  BY DEF Steady, Noted
<1>3. SlotSound(r.ses[s], r.peer[s])
  BY DEF Sound, SlotsSound, SlotSound, Noted
<1>4. s = w.app.active => ActiveSound(r.app, r.ses[s]) /\ (r.ses[s].rdp => w.ses[s].rdp)
  BY DEF Sound, ActiveSound, Noted
<1> QED BY <1>1, <1>2, <1>3, <1>4, SlotChange

\* The active slot stays, and its screen only goes to a session or back to the UI.
SameSwitch(w, a) ==
    /\ a \in App /\ a.active = w.app.active /\ a.step = w.app.step /\ a.direct = w.app.direct
    /\ a.heir = w.app.heir /\ a.dead = w.app.dead
    /\ \/ a.streaming = w.app.streaming
       \/ a.step = "loop" /\ (a.streaming => w.ses[a.active].rdp)

\* So the SDL thread's own fields may change.
LEMMA AppSound ==
    ASSUME NEW w, NEW a, Sound(w), SameSwitch(w, a)
    PROVE  LET r == [w EXCEPT !.app = a] IN
           Sound(r) /\ r.app = a /\ r.ses = w.ses /\ r.scr = w.scr /\ r.peer = w.peer
<1> DEFINE r == [w EXCEPT !.app = a]
<1>1. w \in Worlds /\ a \in App
  BY DEF Sound, SameSwitch
<1>2. r \in Worlds /\ r.app = a /\ r.ses = w.ses /\ r.scr = w.scr /\ r.peer = w.peer
  BY <1>1, WithApp
<1> HIDE DEF r
<1>3. SlotsSound(r) /\ StepSound(r.app) /\ PictureSound(r.app, r.scr) /\ RefreshSound(r)
  BY <1>2 DEF Sound, SlotsSound, StepSound, PictureSound, RefreshSound, SameSwitch
<1>4. ActiveSound(r.app, r.ses[r.app.active])
  BY <1>2 DEF Sound, ActiveSound, SameSwitch
<1>5. Sound(r)
  BY <1>2, <1>3, <1>4 DEF Sound
<1> QED BY <1>2, <1>5 DEF r

\* A screen that goes dark with the last session.
LEMMA StopMediaSound ==
    ASSUME NEW w, Sound(w)
    PROVE  Sound(StopMedia(w))
<1> DEFINE r == StopMedia(w)
<1>1. w \in Worlds /\ w.app \in App
  BY WorldParts DEF Sound
<1>2. r \in Worlds /\ r.app = w.app /\ r.ses = w.ses /\ r.peer = w.peer /\ Dimmer(w.scr, r.scr)
  BY <1>1, StopMediaFacts
<1> HIDE DEF r
<1>3. Noted(w, r, w.app.active) /\ w.app.active \in Slots
  BY <1>1, <1>2 DEF Noted, Elsewhere, Sound, SlotsSound, SlotSound, App
<1>4. Sound(r)
  BY <1>3, NotedSound
<1> QED BY <1>4 DEF r

\* A connection that is stopped, whose stream is not on screen.
LEMMA StopSound ==
    ASSUME NEW w, NEW s \in Slots, Sound(w),
           s = w.app.active => ~w.app.streaming /\ w.app.step # "resume"
    PROVE  Sound(StopSlot(w, s))
<1> DEFINE r == StopSlot(w, s)
<1>1. w \in Worlds
  BY DEF Sound
<1>2. /\ r \in Worlds /\ r.app = w.app /\ r.scr = w.scr /\ Elsewhere(w, r, s)
      /\ ~r.ses[s].rdp /\ SlotSound(r.ses[s], r.peer[s])
  BY <1>1, StopSlotFacts
<1> HIDE DEF r
<1>3. Steady(w.app, r.app) /\ Dimmer(w.scr, r.scr)
  BY <1>2 DEF Steady, Dimmer
<1>4. s = w.app.active => ActiveSound(r.app, r.ses[s])
  BY <1>2 DEF ActiveSound
<1>5. Sound(r)
  BY <1>1, <1>2, <1>3, <1>4, SlotChange
<1> QED BY <1>5 DEF r

\* Who leaves the screen at rest may be hidden.
LEMMA ActiveHideable ==
    ASSUME NEW w, Sound(w), w.app.step # "resume"
    PROVE  Hideable(w.ses[w.app.active])
<1>1. w.app.active \in Slots
  BY WorldParts DEF Sound, App
<1> QED BY <1>1 DEF Sound, SlotsSound, SlotSound, ActiveSound, Hideable

\* Another slot goes to the background.
LEMMA BackgroundSound ==
    ASSUME NEW w, NEW s \in Slots, NEW fate \in Fates, Sound(w), s # w.app.active,
           Hideable(w.ses[s])
    PROVE  LET r == Background(w, s, fate) IN Sound(r) /\ r.app = w.app
<1> DEFINE r == Background(w, s, fate)
<1>1. w \in Worlds
  BY DEF Sound
<1>2. /\ r \in Worlds /\ r.app = w.app /\ Elsewhere(w, r, s) /\ Dimmer(w.scr, r.scr)
      /\ SlotSound(r.ses[s], r.peer[s])
  BY <1>1, BackgroundFacts
<1> HIDE DEF r
<1>3. Steady(w.app, r.app)
  BY <1>2 DEF Steady
<1>4. Sound(r)
  BY <1>1, <1>2, <1>3, SlotChange
<1> QED BY <1>2, <1>4 DEF r

\* The new owner is published: its cache is still to be replayed, or was given up.
LEMMA PublishSound ==
    ASSUME NEW w, NEW t \in Slots, Sound(w), w.app.step # "resume", w.app.active # t,
           Accepts(w, t)
    PROVE  LET r == Publish(w, t) IN
           /\ Sound(r) /\ r.app.active = t /\ r.app.running = w.app.running
           /\ \A x \in Slots \ {t} : r.ses[x] = w.ses[x]
<1> DEFINE direct == w.ses[t].pending
           slot == [w.ses[t] EXCEPT !.pending = FALSE, !.cache = NoCache, !.ready = FALSE]
           cleared == IF direct THEN [w EXCEPT !.ses[t] = slot] ELSE w
           bare == CloseRgba(cleared)
           a == [bare.app EXCEPT !.deferred = None, !.progress = FALSE, !.active = t,
                                 !.direct = direct, !.step = "resume"]
           screen == [bare.scr EXCEPT !.refresh = FALSE]
           m == [bare EXCEPT !.app = a]
           r == Publish(w, t)
<1>1. r = [m EXCEPT !.scr = [m.scr EXCEPT !.refresh = FALSE]]
  BY Zenon DEF Publish
<1>2. w \in Worlds /\ w.app \in App /\ w.ses[t] \in Slot /\ direct \in BOOLEAN
  BY WorldParts DEF Sound, Slot
<1>3. /\ SlotSound(w.ses[t], w.peer[t]) /\ w.ses[t].rdp /\ ~w.ses[t].failed
      /\ direct = w.ses[t].pending
  BY DEF Sound, SlotsSound, Accepts
<1> HIDE DEF direct
<1>4. /\ slot \in Slot /\ slot.rdp = w.ses[t].rdp /\ slot.suppressed = w.ses[t].suppressed
      /\ slot.cache = NoCache /\ ~slot.pending /\ slot.state = w.ses[t].state
      /\ slot.failed = w.ses[t].failed
  BY <1>2, CacheTypes DEF Slot
<1> HIDE DEF slot
<1>5. /\ cleared \in Worlds /\ cleared.app = w.app /\ cleared.peer = w.peer
      /\ \A x \in Slots \ {t} : cleared.ses[x] = w.ses[x]
      /\ cleared.ses[t] = IF direct THEN slot ELSE w.ses[t]
  BY <1>2, <1>4, WithSlot
<1>6. /\ SlotSound(cleared.ses[t], w.peer[t]) /\ cleared.ses[t].rdp /\ ~cleared.ses[t].pending
      /\ ~(direct /\ cleared.ses[t].suppressed)
  <2> HIDE DEF cleared
  <2>1. CASE direct
    <3>1. SlotSound(slot, w.peer[t]) /\ ~slot.suppressed
      BY <1>3, <1>4, <2>1, CacheTypes DEF SlotSound, CacheSound
    <3> QED BY <1>3, <1>4, <1>5, <2>1, <3>1
  <2>2. CASE ~direct
    BY <1>3, <1>5, <2>2
  <2> QED BY <2>1, <2>2
<1> HIDE DEF cleared
<1>7. /\ Received(cleared, bare, t) /\ bare.app = cleared.app /\ bare.ses = cleared.ses
      /\ bare.scr.rgba = None
  BY <1>5, CloseRgbaFacts
<1>8. bare \in Worlds /\ bare.scr \in Screen /\ bare.peer = w.peer
  BY <1>5, <1>7, WorldParts DEF Received
<1> HIDE DEF bare
<1>9. /\ a \in App /\ a.active = t /\ a.step = "resume" /\ a.direct = direct
      /\ a.dead = w.app.dead /\ a.running = w.app.running
  BY <1>2, <1>5, <1>7 DEF App
<1>10. screen \in Screen /\ screen.rgba = None /\ ~screen.refresh
  BY <1>7, <1>8 DEF Screen
<1> HIDE DEF a, screen
<1>11. m \in Worlds /\ m.app = a /\ m.ses = bare.ses /\ m.scr = bare.scr /\ m.peer = bare.peer
  BY <1>8, <1>9, WithApp
<1> HIDE DEF m
<1>12. r = [m EXCEPT !.scr = screen]
  BY <1>1, <1>11 DEF screen
<1>13. r \in Worlds /\ r.app = a /\ r.ses = m.ses /\ r.scr = screen /\ r.peer = m.peer
  BY <1>10, <1>11, <1>12, WithScreen
<1> HIDE DEF r
<1>14. SlotsSound(r)
  BY <1>5, <1>6, <1>7, <1>8, <1>11, <1>13 DEF Sound, SlotsSound
<1>15. StepSound(r.app)
  <2>1. a.dead # t
    BY <1>2, <1>9, NoneAssumption DEF Sound, StepSound, App
  <2> QED BY <1>9, <1>13, <2>1 DEF StepSound
<1>16. ActiveSound(r.app, r.ses[r.app.active])
  BY <1>6, <1>7, <1>9, <1>11, <1>13 DEF ActiveSound
<1>17. PictureSound(r.app, r.scr) /\ RefreshSound(r)
  BY <1>10, <1>13 DEF PictureSound, RefreshSound
<1>18. Sound(r)
  BY <1>13, <1>14, <1>15, <1>16, <1>17 DEF Sound
<1>19. \A x \in Slots \ {t} : r.ses[x] = w.ses[x]
  BY <1>5, <1>7, <1>11, <1>13
<1> QED BY <1>9, <1>13, <1>18, <1>19 DEF r

\* A switch hands the screen over and hides who had it.
LEMMA CompleteSound ==
    ASSUME NEW w, NEW t \in Slots, NEW fortune \in [Slots -> Fates], Sound(w),
           w.app.step # "resume"
    PROVE  Sound(Complete(w, t, fortune))
<1> DEFINE p == Publish(w, t)
           old == w.app.active
           r == Complete(w, t, fortune)
<1>1. r = IF ~Accepts(w, t) \/ old = t THEN w ELSE Background(p, old, fortune[old])
  BY Zenon DEF Complete
<1>2. CASE r = w
  BY <1>2
<1>3. CASE Accepts(w, t) /\ old # t
  <2>1. /\ Sound(p) /\ p.app.active = t /\ \A x \in Slots \ {t} : p.ses[x] = w.ses[x]
    BY <1>3, PublishSound
  <2>2. old \in Slots
    BY WorldParts DEF Sound, App
  <2>3. Hideable(p.ses[old])
    BY <1>3, <2>1, <2>2, ActiveHideable
  <2> HIDE DEF p
  <2>4. Sound(Background(p, old, fortune[old]))
    BY <1>3, <2>1, <2>2, <2>3, BackgroundSound
  <2> QED BY <1>1, <1>3, <2>4
<1> QED BY <1>1, <1>2, <1>3

\* An immediate switch, and a hidden stream that is told to be quiet.
LEMMA SwitchAnywaySound ==
    ASSUME NEW w, NEW t \in Slots, NEW fortune \in [Slots -> Fates], Sound(w),
           w.app.step = "loop"
    PROVE  Sound(SwitchAnyway(w, t, fortune))
<1> DEFINE a == [w.app EXCEPT !.deferred = None]
           m == [w EXCEPT !.app = a]
<1>1. SwitchAnyway(w, t, fortune) = Complete(m, t, fortune)
  BY Zenon DEF SwitchAnyway
<1>2. w.app \in App
  BY WorldParts DEF Sound
<1>3. SameSwitch(w, a) /\ a.step = "loop"
  BY <1>2 DEF App, SameSwitch
<1> HIDE DEF a
<1>4. Sound(m) /\ m.app.step = "loop"
  BY <1>3, AppSound
<1> HIDE DEF m
<1> QED BY <1>1, <1>4, CompleteSound

\* The slot that is silenced is not the one on screen.
LEMMA SilencedSound ==
    ASSUME NEW w, NEW s \in Slots, Sound(w), s # w.app.active
    PROVE  LET r == Silenced(w, s) IN Sound(r) /\ r.app = w.app
<1> DEFINE q == Suppress(w, s)
           slot == [q.ses[s] EXCEPT !.pending = FALSE]
           r == Silenced(w, s)
<1>1. r = [q EXCEPT !.ses[s] = slot]
  BY Zenon DEF Silenced
<1>2. w \in Worlds
  BY DEF Sound
<1>3. /\ q \in Worlds /\ q.app = w.app /\ q.scr = w.scr /\ Elsewhere(w, q, s)
      /\ q.ses[s].suppressed /\ q.ses[s].rdp = w.ses[s].rdp
      /\ q.ses[s].state = w.ses[s].state /\ q.ses[s].cache = w.ses[s].cache
  BY <1>2, SuppressFacts
<1> HIDE DEF q
<1>4. q.ses[s] \in Slot
  BY <1>3, WorldParts
<1>5. /\ slot \in Slot /\ slot.suppressed /\ slot.rdp = w.ses[s].rdp /\ ~slot.pending
      /\ slot.state = w.ses[s].state /\ slot.cache = w.ses[s].cache
  BY <1>3, <1>4 DEF Slot
<1> HIDE DEF slot
<1>6. /\ r \in Worlds /\ r.app = w.app /\ r.scr = w.scr /\ r.peer = q.peer
      /\ r.ses[s] = slot /\ \A x \in Slots \ {s} : r.ses[x] = q.ses[x]
  BY <1>1, <1>3, <1>5, WithSlot
<1> HIDE DEF r
<1>7. SlotSound(r.ses[s], r.peer[s])
  BY <1>5, <1>6 DEF Sound, SlotsSound, SlotSound
<1>8. Steady(w.app, r.app) /\ Dimmer(w.scr, r.scr) /\ Elsewhere(w, r, s)
  BY <1>3, <1>6 DEF Steady, Dimmer, Elsewhere
<1>9. Sound(r)
  BY <1>2, <1>6, <1>7, <1>8, SlotChange
<1> QED BY <1>6, <1>9 DEF r

\* A slot that is not on screen may become any sound one.
LEMMA HiddenChange ==
    ASSUME NEW w, NEW r \in Worlds, NEW s \in Slots, Sound(w), s # w.app.active,
           r.app = w.app, Dimmer(w.scr, r.scr), Elsewhere(w, r, s),
           SlotSound(r.ses[s], r.peer[s])
    PROVE  Sound(r)
<1>1. w \in Worlds /\ Steady(w.app, r.app)
  BY DEF Sound, Steady
<1> QED BY <1>1, SlotChange

\* A deferred switch prepares its target: under a cache, by a hidden reconnect, or, when
\* there is no memory for one, by switching at once.  The target may come in with a cache
\* it no longer waits for, if it is about to be reconnected.
LEMMA PrepareSound ==
    ASSUME NEW u, NEW w \in Worlds, NEW t \in Slots, NEW fortune \in [Slots -> Fates],
           Sound(u), w.app = u.app, w.scr = u.scr, Elsewhere(u, w, t), t # u.app.active,
           u.app.step = "loop",
           SlotSound(w.ses[t], w.peer[t]) \/ (w.ses[t].deaf /\ ~w.ses[t].pending)
    PROVE  Sound(Prepare(w, t, fortune))
<1> DEFINE again == w.ses[t].deaf \/ SnapshotForce
           noted == [w.ses[t] EXCEPT !.retried = TRUE]
           marked == [w EXCEPT !.ses[t] = noted]
           hidden == Reconnect(marked, t, TRUE, fortune[t])
           cache == IF fortune[t].memory THEN ArmedCache ELSE NoCache
           filling == [w.ses[t] EXCEPT !.cache = cache, !.ready = FALSE]
           armed == [w EXCEPT !.ses[t] = filling]
           cached == IF again THEN hidden ELSE armed
           hoping == [cached.ses[t] EXCEPT !.pending = TRUE, !.suppressed = FALSE]
           waiting == [cached EXCEPT !.ses[t] = hoping]
           now == [cached.app EXCEPT !.deferred = None]
           bare == [cached EXCEPT !.app = now]
           r == Prepare(w, t, fortune)
<1>1. r = IF w.ses[t].pending THEN w
          ELSE IF again /\ ~fortune[t].starts THEN hidden
          ELSE IF ~fortune[t].memory THEN Complete(bare, t, fortune)
          ELSE IF again THEN waiting
          ELSE Refresh(Resume(waiting, t), t)
  BY Zenon DEF Prepare
<1>2. w.ses[t] \in Slot /\ fortune[t] \in Fates /\ fortune[t].memory \in BOOLEAN
  BY WorldParts DEF Fates
<1>3. noted \in Slot
  BY <1>2 DEF Slot
<1> HIDE DEF noted
<1>4. /\ marked \in Worlds /\ marked.app = u.app /\ marked.scr = u.scr
      /\ Elsewhere(u, marked, t)
  BY <1>3, WithSlot DEF Elsewhere
<1> HIDE DEF marked
<1>5. /\ hidden \in Worlds /\ hidden.app = u.app /\ Elsewhere(u, hidden, t)
      /\ Dimmer(u.scr, hidden.scr) /\ hidden.peer[t] = NoPeer /\ Empty(hidden.ses[t], TRUE)
      /\ (hidden.ses[t].rdp <=> fortune[t].starts)
      /\ (hidden.ses[t].cache.armed => fortune[t].memory)
  <2>1. /\ hidden \in Worlds /\ hidden.app = marked.app /\ Elsewhere(marked, hidden, t)
        /\ Dimmer(marked.scr, hidden.scr) /\ hidden.peer[t] = NoPeer
        /\ Empty(hidden.ses[t], TRUE) /\ (hidden.ses[t].rdp <=> fortune[t].starts)
        /\ (hidden.ses[t].cache.armed => fortune[t].memory)
    <3>1. PICK fate \in Fates : fate = fortune[t]
      BY <1>2
    <3>2. hidden = Reconnect(marked, t, TRUE, fate)
      BY <3>1
    <3> HIDE DEF hidden
    <3>3. LET q == Reconnect(marked, t, TRUE, fate) IN
          /\ q \in Worlds /\ q.app = marked.app /\ Elsewhere(marked, q, t)
          /\ Dimmer(marked.scr, q.scr) /\ q.peer[t] = NoPeer
          /\ Empty(q.ses[t], TRUE) /\ (q.ses[t].rdp <=> fate.starts)
          /\ (q.ses[t].cache.armed => fate.memory)
      BY <1>4, ReconnectHidden
    <3> QED BY <3>1, <3>2, <3>3
  <2> HIDE DEF hidden
  <2>2. Elsewhere(u, hidden, t)
    BY <1>4, <2>1 DEF Elsewhere
  <2> QED BY <1>4, <2>1, <2>2
<1> HIDE DEF hidden
<1>6. hidden.ses[t] \in Slot
  BY <1>5, WorldParts
<1>7. CASE r = w /\ w.ses[t].pending
  <2>1. SlotSound(w.ses[t], w.peer[t]) /\ Dimmer(u.scr, w.scr)
    BY <1>7 DEF Dimmer
  <2> QED BY <1>7, <2>1, HiddenChange
<1>8. CASE r = hidden /\ ~fortune[t].starts
  <2>1. SlotSound(hidden.ses[t], hidden.peer[t])
    BY <1>5, <1>6, <1>8, EmptySound
  <2> QED BY <1>5, <1>8, <2>1, HiddenChange
<1>9. cache \in Cache /\ cache.len = 0 /\ (cache.armed => fortune[t].memory)
  BY CacheTypes
<1> HIDE DEF cache
<1>10. /\ filling \in Slot /\ filling.cache = cache /\ filling.rdp = w.ses[t].rdp
       /\ filling.state = w.ses[t].state /\ filling.pending = w.ses[t].pending
       /\ filling.suppressed = w.ses[t].suppressed /\ filling.failed = w.ses[t].failed
  BY <1>2, <1>9 DEF Slot
<1> HIDE DEF filling
<1>11. /\ armed \in Worlds /\ armed.app = u.app /\ armed.scr = u.scr /\ armed.peer = w.peer
       /\ Elsewhere(u, armed, t) /\ armed.ses[t] = filling
  BY <1>10, WithSlot DEF Elsewhere
<1> HIDE DEF armed
<1>12. CASE ~w.ses[t].pending /\ (again => fortune[t].starts)
  <2>1. again \in BOOLEAN /\ (~again => SlotSound(w.ses[t], w.peer[t]) /\ ~w.ses[t].pending)
    BY <1>12
  <2>2. again => fortune[t].starts
    BY <1>12
  <2> HIDE DEF again
  <2>3. /\ cached \in Worlds /\ cached.app = u.app /\ Elsewhere(u, cached, t)
        /\ Dimmer(u.scr, cached.scr) /\ cached.ses[t] \in Slot
        /\ cached.ses[t].cache.len = 0 /\ (cached.ses[t].cache.armed => fortune[t].memory)
        /\ (cached.ses[t].state = "active" => cached.ses[t].rdp)
        /\ ~cached.ses[t].pending
    <3>1. CASE again
      BY <1>5, <1>6, <3>1 DEF Empty
    <3>2. CASE ~again
      BY <1>9, <1>10, <1>11, <2>1, <3>2 DEF Dimmer, SlotSound
    <3> QED BY <3>1, <3>2
  <2>4. CASE r = Complete(bare, t, fortune) /\ ~fortune[t].memory
    <3>1. SlotSound(cached.ses[t], cached.peer[t])
      <4>1. CASE again
        BY <1>5, <2>3, <2>4, <4>1 DEF Empty, SlotSound, CacheSound, NoPeer
      <4>2. CASE ~again
        <5>1. cached = armed
          BY <4>2
        <5>2. SlotSound(filling, w.peer[t])
          BY <1>9, <1>10, <2>1, <2>4, <4>2 DEF SlotSound, CacheSound
        <5> QED BY <1>11, <5>1, <5>2
      <4> QED BY <4>1, <4>2
    <3> HIDE DEF cached
    <3>2. Sound(cached)
      BY <2>3, <3>1, HiddenChange
    <3>3. cached.app \in App
      BY <2>3, WorldParts
    <3>4. SameSwitch(cached, now) /\ now.step = "loop"
      BY <2>3, <3>3 DEF App, SameSwitch
    <3> HIDE DEF now
    <3>5. Sound(bare) /\ bare.app.step = "loop"
      BY <3>2, <3>4, AppSound
    <3> HIDE DEF bare
    <3> QED BY <2>4, <3>5, CompleteSound
  <2>5. cached.peer[t] = IF again THEN NoPeer ELSE w.peer[t]
    BY <1>5, <1>11
  <2> HIDE DEF cached
  <2>6. /\ hoping \in Slot /\ hoping.pending /\ ~hoping.suppressed
        /\ hoping.cache = cached.ses[t].cache /\ hoping.state = cached.ses[t].state
        /\ hoping.rdp = cached.ses[t].rdp
    BY <2>3 DEF Slot
  <2> HIDE DEF hoping
  <2>7. /\ waiting \in Worlds /\ waiting.app = u.app /\ waiting.scr = cached.scr
        /\ waiting.peer = cached.peer /\ waiting.ses[t] = hoping /\ Elsewhere(u, waiting, t)
    BY <2>3, <2>6, WithSlot DEF Elsewhere
  <2> HIDE DEF waiting
  <2>8. ASSUME NEW far, far.want
        PROVE  SlotSound(hoping, far)
    BY <2>3, <2>6, <2>8 DEF SlotSound, CacheSound
  <2>9. CASE r = waiting /\ again
    <3>1. SlotSound(waiting.ses[t], waiting.peer[t])
      BY <2>5, <2>7, <2>8, <2>9 DEF NoPeer
    <3> QED BY <2>3, <2>7, <2>9, <3>1, HiddenChange
  <2>10. CASE r = Refresh(Resume(waiting, t), t)
    <3> DEFINE up == Resume(waiting, t)
    <3>1. /\ up \in Worlds /\ up.app = u.app /\ up.scr = cached.scr /\ up.ses = waiting.ses
          /\ up.peer[t].want /\ Elsewhere(waiting, up, t)
      BY <2>7, ResumeFacts
    <3>2. r = Refresh(up, t)
      BY <2>10
    <3> HIDE DEF up
    <3>3. /\ r \in Worlds /\ r.app = u.app /\ r.scr = cached.scr /\ r.ses = up.ses
          /\ r.peer[t].want /\ Elsewhere(up, r, t)
      BY <3>1, <3>2, RefreshFacts
    <3> HIDE DEF r
    <3>4. Elsewhere(u, r, t) /\ SlotSound(r.ses[t], r.peer[t])
      BY <2>7, <2>8, <3>1, <3>3 DEF Elsewhere
    <3>5. Sound(r)
      BY <2>3, <3>3, <3>4, HiddenChange
    <3> QED BY <3>5 DEF r
  <2> QED BY <1>1, <1>12, <2>4, <2>9, <2>10 DEF again
<1> QED BY <1>1, <1>7, <1>8, <1>12

-----------------------------------------------------------------------------
(* The new owner gets its picture *)

\* A replay leaves the cache empty, and the decoder where the cache had come to.
LEMMA ReplayFacts ==
    ASSUME NEW w \in Worlds, NEW s \in Slots, NEW quiet \in BOOLEAN, NEW luck
    PROVE  LET r == Replay(w, s, quiet, luck) IN
           /\ Received(w, r, s) /\ Shows(w, r, s)
           /\ ~r.ses[s].cache.armed /\ CacheSound(r.ses[s].cache)
           /\ Replays(w, s, quiet) /\ luck \notin {"notready", "error"} /\ w.app.active = s =>
                /\ r.scr.owner = s \/ w.ses[s].failed \/ ~r.app.running
                /\ r.scr.level = w.ses[s].cache.level /\ r.scr.broken = w.ses[s].cache.gap
<1> DEFINE c == w.ses[s].cache
           slot == [w.ses[s] EXCEPT !.cache = NoCache, !.ready = FALSE]
           taken == [w EXCEPT !.ses[s] = slot]
           fed == Ingest(taken, s, "seed", luck)
           a == [fed.scr EXCEPT !.level = c.level, !.broken = c.gap]
           done == [fed EXCEPT !.scr = a]
           r == Replay(w, s, quiet, luck)
<1>1. r = IF ~Replays(w, s, quiet) THEN taken
          ELSE IF luck \in {"notready", "error"} THEN fed ELSE done
  BY Zenon DEF Replay
<1>2. w.ses[s] \in Slot /\ c \in Cache
  BY WorldParts DEF Slot
<1>3. c.level \in BOOLEAN /\ c.gap \in BOOLEAN
  BY <1>2 DEF Cache
<1> HIDE DEF c
<1>4. /\ slot \in Slot /\ slot.rdp = w.ses[s].rdp /\ slot.state = w.ses[s].state
      /\ slot.suppressed = w.ses[s].suppressed /\ slot.pending = w.ses[s].pending
      /\ slot.failed = w.ses[s].failed /\ slot.cache = NoCache
  BY <1>2, CacheTypes DEF Slot
<1>5. CacheSound(NoCache)
  BY CacheTypes DEF CacheSound
<1> HIDE DEF slot
<1>6. /\ Received(w, taken, s) /\ taken.scr = w.scr /\ taken.app = w.app
      /\ taken.ses[s] = slot
  BY <1>4, <1>5, CacheTypes, ReceivedSlot
<1>7. taken \in Worlds
  BY <1>6 DEF Received
<1> HIDE DEF taken
<1>8. /\ Received(taken, fed, s) /\ Shows(taken, fed, s)
      /\ w.app.active = s => fed.scr.owner = s \/ w.ses[s].failed \/ ~fed.app.running
  BY <1>4, <1>6, <1>7, CacheTypes, IngestFacts
<1> HIDE DEF fed
<1>9. fed \in Worlds /\ fed.scr \in Screen
  BY <1>8, WorldParts DEF Received
<1>10. a \in Screen /\ SameHands(fed.scr, a) /\ a.level = c.level /\ a.broken = c.gap
       /\ a.refresh = fed.scr.refresh
  BY <1>3, <1>9 DEF Screen, SameHands
<1> HIDE DEF a
<1>11. Received(fed, done, s) /\ done.scr = a /\ done.app = fed.app
  BY <1>9, <1>10, ReceivedScreen
<1> HIDE DEF done
<1>12. Received(taken, done, s)
  BY <1>8, <1>11, ReceivedThen
<1>13. /\ Received(w, fed, s) /\ Received(w, done, s)
  BY <1>6, <1>8, <1>12, ReceivedThen
<1>14. Shows(w, fed, s) /\ Shows(w, done, s) /\ Shows(w, taken, s)
  BY <1>6, <1>8, <1>10, <1>11 DEF Shows, SameHands, Dimmer, OwnScreen
<1>15. /\ ~taken.ses[s].cache.armed /\ CacheSound(taken.ses[s].cache)
       /\ ~fed.ses[s].cache.armed /\ CacheSound(fed.ses[s].cache)
       /\ ~done.ses[s].cache.armed /\ CacheSound(done.ses[s].cache)
  BY <1>4, <1>5, <1>6, <1>8, <1>12, CacheTypes DEF Received
<1>16. w.app.active = s =>
         /\ done.scr.owner = s \/ w.ses[s].failed \/ ~done.app.running
         /\ done.scr.level = c.level /\ done.scr.broken = c.gap
  BY <1>8, <1>10, <1>11 DEF SameHands
<1>17. Replays(w, s, quiet) /\ luck \notin {"notready", "error"} => r = done
  BY <1>1
<1>18. r \in {taken, fed, done}
  BY <1>1
<1> HIDE DEF r
<1>19. /\ Received(w, r, s) /\ Shows(w, r, s)
       /\ ~r.ses[s].cache.armed /\ CacheSound(r.ses[s].cache)
  BY <1>6, <1>13, <1>14, <1>15, <1>18
<1>20. Replays(w, s, quiet) /\ luck \notin {"notready", "error"} /\ w.app.active = s =>
         /\ r.scr.owner = s \/ w.ses[s].failed \/ ~r.app.running
         /\ r.scr.level = c.level /\ r.scr.broken = c.gap
  BY <1>16, <1>17
<1> QED BY <1>19, <1>20 DEF r, c

\* What the new owner has when its switch is done, the SDL thread's own fields apart.
Landed(w) ==
    /\ w \in Worlds /\ SlotsSound(w) /\ PictureSound(w.app, w.scr) /\ RefreshSound(w)
    /\ w.app.step = "resume" /\ w.app.dead # w.app.active
    /\ LET slot == w.ses[w.app.active] IN
       /\ slot.rdp => ~slot.cache.armed /\ ~slot.pending /\ ~slot.suppressed
       /\ slot.rdp \/ slot.failed

\* An owner that was never suppressed, or that was waiting for its seed, needs nothing more.
LEMMA AlreadyLanded ==
    ASSUME NEW w, Sound(w), w.app.step = "resume",
           w.app.direct \/ ~w.ses[w.app.active].suppressed
    PROVE  Landed(w)
<1>1. w \in Worlds /\ w.app.active \in Slots
  BY WorldParts DEF Sound, App
<1>2. SlotSound(w.ses[w.app.active], w.peer[w.app.active])
  BY <1>1 DEF Sound, SlotsSound
<1>3. /\ w.ses[w.app.active].rdp /\ ~w.ses[w.app.active].pending
      /\ ~w.ses[w.app.active].suppressed
  BY DEF Sound, ActiveSound
<1> QED BY <1>2, <1>3 DEF Sound, Landed, StepSound, SlotSound

\* A suppressed owner gets a replay, a reconnect or a request for a keyframe.
LEMMA ReenterLands ==
    ASSUME NEW w, NEW t \in Slots, NEW quiet \in BOOLEAN, NEW luck, NEW fate \in Fates,
           Sound(w), w.app.step = "resume", w.app.active = t
    PROVE  LET r == Reenter(w, t, quiet, luck, fate) IN
           Landed(r) /\ Steady(w.app, r.app)
<1> DEFINE awake == [w.ses[t] EXCEPT !.suppressed = FALSE]
           woken == [w EXCEPT !.ses[t] = awake]
           played == Replay(woken, t, quiet, luck)
           up == Resume(played, t)
           r == Reenter(w, t, quiet, luck, fate)
<1>1. r = IF Replays(w, t, quiet) /\ luck \notin {"notready", "error"} THEN up
          ELSE IF played.ses[t].failed THEN played
          ELSE IF played.ses[t].deaf THEN Reconnect(played, t, FALSE, fate)
          ELSE Refresh(up, t)
  BY Zenon DEF Reenter
<1>2. w \in Worlds /\ w.ses[t] \in Slot
  BY WorldParts DEF Sound
<1>3. /\ w.ses[t].rdp /\ ~w.ses[t].pending /\ w.app.dead # t
  BY DEF Sound, ActiveSound, StepSound
<1>4. /\ awake \in Slot /\ awake.rdp /\ ~awake.pending /\ ~awake.suppressed
  BY <1>2, <1>3 DEF Slot
<1> HIDE DEF awake
<1>5. /\ woken \in Worlds /\ woken.app = w.app /\ woken.scr = w.scr /\ woken.peer = w.peer
      /\ woken.ses[t] = awake /\ \A x \in Slots \ {t} : woken.ses[x] = w.ses[x]
  BY <1>2, <1>4, WithSlot
<1> HIDE DEF woken
<1>6. /\ Received(woken, played, t) /\ Shows(woken, played, t)
      /\ ~played.ses[t].cache.armed /\ CacheSound(played.ses[t].cache)
  BY <1>2, <1>5, ReplayFacts
<1> HIDE DEF played
<1>7. /\ played \in Worlds /\ Steady(w.app, played.app)
      /\ played.app.active = t /\ played.app.step = "resume" /\ played.app.dead = w.app.dead
      /\ played.peer = w.peer /\ \A x \in Slots \ {t} : played.ses[x] = w.ses[x]
      /\ played.ses[t].rdp /\ ~played.ses[t].pending /\ ~played.ses[t].suppressed
  BY <1>4, <1>5, <1>6 DEF Received, Steady
<1>8. PictureSound(played.app, played.scr) /\ RefreshSound(played)
  <2>1. RefreshSound(woken) /\ PictureSound(woken.app, woken.scr)
    BY <1>3, <1>5 DEF Sound, RefreshSound, PictureSound
  <2> QED BY <1>2, <1>4, <1>5, <1>6, <1>7, <2>1, ShowsSound
<1>9. ASSUME NEW q \in Worlds, q.app = played.app, Dimmer(played.scr, q.scr),
             Elsewhere(played, q, t), SlotSound(q.ses[t], q.peer[t]),
             q.ses[t].rdp => /\ ~q.ses[t].cache.armed /\ ~q.ses[t].pending
                             /\ ~q.ses[t].suppressed,
             q.ses[t].rdp \/ q.ses[t].failed
      PROVE  Landed(q) /\ Steady(w.app, q.app)
  <2>1. SlotsSound(q)
    BY <1>7, <1>9 DEF Sound, SlotsSound, Elsewhere
  <2>2. PictureSound(q.app, q.scr) /\ RefreshSound(q)
    <3>1. Shows(played, q, t)
      BY <1>9 DEF Shows
    <3> QED BY <1>2, <1>7, <1>8, <1>9, <3>1, ShowsSound
  <2> QED BY <1>3, <1>7, <1>9, <2>1, <2>2 DEF Landed
<1>10. ASSUME NEW far, played.ses[t].failed \/ far.want
       PROVE  SlotSound(played.ses[t], far)
  BY <1>6, <1>7, <1>10 DEF SlotSound
<1>11. Dimmer(played.scr, played.scr) /\ Elsewhere(played, played, t)
  BY DEF Dimmer, Elsewhere
<1>12. CASE r = played /\ played.ses[t].failed
  <2>1. SlotSound(played.ses[t], played.peer[t])
    BY <1>10, <1>12
  <2> QED BY <1>6, <1>7, <1>9, <1>11, <1>12, <2>1
<1>13. /\ up \in Worlds /\ up.app = played.app /\ up.scr = played.scr /\ up.ses = played.ses
       /\ up.peer[t].want /\ Elsewhere(played, up, t)
  BY <1>2, <1>7, ResumeFacts
<1> HIDE DEF up
<1>14. CASE r = up
  <2>1. SlotSound(up.ses[t], up.peer[t])
    BY <1>10, <1>13
  <2> QED BY <1>6, <1>7, <1>9, <1>11, <1>13, <1>14, <2>1
<1>15. CASE r = Refresh(up, t)
  <2> DEFINE q == Refresh(up, t)
  <2>1. /\ q \in Worlds /\ q.app = played.app /\ q.scr = played.scr /\ q.ses = played.ses
        /\ q.peer[t].want /\ Elsewhere(up, q, t)
    BY <1>2, <1>13, RefreshFacts
  <2> HIDE DEF q
  <2>2. SlotSound(q.ses[t], q.peer[t]) /\ Elsewhere(played, q, t)
    BY <1>10, <1>13, <2>1 DEF Elsewhere
  <2>3. Landed(q) /\ Steady(w.app, q.app)
    BY <1>6, <1>7, <1>9, <1>11, <2>1, <2>2
  <2> QED BY <1>15, <2>3 DEF q
<1>16. CASE r = Reconnect(played, t, FALSE, fate)
  <2> DEFINE q == Reconnect(played, t, FALSE, fate)
  <2>1. /\ q \in Worlds /\ q.app = played.app /\ Elsewhere(played, q, t)
        /\ Dimmer(played.scr, q.scr) /\ q.peer[t] = NoPeer /\ Empty(q.ses[t], FALSE)
        /\ q.ses[t].rdp \/ q.ses[t].failed
    <3>1. played \in Worlds
      BY <1>7
    <3> QED BY <3>1, ReconnectShown
  <2> HIDE DEF q
  <2>2. SlotSound(q.ses[t], q.peer[t])
    BY <2>1 DEF SlotSound, CacheSound, Empty, NoPeer
  <2>3. Landed(q) /\ Steady(w.app, q.app)
    BY <1>9, <2>1, <2>2 DEF Empty
  <2> QED BY <1>16, <2>3 DEF q
<1> QED BY <1>1, <1>12, <1>14, <1>15, <1>16

\* A dead slot that is buried is not the new owner.
LEMMA BuryLands ==
    ASSUME NEW w, NEW d \in Slots, Landed(w), d # w.app.active
    PROVE  LET r == StopMedia(StopSlot(w, d)) IN Landed(r)
<1> DEFINE q == StopSlot(w, d)
           r == StopMedia(q)
<1>1. w \in Worlds /\ w.app.active \in Slots
  BY WorldParts DEF Landed, App
<1>2. /\ q \in Worlds /\ q.app = w.app /\ q.scr = w.scr /\ Elsewhere(w, q, d)
      /\ SlotSound(q.ses[d], q.peer[d])
  BY <1>1, StopSlotFacts
<1> HIDE DEF q
<1>3. r \in Worlds /\ r.app = q.app /\ r.ses = q.ses /\ r.peer = q.peer /\ Dimmer(q.scr, r.scr)
  BY <1>2, StopMediaFacts
<1> HIDE DEF r
<1>4. SlotsSound(r) /\ r.ses[w.app.active] = w.ses[w.app.active]
  BY <1>1, <1>2, <1>3 DEF Landed, SlotsSound, Elsewhere
<1>5. PictureSound(r.app, r.scr) /\ RefreshSound(r)
  <2>1. Shows(w, r, d)
    BY <1>2, <1>3 DEF Shows
  <2> QED BY <1>1, <1>2, <1>3, <1>4, <2>1, ShowsSound DEF Landed
<1>6. Landed(r)
  BY <1>2, <1>3, <1>4, <1>5 DEF Landed
<1> QED BY <1>6 DEF r, q

\* The switch is over, and the watchdog waits for the first picture.
LEMMA HandedSound ==
    ASSUME NEW w, Landed(w)
    PROVE  Sound(Handed(w))
<1> DEFINE watching == [w.app EXCEPT !.watch = TRUE, !.reconnected = FALSE]
           a == [watching EXCEPT !.step = "loop", !.direct = FALSE, !.heir = None, !.dead = None]
           m == [w EXCEPT !.app = watching]
           r == Handed(w)
<1>1. r = [m EXCEPT !.app = [m.app EXCEPT !.step = "loop", !.direct = FALSE,
                                          !.heir = None, !.dead = None]]
  BY Zenon DEF Handed, StartWatch
<1>2. w \in Worlds /\ w.app \in App
  BY WorldParts DEF Landed
<1>3. watching \in App /\ watching.active = w.app.active
  BY <1>2 DEF App
<1> HIDE DEF watching
<1>4. /\ a \in App /\ a.active = w.app.active /\ a.step = "loop" /\ a.heir = None
      /\ a.dead = None
  BY <1>3 DEF App
<1>5. m \in Worlds /\ m.app = watching /\ m.ses = w.ses /\ m.scr = w.scr /\ m.peer = w.peer
  BY <1>2, <1>3, WithApp
<1> HIDE DEF m
<1>6. r = [m EXCEPT !.app = a]
  BY <1>1, <1>5
<1> HIDE DEF a
<1>7. r \in Worlds /\ r.app = a /\ r.ses = w.ses /\ r.scr = w.scr /\ r.peer = w.peer
  BY <1>4, <1>5, <1>6, WithApp
<1> HIDE DEF r
<1>8. SlotsSound(r) /\ StepSound(r.app) /\ PictureSound(r.app, r.scr) /\ RefreshSound(r)
  BY <1>4, <1>7 DEF Landed, SlotsSound, StepSound, PictureSound, RefreshSound
<1>9. ActiveSound(r.app, r.ses[r.app.active])
  BY <1>4, <1>7 DEF Landed, ActiveSound
<1>10. Sound(r)
  BY <1>7, <1>8, <1>9 DEF Sound
<1> QED BY <1>10 DEF r

-----------------------------------------------------------------------------
(* Every step keeps the world sound *)

\* The world is the state, and what it becomes is the next one.
LEMMA Now == World.app = app /\ World.ses = ses /\ World.scr = scr /\ World.peer = peer
BY DEF World

\* A step that becomes a sound world.
LEMMA BecomesSound ==
    ASSUME NEW r, Sound(r), Become(r)
    PROVE  Sound(World)'
<1>1. World' = r
  BY Becomes DEF Sound
<1>2. Sound(World')
  BY <1>1
<1> QED BY <1>2 DEF Sound, Worlds, SlotsSound, StepSound, ActiveSound, PictureSound,
                    RefreshSound, SlotSound, CacheSound

\* The fates a scenario allows are fates.
LEMMA Given ==
    ASSUME scenario \in Scenarios
    PROVE  scenario.fates \subseteq Fates /\ Fortunes \subseteq [Slots -> Fates]
<1>1. scenario.fates \subseteq Fates
  BY ScenariosAssumption DEF IsScenario
<1> QED BY <1>1 DEF Fortunes

\* The new owner of the screen gets its frames, a new connection or a request.
LEMMA FinishSwitchSound ==
    ASSUME Sound(World), scenario \in Scenarios, FinishSwitch
    PROVE  Sound(World)'
<1>1. PICK quiet \in BOOLEAN, luck \in scenario.lucks, fate \in scenario.fates :
        ResumeTarget(quiet, luck, fate)
  BY DEF FinishSwitch
<1> DEFINE t == app.active
           entered == IF ~app.direct /\ ses[t].suppressed
                      THEN Reenter(World, t, quiet, luck, fate) ELSE World
           buried == IF app.dead = None THEN entered ELSE StopMedia(StopSlot(entered, app.dead))
<1>2. app.step = "resume" /\ Become(Handed(buried))
  BY <1>1 DEF ResumeTarget
<1>3. app \in App
  BY Now, WorldParts DEF Sound
<1>4. app.active \in Slots /\ app.dead \in Slots \cup {None} /\ app.direct \in BOOLEAN
  BY <1>3 DEF App
<1>5. Landed(entered) /\ Steady(app, entered.app)
  <2>1. CASE ~app.direct /\ ses[t].suppressed
    <3>1. PICK a \in Slots : a = app.active
      BY <1>4
    <3>2. fate \in Fates
      BY Given
    <3>3. LET r == Reenter(World, a, quiet, luck, fate) IN Landed(r) /\ Steady(app, r.app)
      BY <1>2, <3>1, <3>2, Now, ReenterLands
    <3> QED BY <2>1, <3>1, <3>3
  <2>2. CASE ~(~app.direct /\ ses[t].suppressed)
    <3>1. Landed(World)
      BY <1>2, <2>2, Now, AlreadyLanded
    <3>2. Steady(app, World.app)
      BY Now DEF Steady
    <3> QED BY <2>2, <3>1, <3>2
  <2> QED BY <2>1, <2>2
<1> HIDE DEF entered
<1>6. Landed(buried)
  <2>1. CASE app.dead = None
    BY <1>5, <2>1
  <2>2. CASE app.dead # None
    <3>1. app.dead \in Slots /\ app.dead # entered.app.active
      BY <1>4, <1>5, <2>2 DEF Landed, Steady
    <3> QED BY <1>5, <2>2, <3>1, BuryLands
  <2> QED BY <2>1, <2>2
<1> HIDE DEF buried
<1> QED BY <1>2, <1>6, HandedSound, BecomesSound

\* The connection form takes the screen of a connection that failed.
LEMMA FormSound ==
    ASSUME NEW w, NEW s \in Slots, NEW a \in App, Sound(w), s = w.app.active,
           a.active = s, ~a.streaming, a.step = "loop", a.heir = None, a.dead = None
    PROVE  LET q == StopSlot(w, s) IN Sound([q EXCEPT !.app = a])
<1> DEFINE q == StopSlot(w, s)
           r == [q EXCEPT !.app = a]
<1>1. w \in Worlds
  BY DEF Sound
<1>2. /\ q \in Worlds /\ q.scr = w.scr /\ Elsewhere(w, q, s) /\ ~q.ses[s].rdp
      /\ SlotSound(q.ses[s], q.peer[s])
  BY <1>1, StopSlotFacts
<1> HIDE DEF q
<1>3. r \in Worlds /\ r.app = a /\ r.ses = q.ses /\ r.scr = w.scr /\ r.peer = q.peer
  BY <1>2, WithApp
<1> HIDE DEF r
<1>4. SlotsSound(r) /\ StepSound(r.app) /\ ActiveSound(r.app, r.ses[r.app.active])
  BY <1>2, <1>3 DEF Sound, SlotsSound, StepSound, ActiveSound, Elsewhere
<1>5. PictureSound(r.app, r.scr) /\ RefreshSound(r)
  BY <1>2, <1>3 DEF Sound, PictureSound, RefreshSound
<1>6. Sound(r)
  BY <1>3, <1>4, <1>5 DEF Sound
<1> QED BY <1>6 DEF r, q

\* A failed connection no longer is what the HUB waits for.
LEMMA UnhubSound ==
    ASSUME NEW w, NEW s \in Slots, Sound(w)
    PROVE  LET r == Unhub(w, s) IN
           /\ Sound(r) /\ r.ses = w.ses /\ r.scr = w.scr /\ r.peer = w.peer
           /\ Steady(w.app, r.app) /\ r.app.running = w.app.running
<1> DEFINE target == IF w.app.hubTarget = s THEN None ELSE w.app.hubTarget
           a == [w.app EXCEPT !.hubTarget = target]
           r == Unhub(w, s)
<1>1. r = [w EXCEPT !.app = a]
  BY Zenon DEF Unhub
<1>2. w.app \in App
  BY WorldParts DEF Sound
<1>3. target \in Slots \cup {None}
  BY <1>2 DEF App
<1> HIDE DEF target
<1>4. SameSwitch(w, a) /\ Steady(w.app, a) /\ a.running = w.app.running
  BY <1>2, <1>3 DEF App, SameSwitch, Steady
<1> HIDE DEF a
<1> QED BY <1>1, <1>4, AppSound

\* The form, and the loop again if it was a handoff that failed.
LEMMA ToFormSound ==
    ASSUME NEW w, NEW s \in Slots, Sound(w), s = w.app.active
    PROVE  /\ w.app.step = "loop" => Sound(ToForm(w, s))
           /\ Sound([ToForm(w, s) EXCEPT !.app = [@ EXCEPT !.step = "loop", !.heir = None,
                                                           !.dead = None]])
<1> DEFINE q == StopSlot(w, s)
           form == [w.app EXCEPT !.watch = FALSE, !.streaming = FALSE]
           a == [form EXCEPT !.step = "loop", !.heir = None, !.dead = None]
           f == [q EXCEPT !.app = form]
           m == StopMedia(f)
           r == [m EXCEPT !.app = a]
           l == [f EXCEPT !.app = a]
<1>1. w \in Worlds /\ w.app \in App
  BY WorldParts DEF Sound
<1>2. q \in Worlds /\ q.app = w.app
  BY <1>1, StopSlotFacts
<1>3. ToForm(w, s) = StopMedia([q EXCEPT !.app = [q.app EXCEPT !.watch = FALSE,
                                                               !.streaming = FALSE]])
  BY Zenon DEF ToForm
<1> HIDE DEF q
<1>4. ToForm(w, s) = m
  BY <1>2, <1>3
<1>5. /\ form \in App /\ form.active = w.app.active /\ ~form.streaming
      /\ form.step = w.app.step /\ form.heir = w.app.heir /\ form.dead = w.app.dead
  BY <1>1 DEF App
<1>6. a \in App /\ a.active = s /\ ~a.streaming /\ a.step = "loop" /\ a.heir = None
      /\ a.dead = None
  BY <1>5 DEF App
<1> HIDE DEF form
<1>7. f \in Worlds /\ f.app = form /\ f.ses = q.ses /\ f.scr = q.scr /\ f.peer = q.peer
  BY <1>2, <1>5, WithApp
<1>8. w.app.step = "loop" => Sound(f)
  BY <1>5, FormSound DEF Sound, StepSound, q
<1>9. Sound([q EXCEPT !.app = a])
  BY <1>6, FormSound DEF q
<1> HIDE DEF a
<1>10. l = [q EXCEPT !.app = a] /\ r = StopMedia(l)
  <2>1. l \in Worlds /\ l.app = a /\ l.ses = q.ses /\ l.scr = q.scr /\ l.peer = q.peer
    BY <1>6, <1>7, WithApp
  <2>2. l = [q EXCEPT !.app = a]
    BY <1>2, <1>7 DEF Worlds
  <2> DEFINE dark == [DarkScreen EXCEPT !.asked = f.scr.asked, !.refresh = f.scr.refresh]
  <2>3. m = IF AnyConnected(f) THEN f ELSE [f EXCEPT !.scr = dark]
    BY Zenon DEF StopMedia
  <2>4. StopMedia(l) = IF AnyConnected(l) THEN l
                       ELSE [l EXCEPT !.scr = [DarkScreen EXCEPT !.asked = l.scr.asked,
                                                                 !.refresh = l.scr.refresh]]
    BY Zenon DEF StopMedia
  <2>5. StopMedia(l) = IF AnyConnected(f) THEN l ELSE [l EXCEPT !.scr = dark]
    BY <1>7, <2>1, <2>4 DEF AnyConnected
  <2> HIDE DEF dark, m, f
  <2>6. r = StopMedia(l)
    BY <1>7, <2>3, <2>5 DEF Worlds
  <2> QED BY <2>2, <2>6
<1>11. w.app.step = "loop" => Sound(m)
  BY <1>8, StopMediaSound
<1>12. Sound(r)
  BY <1>9, <1>10, StopMediaSound
<1>13. [ToForm(w, s) EXCEPT !.app = [@ EXCEPT !.step = "loop", !.heir = None, !.dead = None]] = r
  <2>1. m.app = form
    BY <1>7, StopMediaFacts
  <2> HIDE DEF m
  <2> QED BY <1>4, <2>1 DEF a
<1> QED BY <1>4, <1>11, <1>12, <1>13

\* A survivor takes over, or nobody.
LEMMA HandOffSound ==
    ASSUME Sound(World), scenario \in Scenarios, HandOff
    PROVE  Sound(World)'
<1>1. app.step = "handoff"
  BY DEF HandOff
<1>2. PICK fortune \in Fortunes :
        Become(IF Accepts(World, app.heir) THEN Complete(World, app.heir, fortune)
               ELSE [ToForm(World, app.dead) EXCEPT
                       !.app = [@ EXCEPT !.step = "loop", !.heir = None, !.dead = None]])
  BY DEF HandOff
<1>3. PICK heir \in Slots, dead \in Slots :
        heir = app.heir /\ dead = app.dead /\ dead = app.active
  <2>1. app \in App
    BY Now, WorldParts DEF Sound
  <2> QED BY <1>1, <2>1, Now DEF Sound, StepSound, App
<1>4. fortune \in [Slots -> Fates]
  BY Given
<1>5. CASE Accepts(World, app.heir)
  <2>1. Sound(Complete(World, heir, fortune))
    BY <1>1, <1>4, Now, CompleteSound
  <2> QED BY <1>2, <1>3, <1>5, <2>1, BecomesSound
<1>6. CASE ~Accepts(World, app.heir)
  <2> DEFINE r == [ToForm(World, dead) EXCEPT
                       !.app = [@ EXCEPT !.step = "loop", !.heir = None, !.dead = None]]
  <2>1. Sound(r)
    BY <1>3, Now, ToFormSound
  <2>2. Become(r)
    BY <1>2, <1>3, <1>6
  <2> HIDE DEF r
  <2> QED BY <2>1, <2>2, BecomesSound
<1> QED BY <1>5, <1>6

\* The supervisor drains a failed slot: a hidden one, or the one on screen.
LEMMA DrainBackgroundSound ==
    ASSUME NEW s \in Slots, Sound(World), DrainBackground(s)
    PROVE  Sound(World)'
<1> DEFINE m == Unhub(World, s)
           q == StopSlot(m, s)
           r == StopMedia(q)
<1>1. s # app.active /\ Become(r)
  BY DEF DrainBackground
<1>2. Sound(m) /\ Steady(World.app, m.app)
  BY UnhubSound
<1> HIDE DEF m
<1>3. s # m.app.active
  BY <1>1, <1>2, Now DEF Steady
<1>4. Sound(q)
  BY <1>2, <1>3, StopSound
<1> HIDE DEF q
<1>5. Sound(r)
  BY <1>4, StopMediaSound
<1> HIDE DEF r
<1> QED BY <1>1, <1>5, BecomesSound

\* The form, a stop, or a survivor that is to take the screen.
LEMMA DrainActiveSound ==
    ASSUME Sound(World), DrainActive
    PROVE  Sound(World)'
<1>1. app \in App
  BY Now, WorldParts DEF Sound
<1>2. PICK s \in Slots : s = app.active
  BY <1>1 DEF App
<1> DEFINE w == Unhub(World, s)
<1>3. /\ app.step = "loop"
      /\ \/ Become(ToForm(w, s))
         \/ ~app.streaming /\ Become(StopMedia(StopSlot(w, s)))
         \/ \E heir \in Survivors(s) :
              app.streaming /\ Become([w EXCEPT !.app = [@ EXCEPT !.step = "handoff",
                                                                 !.heir = heir, !.dead = s]])
  BY <1>2 DEF DrainActive, Idle
<1>4. /\ Sound(w) /\ w.ses = ses /\ w.scr = scr /\ w.peer = peer /\ Steady(app, w.app)
  BY UnhubSound, Now
<1> HIDE DEF w
<1>5. w.app.active = s /\ w.app.step = "loop" /\ w.app.streaming = app.streaming
  BY <1>2, <1>3, <1>4 DEF Steady
<1>6. CASE Become(ToForm(w, s))
  <2>1. Sound(ToForm(w, s))
    BY <1>4, <1>5, ToFormSound
  <2> QED BY <1>6, <2>1, BecomesSound
<1>7. CASE ~app.streaming /\ Become(StopMedia(StopSlot(w, s)))
  <2>1. Sound(StopSlot(w, s))
    BY <1>4, <1>5, <1>7, StopSound
  <2>2. Sound(StopMedia(StopSlot(w, s)))
    BY <2>1, StopMediaSound
  <2> QED BY <1>7, <2>2, BecomesSound
<1>8. ASSUME NEW heir \in Survivors(s), app.streaming,
             Become([w EXCEPT !.app = [@ EXCEPT !.step = "handoff", !.heir = heir, !.dead = s]])
      PROVE  Sound(World)'
  <2> DEFINE a == [w.app EXCEPT !.step = "handoff", !.heir = heir, !.dead = s]
             r == [w EXCEPT !.app = a]
  <2>1. w \in Worlds /\ w.app \in App /\ heir \in Slots \ {s}
    BY <1>4, <1>8, WorldParts DEF Sound, Survivors
  <2>2. /\ a \in App /\ a.step = "handoff" /\ a.heir = heir /\ a.dead = s /\ a.active = s
        /\ a.streaming
    BY <1>5, <1>8, <2>1 DEF App
  <2>3. Become(r)
    BY <1>8
  <2> HIDE DEF a
  <2>4. r \in Worlds /\ r.app = a /\ r.ses = w.ses /\ r.scr = w.scr /\ r.peer = w.peer
    BY <2>1, <2>2, WithApp
  <2> HIDE DEF r
  <2>5. SlotsSound(r) /\ StepSound(r.app) /\ PictureSound(r.app, r.scr) /\ RefreshSound(r)
    BY <1>4, <1>5, <2>1, <2>2, <2>4 DEF Sound, SlotsSound, StepSound, PictureSound, RefreshSound
  <2>6. ActiveSound(r.app, r.ses[r.app.active])
    BY <1>4, <1>5, <1>8, <2>2, <2>4 DEF Sound, ActiveSound
  <2>7. Sound(r)
    BY <2>4, <2>5, <2>6 DEF Sound
  <2> QED BY <2>3, <2>7, BecomesSound
<1> QED BY <1>3, <1>6, <1>7, <1>8

\* The UI gives way to the stream, which is not suppressed: it is the active one.
LEMMA EnterStreamSound ==
    ASSUME Sound(World), EnterStream
    PROVE  Sound(World)'
<1> DEFINE target == IF app.hubTarget = app.active THEN None ELSE app.hubTarget
           a == [app EXCEPT !.streaming = TRUE, !.hub = FALSE, !.hubTarget = target]
           r == [World EXCEPT !.app = a]
<1>1. app \in App
  BY Now, WorldParts DEF Sound
<1>2. ses[app.active].rdp /\ app.step = "loop"
  BY DEF EnterStream, Idle
<1>3. ~ses[app.active].suppressed
  BY <1>2, Now DEF Sound, ActiveSound
<1>4. Become(r)
  <2>1. [World EXCEPT !.app = [@ EXCEPT !.streaming = TRUE, !.hub = FALSE,
                                         !.hubTarget = target]] = r
    BY Now
  <2> QED BY <1>3, <2>1 DEF EnterStream
<1>5. target \in Slots \cup {None}
  BY <1>1 DEF App
<1> HIDE DEF target
<1>6. SameSwitch(World, a)
  BY <1>1, <1>2, <1>5, Now DEF App, SameSwitch
<1> HIDE DEF a
<1>7. Sound(r)
  BY <1>6, AppSound
<1> HIDE DEF r
<1> QED BY <1>4, <1>7, BecomesSound

\* A press that is dropped, answered at last, or answered too late.
LEMMA DeferredSound ==
    ASSUME Sound(World), scenario \in Scenarios,
           DeferredGone \/ DeferredReady \/ DeferredTimedOut
    PROVE  Sound(World)'
<1>1. app \in App /\ app.step = "loop" /\ app.deferred # None
  BY Now, WorldParts DEF Sound, DeferredGone, DeferredReady, DeferredTimedOut, Idle
<1>2. PICK t \in Slots : t = app.deferred
  BY <1>1 DEF App
<1>3. CASE DeferredGone
  <2> DEFINE a == [app EXCEPT !.deferred = None]
             r == [World EXCEPT !.app = a]
  <2>1. Become(r)
    <3>1. [World EXCEPT !.app.deferred = None] = r
      BY Now
    <3> QED BY <1>3, <3>1 DEF DeferredGone
  <2>2. SameSwitch(World, a)
    BY <1>1, Now DEF App, SameSwitch
  <2> HIDE DEF a
  <2>3. Sound(r)
    BY <2>2, AppSound
  <2> HIDE DEF r
  <2> QED BY <2>1, <2>3, BecomesSound
<1>4. CASE DeferredReady \/ DeferredTimedOut
  <2>1. PICK fortune \in Fortunes : Become(SwitchAnyway(World, t, fortune))
    BY <1>2, <1>4 DEF DeferredReady, DeferredTimedOut
  <2>2. fortune \in [Slots -> Fates]
    BY Given
  <2>3. Sound(SwitchAnyway(World, t, fortune))
    BY <1>1, <2>2, Now, SwitchAnywaySound
  <2> QED BY <2>1, <2>3, BecomesSound
<1> QED BY <1>3, <1>4

\* The watchdog starts, or starts over.
LEMMA StartWatchSound ==
    ASSUME NEW w, Sound(w)
    PROVE  Sound(StartWatch(w))
<1> DEFINE a == [w.app EXCEPT !.watch = TRUE, !.reconnected = FALSE]
<1>1. StartWatch(w) = [w EXCEPT !.app = a]
  BY Zenon DEF StartWatch
<1>2. w.app \in App
  BY WorldParts DEF Sound
<1>3. SameSwitch(w, a)
  BY <1>2 DEF App, SameSwitch
<1> HIDE DEF a
<1> QED BY <1>1, <1>3, AppSound

\* A keyframe request a worker left is passed on, if there is somebody to ask.
LEMMA RefreshWantedSound ==
    ASSUME Sound(World), RefreshWanted
    PROVE  Sound(World)'
<1> DEFINE calm == [scr EXCEPT !.refresh = FALSE]
           w == [World EXCEPT !.scr = calm]
           b == [app EXCEPT !.progress = FALSE]
           m == [w EXCEPT !.app = b]
           q == Refresh(m, app.active)
           r == StartWatch(q)
<1>1. World \in Worlds /\ app \in App /\ scr \in Screen
  BY Now, WorldParts DEF Sound
<1>2. PICK s \in Slots : s = app.active
  BY <1>1 DEF App
<1>3. calm \in Screen /\ Dimmer(scr, calm)
  BY <1>1 DEF Screen, Dimmer
<1>4. Become(r) \/ Become(w)
  <2>1. [World EXCEPT !.scr.refresh = FALSE] = w
    BY Now
  <2>2. w.app = app
    BY <1>1, Now DEF Worlds
  <2>3. [w EXCEPT !.app.progress = FALSE] = m
    BY <2>2
  <2> QED BY <2>1, <2>3 DEF RefreshWanted
<1> HIDE DEF calm
<1>5. w \in Worlds /\ w.app = app /\ w.ses = ses /\ w.scr = calm /\ w.peer = peer
  BY <1>1, <1>3, Now, WithScreen
<1> HIDE DEF w
<1>6. Noted(World, w, s)
  BY <1>2, <1>3, <1>5, Now DEF Noted, Elsewhere, Sound, SlotsSound, SlotSound
<1>7. Sound(w)
  BY <1>6, NotedSound
<1>8. SameSwitch(w, b)
  BY <1>1, <1>5 DEF App, SameSwitch
<1> HIDE DEF b
<1>9. Sound(m) /\ m.ses = ses
  BY <1>5, <1>7, <1>8, AppSound
<1> HIDE DEF m
<1>10. /\ q \in Worlds /\ q.app = m.app /\ q.scr = m.scr /\ q.ses = m.ses
       /\ q.peer[s].want = m.peer[s].want /\ Elsewhere(m, q, s)
  <2>1. m \in Worlds /\ q = Refresh(m, s)
    BY <1>2, <1>9 DEF Sound
  <2> HIDE DEF q
  <2> QED BY <2>1, RefreshFacts
<1> HIDE DEF q
<1>11. Noted(m, q, s)
  BY <1>9, <1>10 DEF Noted, Sound, SlotsSound, SlotSound, Dimmer
<1>12. Sound(q)
  BY <1>9, <1>11, NotedSound
<1>13. Sound(r)
  BY <1>12, StartWatchSound
<1> HIDE DEF r
<1> QED BY <1>4, <1>7, <1>13, BecomesSound

\* The watchdog is satisfied, or reconnects the stream on screen once.
LEMMA WatchSound ==
    ASSUME Sound(World), scenario \in Scenarios, WatchSatisfied \/ WatchExpired
    PROVE  Sound(World)'
<1> DEFINE done == [app EXCEPT !.watch = FALSE]
           r == [World EXCEPT !.app = done]
<1>1. World \in Worlds /\ app \in App /\ app.step = "loop"
  BY Now, WorldParts DEF Sound, WatchSatisfied, WatchExpired, Idle
<1>2. PICK s \in Slots : s = app.active
  BY <1>1 DEF App
<1>3. [World EXCEPT !.app.watch = FALSE] = r
  BY Now
<1>4. SameSwitch(World, done)
  BY <1>1, Now DEF App, SameSwitch
<1> HIDE DEF done
<1>5. Sound(r)
  BY <1>4, AppSound
<1> HIDE DEF r
<1>6. CASE Become(r)
  BY <1>5, <1>6, BecomesSound
<1>7. ASSUME NEW fate \in scenario.fates, ses[s].rdp,
             Become(Reconnect([World EXCEPT !.ses[s].deaf = TRUE,
                                 !.app = [@ EXCEPT !.progress = FALSE, !.reconnected = TRUE]],
                              s, FALSE, fate))
      PROVE  Sound(World)'
  <2> DEFINE a == [app EXCEPT !.progress = FALSE, !.reconnected = TRUE]
             m == [World EXCEPT !.app = a]
             slot == [m.ses[s] EXCEPT !.deaf = TRUE]
             l == [m EXCEPT !.ses[s] = slot]
             q == Reconnect(l, s, FALSE, fate)
  <2>1. a \in App /\ Steady(app, a)
    BY <1>1 DEF App, Steady
  <2>2. m.ses = ses
    BY <1>1, Now DEF Worlds
  <2>3. [World EXCEPT !.ses[s].deaf = TRUE,
                      !.app = [@ EXCEPT !.progress = FALSE, !.reconnected = TRUE]] = l
    <3>1. [World EXCEPT !.ses[s].deaf = TRUE,
                        !.app = [@ EXCEPT !.progress = FALSE, !.reconnected = TRUE]]
            = [World EXCEPT !.ses = [ses EXCEPT ![s] = [ses[s] EXCEPT !.deaf = TRUE]],
                            !.app = a]
      BY Now
    <3>2. l = [m EXCEPT !.ses = [ses EXCEPT ![s] = [ses[s] EXCEPT !.deaf = TRUE]]]
      BY <2>2
    <3> QED BY <1>1, <3>1, <3>2 DEF Worlds
  <2>4. Become(q)
    BY <1>7, <2>3
  <2> HIDE DEF a
  <2>5. m \in Worlds /\ m.app = a /\ m.ses = ses /\ m.scr = scr /\ m.peer = peer
    BY <1>1, <2>1, Now, WithApp
  <2> HIDE DEF m
  <2>6. slot \in Slot
    <3>1. m.ses[s] \in Slot
      BY <2>5, WorldParts
    <3> QED BY <3>1 DEF Slot
  <2> HIDE DEF slot
  <2>7. l \in Worlds /\ l.app = a /\ l.scr = scr /\ Elsewhere(World, l, s)
    BY <2>5, <2>6, Now, WithSlot DEF Elsewhere
  <2> HIDE DEF l
  <2>8. fate \in Fates
    BY Given
  <2>9. /\ q \in Worlds /\ q.app = a /\ Elsewhere(l, q, s) /\ Dimmer(scr, q.scr)
        /\ q.peer[s] = NoPeer /\ Empty(q.ses[s], FALSE)
        /\ q.ses[s].rdp \/ q.ses[s].failed
    BY <2>7, <2>8, ReconnectShown
  <2> HIDE DEF q
  <2>10. SlotSound(q.ses[s], q.peer[s]) /\ ActiveSound(q.app, q.ses[s])
    BY <1>1, <2>1, <2>9
    DEF SlotSound, CacheSound, Empty, NoPeer, ActiveSound, Steady
  <2>11. Steady(World.app, q.app) /\ Elsewhere(World, q, s) /\ Dimmer(World.scr, q.scr)
    BY <2>1, <2>7, <2>9, Now DEF Elsewhere
  <2>12. Sound(q)
    BY <1>1, <1>7, <2>9, <2>10, <2>11, Now, SlotChange
  <2> QED BY <2>4, <2>12, BecomesSound
<1>8. CASE WatchSatisfied
  BY <1>3, <1>6, <1>8 DEF WatchSatisfied
<1>9. CASE WatchExpired
  <2>1. PICK fate \in scenario.fates :
          Become(IF ~app.reconnected /\ ses[s].rdp
                 THEN Reconnect([World EXCEPT !.ses[s].deaf = TRUE,
                                   !.app = [@ EXCEPT !.progress = FALSE, !.reconnected = TRUE]],
                                s, FALSE, fate)
                 ELSE r)
    BY <1>2, <1>3, <1>9 DEF WatchExpired
  <2> QED BY <1>6, <1>7, <2>1
<1> QED BY <1>8, <1>9

\* A hidden stream is silenced once its cache has a seed, or has been voided.
LEMMA SilencingSound ==
    ASSUME NEW s \in Slots, Sound(World), scenario \in Scenarios, SeedCached(s) \/ CacheVoided(s)
    PROVE  Sound(World)'
<1> DEFINE q == Silenced(World, s)
<1>1. app.step = "loop" /\ s # app.active
  BY DEF SeedCached, CacheVoided, Idle, Waiting
<1>2. Sound(q) /\ q.app = app
  BY <1>1, Now, SilencedSound
<1> HIDE DEF q
<1>3. CASE Become(q)
  BY <1>2, <1>3, BecomesSound
<1>4. ASSUME NEW fortune \in Fortunes, Become(SwitchAnyway(q, s, fortune))
      PROVE  Sound(World)'
  <2>1. fortune \in [Slots -> Fates]
    BY Given
  <2>2. Sound(SwitchAnyway(q, s, fortune))
    BY <1>1, <1>2, <2>1, SwitchAnywaySound
  <2> QED BY <1>4, <2>2, BecomesSound
<1> QED BY <1>3, <1>4 DEF SeedCached, CacheVoided, q

\* A hidden stream without a seed is reconnected once, or given up.
LEMMA SeedOverdueSound ==
    ASSUME NEW s \in Slots, Sound(World), scenario \in Scenarios, SeedOverdue(s)
    PROVE  Sound(World)'
<1> DEFINE taught == [ses[s] EXCEPT !.deaf = TRUE, !.pending = FALSE]
           learned == [World EXCEPT !.ses[s] = taught]
           void == [ses[s] EXCEPT !.cache = NoCache]
           voided == [World EXCEPT !.ses[s] = void]
           bare == Silenced(voided, s)
<1>1. /\ app.step = "loop" /\ s # app.active /\ ses[s].pending /\ ses[s].rdp
      /\ World \in Worlds /\ ses[s] \in Slot
  BY Now, WorldParts DEF Sound, SeedOverdue, Idle, Waiting
<1>2. PICK fortune \in Fortunes :
        \/ Become(Prepare(learned, s, fortune))
        \/ Become(SwitchAnyway(bare, s, fortune))
        \/ Become(bare)
  <2>1. [World EXCEPT !.ses[s] = [@ EXCEPT !.deaf = TRUE, !.pending = FALSE]] = learned
    BY Now
  <2>2. [World EXCEPT !.ses[s].cache = NoCache] = voided
    BY Now
  <2> HIDE DEF learned, voided
  <2> QED BY <2>1, <2>2 DEF SeedOverdue
<1>3. fortune \in [Slots -> Fates]
  BY Given
<1>4. taught \in Slot /\ taught.deaf /\ ~taught.pending
  BY <1>1 DEF Slot
<1>5. /\ void \in Slot /\ void.cache = NoCache /\ void.rdp = ses[s].rdp
      /\ void.state = ses[s].state /\ void.suppressed = ses[s].suppressed
      /\ void.pending = ses[s].pending /\ void.failed = ses[s].failed
  BY <1>1, CacheTypes DEF Slot
<1> HIDE DEF taught, void
<1>6. CASE Become(Prepare(learned, s, fortune))
  <2>1. /\ learned \in Worlds /\ learned.app = app /\ learned.scr = scr
        /\ Elsewhere(World, learned, s) /\ learned.ses[s] = taught
    BY <1>1, <1>4, Now, WithSlot DEF Elsewhere
  <2> HIDE DEF learned
  <2>2. Sound(Prepare(learned, s, fortune))
    BY <1>1, <1>3, <1>4, <2>1, Now, PrepareSound
  <2> QED BY <1>6, <2>2, BecomesSound
<1>7. Sound(voided) /\ voided.app = app
  <2>1. /\ voided \in Worlds /\ voided.app = app /\ voided.scr = scr /\ voided.peer = peer
        /\ voided.ses[s] = void /\ \A x \in Slots \ {s} : voided.ses[x] = ses[x]
    BY <1>1, <1>5, Now, WithSlot
  <2> HIDE DEF voided
  <2>2. SlotSound(ses[s], peer[s])
    BY Now DEF Sound, SlotsSound
  <2>3. SlotSound(voided.ses[s], voided.peer[s])
    BY <1>5, <2>1, <2>2, CacheTypes DEF SlotSound, CacheSound
  <2>4. Elsewhere(World, voided, s) /\ Dimmer(World.scr, voided.scr)
    BY <2>1, Now DEF Elsewhere, Dimmer
  <2> QED BY <1>1, <2>1, <2>3, <2>4, Now, HiddenChange
<1> HIDE DEF voided
<1>8. Sound(bare) /\ bare.app = app
  BY <1>1, <1>7, SilencedSound
<1> HIDE DEF bare
<1>9. CASE Become(bare)
  BY <1>8, <1>9, BecomesSound
<1>10. CASE Become(SwitchAnyway(bare, s, fortune))
  <2>1. Sound(SwitchAnyway(bare, s, fortune))
    BY <1>1, <1>3, <1>8, SwitchAnywaySound
  <2> QED BY <1>10, <2>1, BecomesSound
<1> QED BY <1>2, <1>6, <1>9, <1>10

\* The HUB is opened over the stream, or a press on the active slot drops another one.
LEMMA HubSound ==
    ASSUME Sound(World), ShowHub \/ \E t \in Slots : CancelDeferred(t)
    PROVE  Sound(World)'
<1> DEFINE a == [app EXCEPT !.deferred = None, !.streaming = FALSE, !.hub = TRUE,
                            !.hubTarget = None]
           b == [app EXCEPT !.deferred = None]
<1>1. app \in App /\ app.step = "loop"
  BY Now, WorldParts DEF Sound, ShowHub, CancelDeferred, Idle
<1>2. SameSwitch(World, a) /\ SameSwitch(World, b)
  BY <1>1, Now DEF App, SameSwitch
<1>3. Become([World EXCEPT !.app = a]) \/ Become([World EXCEPT !.app = b])
  <2>1. /\ [World EXCEPT !.app = [@ EXCEPT !.deferred = None, !.streaming = FALSE, !.hub = TRUE,
                                           !.hubTarget = None]] = [World EXCEPT !.app = a]
        /\ [World EXCEPT !.app.deferred = None] = [World EXCEPT !.app = b]
    BY Now
  <2> QED BY <2>1 DEF ShowHub, CancelDeferred
<1> HIDE DEF a, b
<1>4. Sound([World EXCEPT !.app = a]) /\ Sound([World EXCEPT !.app = b])
  BY <1>2, AppSound
<1> QED BY <1>3, <1>4, BecomesSound

\* A press on a live slot: at once, when its stream is ready, or when it will be.
LEMMA SwitchToSound ==
    ASSUME NEW t \in Slots, Sound(World), scenario \in Scenarios, SwitchTo(t)
    PROVE  Sound(World)'
<1> DEFINE a == [app EXCEPT !.hub = FALSE, !.hubTarget = None]
           w == [World EXCEPT !.app = a]
           b == [w.app EXCEPT !.deferred = t]
           m == [w EXCEPT !.app = b]
           slot == [m.ses[t] EXCEPT !.retried = FALSE]
           set == [m EXCEPT !.ses[t] = slot]
<1>1. World \in Worlds /\ app \in App /\ app.step = "loop" /\ LiveTarget(World, t)
  BY Now, WorldParts DEF Sound, SwitchTo, Idle
<1>2. PICK quiet \in BOOLEAN, fortune \in Fortunes :
        \/ Become(w)
        \/ Become(SwitchAnyway(w, t, fortune))
        \/ ~ReadyNow(t, quiet) /\ Become(Defer(w, t, fortune))
  <2>1. [World EXCEPT !.app = [@ EXCEPT !.hub = FALSE, !.hubTarget = None]] = w
    BY Now
  <2> HIDE DEF w
  <2> QED BY <2>1 DEF SwitchTo
<1>3. fortune \in [Slots -> Fates]
  BY Given
<1>4. SameSwitch(World, a) /\ a.step = "loop" /\ a \in App
  BY <1>1, Now DEF App, SameSwitch
<1> HIDE DEF a
<1>5. Sound(w) /\ w.app = a /\ w.ses = ses
  BY <1>4, Now, AppSound
<1> HIDE DEF w
<1>6. CASE Become(w)
  BY <1>5, <1>6, BecomesSound
<1>7. CASE Become(SwitchAnyway(w, t, fortune))
  <2>1. Sound(SwitchAnyway(w, t, fortune))
    BY <1>3, <1>4, <1>5, SwitchAnywaySound
  <2> QED BY <1>7, <2>1, BecomesSound
<1>8. CASE ~ReadyNow(t, quiet) /\ Become(Defer(w, t, fortune))
  <2>1. t # app.active
    BY <1>1, <1>8, Now DEF Sound, ActiveSound, LiveTarget, ReadyNow
  <2>2. Become(set) \/ Become(Prepare(set, t, fortune))
    <3>1. w \in Worlds
      BY <1>5 DEF Sound
    <3>2. m.ses = w.ses
      BY <3>1 DEF Worlds
    <3>3. [w EXCEPT !.app.deferred = t, !.ses[t].retried = FALSE] = set
      <4>1. [w EXCEPT !.app.deferred = t, !.ses[t].retried = FALSE]
             = [w EXCEPT !.app = b, !.ses = [w.ses EXCEPT ![t] = slot]]
        BY <3>2
      <4>2. set = [m EXCEPT !.ses = [w.ses EXCEPT ![t] = slot]]
        BY <3>2
      <4> HIDE DEF b, slot
      <4> QED BY <3>1, <4>1, <4>2 DEF Worlds
    <3> HIDE DEF set
    <3> QED BY <1>8, <3>3 DEF Defer
  <2>3. SameSwitch(w, b) /\ b.active = app.active /\ b.step = "loop"
    BY <1>4, <1>5, Now DEF App, SameSwitch
  <2> HIDE DEF b
  <2>4. Sound(m) /\ m.app = b /\ m.ses = ses
    BY <1>5, <2>3, AppSound
  <2> HIDE DEF m
  <2>5. m \in Worlds /\ m.ses[t] \in Slot
    BY <2>4, WorldParts DEF Sound
  <2>6. /\ slot \in Slot /\ slot.rdp = m.ses[t].rdp /\ slot.suppressed = m.ses[t].suppressed
        /\ slot.pending = m.ses[t].pending /\ slot.cache = m.ses[t].cache
        /\ slot.failed = m.ses[t].failed /\ slot.state = m.ses[t].state
    BY <2>5 DEF Slot
  <2> HIDE DEF slot
  <2>7. /\ set \in Worlds /\ set.app = b /\ set.scr = m.scr /\ set.peer = m.peer
        /\ set.ses[t] = slot /\ \A x \in Slots \ {t} : set.ses[x] = m.ses[x]
    BY <2>4, <2>5, <2>6, WithSlot
  <2> HIDE DEF set
  <2>8. Noted(m, set, t)
    BY <2>4, <2>6, <2>7 DEF Noted, Elsewhere, Dimmer, Sound, SlotsSound, SlotSound
  <2>9. Sound(set)
    BY <2>4, <2>8, NotedSound
  <2>10. CASE Become(set)
    BY <2>9, <2>10, BecomesSound
  <2>11. CASE Become(Prepare(set, t, fortune))
    <3>1. Elsewhere(set, set, t) /\ SlotSound(set.ses[t], set.peer[t])
      BY <2>9 DEF Elsewhere, Sound, SlotsSound
    <3>2. t # set.app.active /\ set.app.step = "loop"
      BY <2>1, <2>3, <2>7
    <3>3. Sound(Prepare(set, t, fortune))
      BY <1>3, <2>7, <2>9, <3>1, <3>2, PrepareSound
    <3> QED BY <2>11, <3>3, BecomesSound
  <2> QED BY <2>2, <2>10, <2>11
<1> QED BY <1>2, <1>6, <1>7, <1>8

\* The configurator of a slot without a session: whoever had the screen is hidden.
LEMMA ShowConfiguratorSound ==
    ASSUME NEW t \in Slots, Sound(World), scenario \in Scenarios, ShowConfigurator(t)
    PROVE  Sound(World)'
<1> DEFINE old == app.active
           a == [app EXCEPT !.deferred = None, !.hubTarget = None, !.streaming = FALSE]
           w == [World EXCEPT !.app = a]
           bare == CloseRgba(w)
           b == [bare.app EXCEPT !.active = t, !.watch = FALSE]
           moved == [bare EXCEPT !.app = b]
<1>1. /\ World \in Worlds /\ app \in App /\ app.step = "loop" /\ ~ses[t].rdp
      /\ old \in Slots
  BY Now, WorldParts DEF Sound, ShowConfigurator, Idle, App
<1>2. PICK fortune \in Fortunes :
        \/ Become(w)
        \/ old # t /\ Become(Background(moved, old, fortune[old]))
  <2>1. [World EXCEPT !.app = [@ EXCEPT !.deferred = None, !.hubTarget = None,
                                         !.streaming = FALSE]] = w
    BY Now
  <2> HIDE DEF w
  <2> QED BY <2>1 DEF ShowConfigurator
<1>3. fortune[old] \in Fates
  BY <1>1, Given
<1>4. /\ SameSwitch(World, a) /\ a \in App /\ ~a.streaming /\ a.step = "loop"
      /\ a.heir = None /\ a.dead = None /\ a.active = old
  BY <1>1, Now DEF App, SameSwitch, Sound, StepSound
<1> HIDE DEF a
<1>5. Sound(w) /\ w.app = a /\ w.ses = ses /\ w.scr = scr /\ w.peer = peer
  BY <1>4, Now, AppSound
<1> HIDE DEF w
<1>6. w \in Worlds
  BY <1>5 DEF Sound
<1>7. /\ Received(w, bare, t) /\ bare.app = a /\ bare.ses = ses /\ bare.scr.rgba = None
  BY <1>5, <1>6, CloseRgbaFacts
<1> HIDE DEF bare
<1>8. bare \in Worlds /\ bare.peer = peer
  BY <1>5, <1>7 DEF Received
<1>9. /\ b \in App /\ b.active = t /\ ~b.streaming /\ b.step = "loop"
      /\ b.heir = None /\ b.dead = None
  BY <1>4, <1>7 DEF App
<1> HIDE DEF b
<1>10. /\ moved \in Worlds /\ moved.app = b /\ moved.ses = ses /\ moved.scr = bare.scr
       /\ moved.peer = peer
  BY <1>7, <1>8, <1>9, WithApp
<1> HIDE DEF moved
<1>11. Sound(moved)
  <2>1. SlotsSound(moved) /\ StepSound(moved.app)
    BY <1>9, <1>10, Now DEF Sound, SlotsSound, StepSound
  <2>2. ActiveSound(moved.app, moved.ses[moved.app.active])
    BY <1>1, <1>9, <1>10 DEF ActiveSound
  <2>3. PictureSound(moved.app, moved.scr) /\ RefreshSound(moved)
    BY <1>1, <1>7, <1>9, <1>10 DEF PictureSound, RefreshSound
  <2> QED BY <1>10, <2>1, <2>2, <2>3 DEF Sound
<1>12. CASE Become(w)
  BY <1>5, <1>12, BecomesSound
<1>13. CASE old # t /\ Become(Background(moved, old, fortune[old]))
  <2>1. PICK o \in Slots, fate \in Fates : o = old /\ fate = fortune[old]
    BY <1>1, <1>3
  <2>2. Hideable(moved.ses[o])
    BY <1>1, <1>10, <2>1, Now, ActiveHideable
  <2>3. Sound(Background(moved, o, fate))
    BY <1>9, <1>10, <1>11, <1>13, <2>1, <2>2, BackgroundSound
  <2> QED BY <1>13, <2>1, <2>3, BecomesSound
<1> QED BY <1>2, <1>12, <1>13

\* An edited or deleted profile stops its slot.
LEMMA ProfileChangedSound ==
    ASSUME NEW t \in Slots, Sound(World), ProfileChanged(t)
    PROVE  Sound(World)'
<1> DEFINE q == StopSlot(World, t)
<1>1. ~app.streaming /\ app.step = "loop"
  BY DEF ProfileChanged, Idle
<1>2. Sound(q)
  BY <1>1, Now, StopSound
<1> HIDE DEF q
<1>3. q \in Worlds /\ q.ses[t] \in Slot
  BY <1>2, WorldParts DEF Sound
<1>4. PICK newEndpoint \in BOOLEAN :
        Become(StopMedia([q EXCEPT !.ses[t].deaf = @ /\ ~newEndpoint]))
  BY DEF ProfileChanged, q
<1> DEFINE deaf == q.ses[t].deaf /\ ~newEndpoint
           slot == [q.ses[t] EXCEPT !.deaf = deaf]
           m == [q EXCEPT !.ses[t] = slot]
<1>5. [q EXCEPT !.ses[t].deaf = @ /\ ~newEndpoint] = m
  BY Zenon
<1>6. deaf \in BOOLEAN
  BY <1>3 DEF Slot
<1> HIDE DEF deaf
<1>7. /\ slot \in Slot /\ slot.rdp = q.ses[t].rdp /\ slot.suppressed = q.ses[t].suppressed
      /\ slot.pending = q.ses[t].pending /\ slot.cache = q.ses[t].cache
      /\ slot.failed = q.ses[t].failed /\ slot.state = q.ses[t].state
  BY <1>3, <1>6 DEF Slot
<1> HIDE DEF slot
<1>8. /\ m \in Worlds /\ m.app = q.app /\ m.scr = q.scr /\ m.peer = q.peer
      /\ m.ses[t] = slot /\ \A x \in Slots \ {t} : m.ses[x] = q.ses[x]
  BY <1>3, <1>7, WithSlot
<1> HIDE DEF m
<1>9. Noted(q, m, t)
  BY <1>2, <1>7, <1>8 DEF Noted, Elsewhere, Dimmer, Sound, SlotsSound, SlotSound
<1>10. Sound(m)
  BY <1>2, <1>9, NotedSound
<1>11. Sound(StopMedia(m))
  BY <1>10, StopMediaSound
<1> QED BY <1>4, <1>5, <1>11, BecomesSound

\* A new camera mode reconnects a session, hidden if it is not the active one.
LEMMA CameraModeChangedSound ==
    ASSUME NEW t \in Slots, Sound(World), scenario \in Scenarios, CameraModeChanged(t)
    PROVE  Sound(World)'
<1>1. ~app.streaming /\ app.step = "loop" /\ ses[t].rdp /\ World \in Worlds
  BY DEF CameraModeChanged, Idle, Sound
<1>2. PICK fate \in scenario.fates :
        LET back == t # app.active
            again == Reconnect(World, t, back, fate)
        IN  Become(IF fate.starts /\ back THEN AwaitSeed(again, t) ELSE again)
  BY DEF CameraModeChanged
<1>3. fate \in Fates
  BY Given
<1>4. CASE t = app.active
  <2> DEFINE q == Reconnect(World, t, FALSE, fate)
  <2>1. Become(q)
    <3>1. (t # app.active) = FALSE
      BY <1>4
    <3> QED BY <1>2, <3>1
  <2>2. /\ q \in Worlds /\ q.app = app /\ Elsewhere(World, q, t) /\ Dimmer(scr, q.scr)
        /\ q.peer[t] = NoPeer /\ Empty(q.ses[t], FALSE)
        /\ q.ses[t].rdp \/ q.ses[t].failed
    BY <1>1, <1>3, Now, ReconnectShown
  <2> HIDE DEF q
  <2>3. SlotSound(q.ses[t], q.peer[t]) /\ ActiveSound(q.app, q.ses[t])
    BY <1>1, <2>2 DEF SlotSound, CacheSound, Empty, NoPeer, ActiveSound
  <2>4. Steady(World.app, q.app)
    BY <2>2, Now DEF Steady
  <2>5. Sound(q)
    BY <1>1, <2>2, <2>3, <2>4, Now, SlotChange
  <2> QED BY <2>1, <2>5, BecomesSound
<1>5. CASE t # app.active
  <2> DEFINE q == Reconnect(World, t, TRUE, fate)
  <2>1. Become(IF fate.starts THEN AwaitSeed(q, t) ELSE q)
    <3>1. (t # app.active) = TRUE
      BY <1>5
    <3> QED BY <1>2, <3>1
  <2>2. /\ q \in Worlds /\ q.app = app /\ Elsewhere(World, q, t) /\ Dimmer(scr, q.scr)
        /\ q.peer[t] = NoPeer /\ Empty(q.ses[t], TRUE)
        /\ (q.ses[t].rdp <=> fate.starts)
    BY <1>1, <1>3, Now, ReconnectHidden
  <2> HIDE DEF q
  <2>3. CASE ~fate.starts
    <3>1. q.ses[t] \in Slot
      BY <2>2, WorldParts
    <3>2. SlotSound(q.ses[t], q.peer[t])
      BY <2>2, <2>3, <3>1, EmptySound
    <3>3. Sound(q)
      BY <1>5, <2>2, <3>2, Now, HiddenChange
    <3> QED BY <2>1, <2>3, <3>3, BecomesSound
  <2>4. CASE fate.starts
    <3> DEFINE r == AwaitSeed(q, t)
    <3>1. /\ r \in Worlds /\ r.app = q.app /\ r.scr = q.scr /\ Elsewhere(q, r, t)
          /\ SlotSound(r.ses[t], r.peer[t])
      BY <2>2, <2>4, AwaitSeedFacts
    <3>2. Become(r)
      BY <2>1, <2>4
    <3> HIDE DEF r
    <3>3. Elsewhere(World, r, t)
      BY <2>2, <3>1 DEF Elsewhere
    <3>4. Sound(r)
      BY <1>5, <2>2, <3>1, <3>3, Now, HiddenChange
    <3> QED BY <3>2, <3>4, BecomesSound
  <2> QED BY <2>3, <2>4
<1> QED BY <1>4, <1>5

\* The world in which slot t is to be connected: its old connection is stopped, nothing is
\* on screen, and whoever had the screen is still to be hidden.
Cleared(w, r, t) ==
    /\ r \in Worlds /\ r.app.active = t /\ ~r.app.streaming /\ r.app.step = "loop"
    /\ r.app.heir = None /\ r.app.dead = None /\ r.scr.rgba = None /\ ~r.scr.refresh
    /\ \A x \in Slots \ {t} : r.ses[x] = w.ses[x]
    /\ \A x \in Slots \ {t, w.app.active} : r.peer[x] = w.peer[x]

\* Whoever had the screen is hidden, unless it is the slot to be connected.
Demoted(w, m, d, t, g) ==
    d = IF w.app.active = t THEN m ELSE Background(m, w.app.active, g)

\* A connection that is made there leaves a sound world.
LEMMA ConnectSound ==
    ASSUME NEW w, NEW m, NEW d, NEW t \in Slots, NEW f \in Fates, NEW g \in Fates,
           NEW arm \in BOOLEAN, ~arm,
           Sound(w), w.app.step # "resume", Cleared(w, m, t), Demoted(w, m, d, t, g)
    PROVE  LET r == Connect(d, t, arm, f) IN Sound(r) /\ r.app = m.app
<1> DEFINE r == Connect(d, t, arm, f)
<1>0. PICK old \in Slots : old = w.app.active
  BY WorldParts DEF Sound, App
<1>1. m \in Worlds /\ m.scr \in Screen
  BY WorldParts DEF Cleared
<1>2. /\ d \in Worlds /\ d.app = m.app /\ Dimmer(m.scr, d.scr)
      /\ \A x \in Slots \ {t} : SlotSound(d.ses[x], d.peer[x])
  <2>1. CASE old = t
    BY <1>0, <1>1, <2>1 DEF Sound, SlotsSound, Cleared, Demoted, Dimmer
  <2>2. CASE old # t
    <3> DEFINE q == Background(m, old, g)
    <3>1. Hideable(m.ses[old])
      BY <1>0, <2>2, ActiveHideable DEF Cleared
    <3>2. /\ q \in Worlds /\ q.app = m.app /\ Elsewhere(m, q, old) /\ Dimmer(m.scr, q.scr)
          /\ SlotSound(q.ses[old], q.peer[old])
      BY <1>1, <3>1, BackgroundFacts
    <3> HIDE DEF q
    <3>3. \A x \in Slots \ {t} : SlotSound(q.ses[x], q.peer[x])
      BY <1>0, <3>2 DEF Sound, SlotsSound, Cleared, Elsewhere
    <3>4. d = q
      BY <1>0, <2>2 DEF q, Demoted
    <3> QED BY <3>2, <3>3, <3>4
  <2> QED BY <2>1, <2>2
<1>3. /\ r \in Worlds /\ r.app = d.app /\ Elsewhere(d, r, t) /\ Dimmer(d.scr, r.scr)
      /\ r.peer[t] = NoPeer /\ Empty(r.ses[t], FALSE)
  <2>1. Empty(r.ses[t], arm)
    BY <1>2, ConnectFacts
  <2> QED BY <1>2, <2>1, ConnectFacts DEF Empty
<1> HIDE DEF r
<1>4. SlotSound(r.ses[t], r.peer[t])
  BY <1>3 DEF SlotSound, CacheSound, Empty, NoPeer
<1>5. SlotsSound(r)
  BY <1>2, <1>3, <1>4 DEF SlotsSound, Elsewhere
<1>6. StepSound(r.app) /\ ActiveSound(r.app, r.ses[r.app.active])
  BY <1>2, <1>3 DEF Cleared, StepSound, ActiveSound, Empty
<1>7. r.scr.rgba = None /\ ~r.scr.refresh
  BY <1>2, <1>3 DEF Cleared, Dimmer
<1>8. Sound(r)
  BY <1>3, <1>5, <1>6, <1>7 DEF Sound, PictureSound, RefreshSound
<1> QED BY <1>2, <1>3, <1>8 DEF r

\* The user connects a profile.
LEMMA UserConnectSound ==
    ASSUME NEW t \in Slots, Sound(World), scenario \in Scenarios, UserConnect(t)
    PROVE  Sound(World)'
<1>1. /\ World \in Worlds /\ app \in App /\ app.step = "loop" /\ ~app.streaming
      /\ app.heir = None /\ app.dead = None
  BY Now, WorldParts DEF Sound, StepSound, UserConnect, Idle
<1> DEFINE old == app.active
<1>2. old = app.active /\ old \in Slots
  BY <1>1 DEF App
<1>3. PICK fortune \in Fortunes, newEndpoint \in BOOLEAN :
        LET stopped == StopSlot(World, t)
            forgot == [stopped EXCEPT !.ses[t].deaf = @ /\ ~newEndpoint]
            asked == IF old # t /\ forgot.ses[old].rdp /\ ~forgot.ses[old].suppressed
                     THEN [forgot EXCEPT !.peer[old].want = FALSE] ELSE forgot
            target == IF app.hub THEN t ELSE None
            moved == [CloseRgba(asked) EXCEPT !.app = [@ EXCEPT !.deferred = None, !.watch = FALSE,
                                                                !.active = t, !.hubTarget = target],
                                              !.scr.refresh = FALSE]
            demoted == IF old = t THEN moved ELSE Background(moved, old, fortune[old])
            connected == Connect(demoted, t, FALSE, fortune[t])
        IN  Become(IF fortune[t].starts THEN connected
                   ELSE StopMedia([connected EXCEPT !.app.hubTarget = None]))
  BY Zenon DEF UserConnect
<1> DEFINE stopped == StopSlot(World, t)
           deaf == stopped.ses[t].deaf /\ ~newEndpoint
           slot == [stopped.ses[t] EXCEPT !.deaf = deaf]
           forgot == [stopped EXCEPT !.ses[t] = slot]
           far == [forgot.peer[old] EXCEPT !.want = FALSE]
           asked == IF old # t /\ forgot.ses[old].rdp /\ ~forgot.ses[old].suppressed
                    THEN [forgot EXCEPT !.peer[old] = far] ELSE forgot
           target == IF app.hub THEN t ELSE None
           bare == CloseRgba(asked)
           a == [bare.app EXCEPT !.deferred = None, !.watch = FALSE, !.active = t,
                                 !.hubTarget = target]
           m == [bare EXCEPT !.app = a]
           calm == [m.scr EXCEPT !.refresh = FALSE]
           moved == [m EXCEPT !.scr = calm]
           demoted == IF old = t THEN moved ELSE Background(moved, old, fortune[old])
           connected == Connect(demoted, t, FALSE, fortune[t])
<1>4. \/ Become(connected)
      \/ Become(StopMedia([connected EXCEPT !.app.hubTarget = None]))
  <2>1. [stopped EXCEPT !.ses[t].deaf = @ /\ ~newEndpoint] = forgot
    BY Zenon
  <2>2. [forgot EXCEPT !.peer[old].want = FALSE] = [forgot EXCEPT !.peer[old] = far]
    BY Zenon
  <2>3. [bare EXCEPT !.app = [@ EXCEPT !.deferred = None, !.watch = FALSE,
                                       !.active = t, !.hubTarget = target],
                     !.scr.refresh = FALSE] = moved
    BY Zenon
  <2> QED BY <1>3, <2>1, <2>2, <2>3, Zenon
<1>5. fortune \in [Slots -> Fates]
  BY Given
<1>6. PICK f \in Fates, g \in Fates : f = fortune[t] /\ g = fortune[old]
  BY <1>2, <1>5
<1>7. /\ stopped \in Worlds /\ stopped.app = app /\ Elsewhere(World, stopped, t)
  BY <1>1, Now, StopSlotFacts
<1> HIDE DEF stopped, old
<1>8. stopped.ses[t] \in Slot
  BY <1>7, WorldParts
<1>9. deaf \in BOOLEAN
  BY <1>8 DEF Slot
<1> HIDE DEF deaf
<1>10. slot \in Slot
  BY <1>8, <1>9 DEF Slot
<1> HIDE DEF slot
<1>11. /\ forgot \in Worlds /\ forgot.app = app /\ forgot.peer = stopped.peer
       /\ \A x \in Slots \ {t} : forgot.ses[x] = ses[x]
  BY <1>7, <1>10, Now, WithSlot DEF Elsewhere
<1> HIDE DEF forgot
<1>12. far \in Peer
  <2>1. forgot.peer[old] \in Peer
    BY <1>2, <1>11, WorldParts
  <2> QED BY <2>1 DEF Peer
<1> HIDE DEF far
<1>13. /\ asked \in Worlds /\ asked.app = app /\ asked.ses = forgot.ses
       /\ \A x \in Slots \ {t, old} : asked.peer[x] = peer[x]
  <2>1. \A x \in Slots \ {t, old} : forgot.peer[x] = peer[x]
    BY <1>7, <1>11, Now DEF Elsewhere
  <2> DEFINE q == [forgot EXCEPT !.peer[old] = far]
  <2>2. /\ q \in Worlds /\ q.app = forgot.app /\ q.ses = forgot.ses
        /\ \A x \in Slots \ {old} : q.peer[x] = forgot.peer[x]
    BY <1>2, <1>11, <1>12, WithPeer
  <2>3. asked \in {q, forgot}
    OBVIOUS
  <2> HIDE DEF q, asked
  <2> QED BY <1>11, <2>1, <2>2, <2>3
<1> HIDE DEF asked
<1>14. /\ Received(asked, bare, t) /\ bare.app = app /\ bare.ses = asked.ses
       /\ bare.scr.rgba = None
  BY <1>13, CloseRgbaFacts
<1> HIDE DEF bare
<1>15. bare \in Worlds /\ bare.scr \in Screen /\ bare.peer = asked.peer
  BY <1>14, WorldParts DEF Received
<1>16. target \in Slots \cup {None}
  OBVIOUS
<1> HIDE DEF target
<1>17. /\ a \in App /\ a.active = t /\ ~a.streaming /\ a.step = "loop"
       /\ a.heir = None /\ a.dead = None
  BY <1>1, <1>14, <1>16 DEF App
<1> HIDE DEF a
<1>18. m \in Worlds /\ m.app = a /\ m.ses = bare.ses /\ m.scr = bare.scr /\ m.peer = bare.peer
  BY <1>15, <1>17, WithApp
<1> HIDE DEF m
<1>19. calm \in Screen /\ calm.rgba = None /\ ~calm.refresh
  BY <1>14, <1>15, <1>18 DEF Screen
<1> HIDE DEF calm
<1>20. moved \in Worlds /\ moved.app = a /\ moved.ses = m.ses /\ moved.scr = calm
       /\ moved.peer = m.peer
  BY <1>18, <1>19, WithScreen
<1> HIDE DEF moved
<1>21. Cleared(World, moved, t)
  BY <1>2, <1>11, <1>13, <1>14, <1>15, <1>17, <1>18, <1>19, <1>20, Now DEF Cleared
<1>22. Sound(connected) /\ connected.app = a
  <2>1. Demoted(World, moved, demoted, t, g)
    BY <1>2, <1>6, Now DEF Demoted
  <2> HIDE DEF demoted
  <2>2. PICK arm \in BOOLEAN : arm = FALSE
    OBVIOUS
  <2>3. LET r == Connect(demoted, t, arm, f) IN Sound(r) /\ r.app = moved.app
    <3>1. World.app.step # "resume"
      BY <1>1, Now
    <3> QED BY <1>21, <2>1, <2>2, <3>1, ConnectSound
  <2> QED BY <1>6, <1>20, <2>2, <2>3
<1> HIDE DEF connected
<1>23. CASE Become(connected)
  BY <1>22, <1>23, BecomesSound
<1>24. CASE Become(StopMedia([connected EXCEPT !.app.hubTarget = None]))
  <2> DEFINE b == [a EXCEPT !.hubTarget = None]
             q == [connected EXCEPT !.app = b]
  <2>1. [connected EXCEPT !.app.hubTarget = None] = q
    BY <1>22
  <2>2. SameSwitch(connected, b)
    BY <1>17, <1>22 DEF App, SameSwitch
  <2> HIDE DEF b
  <2>3. Sound(q)
    BY <1>22, <2>2, AppSound
  <2> HIDE DEF q
  <2>4. Sound(StopMedia(q))
    BY <2>3, StopMediaSound
  <2> QED BY <1>24, <2>1, <2>4, BecomesSound
<1> QED BY <1>4, <1>23, <1>24

\* A worker connects, ends, has a callback that rejects what it was given, or reconnects by
\* itself.
LEMMA WorkerSound ==
    ASSUME NEW s \in Slots, Sound(World),
           WorkerConnected(s) \/ WorkerEnded(s) \/ CallbackRejects(s) \/ WorkerRetries(s)
    PROVE  Sound(World)'
<1>1. World \in Worlds /\ ses[s] \in Slot /\ peer[s] \in Peer /\ scr \in Screen
  BY Now, WorldParts DEF Sound
<1>2. SlotSound(ses[s], peer[s])
  BY Now DEF Sound, SlotsSound
<1>3. ASSUME NEW slot \in Slot, NEW far \in Peer, NEW screen \in Screen, NEW r,
             slot.rdp = ses[s].rdp, slot.suppressed = ses[s].suppressed,
             slot.pending = ses[s].pending, slot.cache = ses[s].cache,
             ses[s].failed => slot.failed, slot.state = "active" => slot.rdp,
             far.want = peer[s].want, Dimmer(scr, screen),
             r = [[[World EXCEPT !.ses[s] = slot] EXCEPT !.peer[s] = far] EXCEPT !.scr = screen],
             Become(r)
      PROVE  Sound(World)'
  <2> DEFINE m == [World EXCEPT !.ses[s] = slot]
             q == [m EXCEPT !.peer[s] = far]
  <2>1. /\ m \in Worlds /\ m.app = app /\ m.scr = scr /\ m.peer = peer
        /\ m.ses[s] = slot /\ \A x \in Slots \ {s} : m.ses[x] = ses[x]
    BY <1>1, Now, WithSlot
  <2>2. r = [q EXCEPT !.scr = screen]
    BY <1>3
  <2> HIDE DEF m
  <2>3. /\ q \in Worlds /\ q.app = app /\ q.scr = scr /\ q.ses = m.ses
        /\ q.peer[s] = far /\ \A x \in Slots \ {s} : q.peer[x] = peer[x]
    BY <2>1, WithPeer
  <2> HIDE DEF q
  <2>4. /\ r \in Worlds /\ r.app = app /\ r.scr = screen /\ r.ses = m.ses /\ r.peer = q.peer
    BY <2>2, <2>3, WithScreen
  <2>5. Noted(World, r, s)
    BY <1>3, <2>1, <2>3, <2>4, Now DEF Noted, Elsewhere
  <2>6. Sound(r)
    BY <2>5, NotedSound
  <2> QED BY <1>3, <2>6, BecomesSound
<1>4. Dimmer(scr, scr)
  BY DEF Dimmer
<1>5. CASE WorkerConnected(s)
  <2> DEFINE slot == [ses[s] EXCEPT !.state = "active"]
             far == [peer[s] EXCEPT !.on = TRUE, !.fresh = TRUE]
  <2>1. Become([World EXCEPT !.ses[s].state = "active",
                             !.peer[s] = [@ EXCEPT !.on = TRUE, !.fresh = TRUE]])
    BY <1>5 DEF WorkerConnected
  <2>2. ses[s].rdp
    BY <1>5, Now DEF WorkerConnected, StillConnecting
  <2>3. /\ slot \in Slot /\ slot.rdp = ses[s].rdp /\ slot.suppressed = ses[s].suppressed
        /\ slot.pending = ses[s].pending /\ slot.cache = ses[s].cache
        /\ slot.failed = ses[s].failed
    BY <1>1 DEF Slot
  <2>4. far \in Peer /\ far.want = peer[s].want
    BY <1>1 DEF Peer
  <2>5. [World EXCEPT !.ses[s].state = "active",
                      !.peer[s] = [@ EXCEPT !.on = TRUE, !.fresh = TRUE]]
         = [[[World EXCEPT !.ses[s] = slot] EXCEPT !.peer[s] = far] EXCEPT !.scr = scr]
    BY Now DEF World
  <2> QED BY <1>1, <1>3, <1>4, <2>1, <2>2, <2>3, <2>4, <2>5
<1>6. CASE WorkerEnded(s)
  <2> DEFINE slot == [ses[s] EXCEPT !.state = "closed", !.failed = TRUE]
             far == [peer[s] EXCEPT !.on = FALSE]
  <2>1. Become(ReportTerminal([World EXCEPT !.ses[s].state = "closed", !.peer[s].on = FALSE], s))
    BY <1>6 DEF WorkerEnded
  <2>2. /\ slot \in Slot /\ slot.rdp = ses[s].rdp /\ slot.suppressed = ses[s].suppressed
        /\ slot.pending = ses[s].pending /\ slot.cache = ses[s].cache
        /\ slot.failed /\ slot.state # "active"
    BY <1>1 DEF Slot
  <2>3. far \in Peer /\ far.want = peer[s].want
    BY <1>1 DEF Peer
  <2>4. ReportTerminal([World EXCEPT !.ses[s].state = "closed", !.peer[s].on = FALSE], s)
         = [[[World EXCEPT !.ses[s] = slot] EXCEPT !.peer[s] = far] EXCEPT !.scr = scr]
    <3>1. ReportTerminal([World EXCEPT !.ses[s].state = "closed", !.peer[s].on = FALSE], s)
           = [World EXCEPT !.ses = [ses EXCEPT ![s] = slot],
                           !.peer = [peer EXCEPT ![s] = far]]
      <4>1. ses \in [Slots -> Slot]
        BY <1>1, Now DEF Worlds
      <4>2. [[ses EXCEPT ![s] = [ses[s] EXCEPT !.state = "closed"]] EXCEPT
                ![s] = [[ses[s] EXCEPT !.state = "closed"] EXCEPT !.failed = TRUE]]
             = [ses EXCEPT ![s] = slot]
        BY <4>1 DEF Slot
      <4> QED BY <4>1, <4>2 DEF ReportTerminal, World
    <3> QED BY <3>1 DEF World
  <2> QED BY <1>1, <1>3, <1>4, <2>1, <2>2, <2>3, <2>4
<1>7. CASE CallbackRejects(s)
  <2> DEFINE slot == [ses[s] EXCEPT !.failed = TRUE]
  <2>1. Become(ReportTerminal(World, s))
    BY <1>7 DEF CallbackRejects
  <2>2. /\ slot \in Slot /\ slot.rdp = ses[s].rdp /\ slot.suppressed = ses[s].suppressed
        /\ slot.pending = ses[s].pending /\ slot.cache = ses[s].cache
        /\ slot.failed /\ slot.state = ses[s].state
    BY <1>1 DEF Slot
  <2>3. ReportTerminal(World, s)
         = [[[World EXCEPT !.ses[s] = slot] EXCEPT !.peer[s] = peer[s]] EXCEPT !.scr = scr]
    <3>1. peer \in [Slots -> Peer]
      BY <1>1, Now DEF Worlds
    <3>2. [peer EXCEPT ![s] = peer[s]] = peer
      BY <3>1
    <3>3. ReportTerminal(World, s) = [World EXCEPT !.ses = [ses EXCEPT ![s] = slot]]
      BY Zenon, Now DEF ReportTerminal
    <3>4. [[[World EXCEPT !.ses[s] = slot] EXCEPT !.peer[s] = peer[s]] EXCEPT !.scr = scr]
           = [World EXCEPT !.ses = [ses EXCEPT ![s] = slot],
                           !.peer = [peer EXCEPT ![s] = peer[s]]]
      BY Now DEF World
    <3> HIDE DEF slot
    <3> QED BY <3>2, <3>3, <3>4 DEF World
  <2> QED BY <1>1, <1>2, <1>3, <1>4, <2>1, <2>2, <2>3 DEF SlotSound
<1>8. CASE WorkerRetries(s)
  <2> DEFINE slot == [ses[s] EXCEPT !.state = "connecting"]
             far == [peer[s] EXCEPT !.on = FALSE]
             level == scr.level /\ scr.owner # s
             screen == [scr EXCEPT !.level = level]
  <2>1. Become([World EXCEPT !.ses[s].state = "connecting", !.peer[s].on = FALSE,
                             !.scr.level = @ /\ scr.owner # s])
    BY <1>8 DEF WorkerRetries
  <2>2. /\ slot \in Slot /\ slot.rdp = ses[s].rdp /\ slot.suppressed = ses[s].suppressed
        /\ slot.pending = ses[s].pending /\ slot.cache = ses[s].cache
        /\ slot.failed = ses[s].failed /\ slot.state # "active"
    BY <1>1 DEF Slot
  <2>3. far \in Peer /\ far.want = peer[s].want
    BY <1>1 DEF Peer
  <2>4. [World EXCEPT !.ses[s].state = "connecting", !.peer[s].on = FALSE,
                      !.scr.level = @ /\ scr.owner # s]
         = [[[World EXCEPT !.ses[s] = slot] EXCEPT !.peer[s] = far] EXCEPT !.scr = screen]
    BY Zenon, Now DEF World
  <2>5. level \in BOOLEAN
    BY <1>1 DEF Screen
  <2> HIDE DEF level
  <2>6. screen \in Screen /\ Dimmer(scr, screen)
    BY <1>1, <2>5 DEF Screen, Dimmer
  <2> HIDE DEF slot, far, screen
  <2> QED BY <1>3, <2>1, <2>2, <2>3, <2>4, <2>6
<1> QED BY <1>5, <1>6, <1>7, <1>8

\* A unit or a tile reaches the client.
LEMMA ArrivalSound ==
    ASSUME NEW s \in Slots, Sound(World), UnitArrives(s) \/ TilesArrive(s)
    PROVE  Sound(World)'
<1>1. World \in Worlds /\ peer[s] \in Peer
  BY Now, WorldParts DEF Sound
<1>2. CASE UnitArrives(s)
  <2> DEFINE far == [peer[s] EXCEPT !.fresh = FALSE]
             w == [World EXCEPT !.peer[s] = far]
             unit == IF peer[s].fresh THEN "seed" ELSE "delta"
  <2>1. PICK luck \in scenario.lucks : Become(Ingest(w, s, unit, luck))
    <3>1. [World EXCEPT !.peer[s].fresh = FALSE] = w
      BY Now
    <3> HIDE DEF w
    <3> QED BY <1>2, <3>1 DEF UnitArrives
  <2>2. far \in Peer /\ far.want = peer[s].want
    BY <1>1 DEF Peer
  <2> HIDE DEF far, unit
  <2>3. /\ w \in Worlds /\ w.app = app /\ w.scr = scr /\ w.ses = ses /\ w.peer[s] = far
        /\ \A x \in Slots \ {s} : w.peer[x] = peer[x]
    BY <1>1, <2>2, Now, WithPeer
  <2> HIDE DEF w
  <2>4. Noted(World, w, s)
    BY <2>2, <2>3, Now DEF Noted, Elsewhere, Dimmer, Sound, SlotsSound, SlotSound
  <2>5. Sound(w)
    BY <2>4, NotedSound
  <2> DEFINE r == Ingest(w, s, unit, luck)
  <2>6. Received(w, r, s) /\ Shows(w, r, s)
    BY <2>3, IngestFacts
  <2> HIDE DEF r
  <2>7. Sound(r)
    BY <2>5, <2>6, ReceivedSound
  <2> QED BY <2>1, <2>7, BecomesSound DEF r
<1>3. CASE TilesArrive(s)
  <2>1. PICK recent \in BOOLEAN, fed \in BOOLEAN, luck \in scenario.lucks :
          Become(Bitmap(World, s, recent, fed, luck))
    BY <1>3 DEF TilesArrive
  <2> DEFINE r == Bitmap(World, s, recent, fed, luck)
  <2>2. Received(World, r, s) /\ Shows(World, r, s)
    BY <1>1, BitmapFacts
  <2> HIDE DEF r
  <2>3. Sound(r)
    BY <2>2, ReceivedSound
  <2> QED BY <2>1, <2>3, BecomesSound DEF r
<1> QED BY <1>2, <1>3

\* A server acts on its commands, the pipeline reloads, an audio track takes the decoder down.
LEMMA ElsewhereSound ==
    ASSUME Sound(World),
           \/ \E s \in Slots : PeerApplies(s) \/ AudioAttached(s)
           \/ PipelineReloads
    PROVE  Sound(World)'
<1>1. World \in Worlds /\ app \in App /\ scr \in Screen
  BY Now, WorldParts DEF Sound
<1>2. CASE \E s \in Slots : PeerApplies(s)
  <2>1. PICK s \in Slots : PeerApplies(s)
    BY <1>2
  <2> DEFINE seed == peer[s].refresh /\ s \in scenario.obliging
             fresh == peer[s].fresh \/ seed
             far == [peer[s] EXCEPT !.on = peer[s].want, !.refresh = FALSE, !.fresh = fresh]
             r == [World EXCEPT !.peer[s] = far]
  <2>2. Become(r)
    BY <2>1, Now DEF PeerApplies
  <2>3. peer[s] \in Peer
    BY <1>1, Now, WorldParts
  <2>4. fresh \in BOOLEAN
    BY <2>3 DEF Peer
  <2> HIDE DEF fresh
  <2>5. far \in Peer /\ far.want = peer[s].want
    BY <2>3, <2>4 DEF Peer
  <2> HIDE DEF far
  <2>6. /\ r \in Worlds /\ r.app = app /\ r.scr = scr /\ r.ses = ses /\ r.peer[s] = far
        /\ \A x \in Slots \ {s} : r.peer[x] = peer[x]
    BY <1>1, <2>5, Now, WithPeer
  <2> HIDE DEF r
  <2>7. Noted(World, r, s)
    BY <2>5, <2>6, Now DEF Noted, Elsewhere, Dimmer, Sound, SlotsSound, SlotSound
  <2>8. Sound(r)
    BY <2>7, NotedSound
  <2> QED BY <2>2, <2>8, BecomesSound
<1>3. CASE \E s \in Slots : AudioAttached(s)
  <2> DEFINE q == CloseDecoder(World)
             a == [q.scr EXCEPT !.refresh = TRUE]
             r == [q EXCEPT !.scr = a]
  <2>1. Become(r)
    BY <1>3 DEF AudioAttached
  <2>2. PICK s \in Slots : s = app.active
    BY <1>1 DEF App
  <2>3. /\ Received(World, q, s) /\ q.app = app /\ q.ses = ses
        /\ Dimmer(scr, q.scr) /\ q.scr.owner = None
    BY <1>1, Now, CloseDecoderFacts
  <2> HIDE DEF q
  <2>4. q \in Worlds /\ q.scr \in Screen /\ q.peer = peer
    BY <2>3, Now, WorldParts DEF Received
  <2>5. /\ a \in Screen /\ a.owner = None /\ a.rgba = q.scr.rgba
    BY <2>3, <2>4 DEF Screen
  <2> HIDE DEF a
  <2>6. r \in Worlds /\ r.app = app /\ r.ses = ses /\ r.scr = a /\ r.peer = peer
    BY <2>3, <2>4, <2>5, WithScreen
  <2> HIDE DEF r
  <2>7. PictureSound(r.app, r.scr) /\ RefreshSound(r)
    BY <1>1, <2>2, <2>3, <2>5, <2>6, Now, NoneAssumption
    DEF Sound, PictureSound, RefreshSound, Dimmer
  <2>8. SlotsSound(r) /\ StepSound(r.app) /\ ActiveSound(r.app, r.ses[r.app.active])
    BY <2>6, Now DEF Sound, SlotsSound
  <2>9. Sound(r)
    BY <2>6, <2>7, <2>8 DEF Sound
  <2> QED BY <2>1, <2>9, BecomesSound
<1>4. CASE PipelineReloads
  <2> DEFINE a == [scr EXCEPT !.needKey = TRUE]
             r == [World EXCEPT !.scr = a]
  <2>1. Become(r)
    BY <1>4, Now DEF PipelineReloads
  <2>2. a \in Screen /\ Dimmer(scr, a)
    BY <1>1 DEF Screen, Dimmer
  <2> HIDE DEF a
  <2>3. r \in Worlds /\ r.app = app /\ r.ses = ses /\ r.scr = a /\ r.peer = peer
    BY <1>1, <2>2, Now, WithScreen
  <2> HIDE DEF r
  <2>4. PICK s \in Slots : s = app.active
    BY <1>1 DEF App
  <2>5. Noted(World, r, s)
    BY <2>2, <2>3, Now DEF Noted, Elsewhere, Sound, SlotsSound, SlotSound
  <2>6. Sound(r)
    BY <2>5, NotedSound
  <2> QED BY <2>1, <2>6, BecomesSound
<1> QED BY <1>2, <1>3, <1>4

-----------------------------------------------------------------------------
(* The theorems *)

\* The invariant holds when the shell starts: no slot holds a session.
LEMMA InitSound ==
    ASSUME Init
    PROVE  IInv
<1>1. PICK s \in Slots :
        app = [active |-> s, running |-> TRUE, streaming |-> FALSE, hub |-> FALSE,
               hubTarget |-> None, deferred |-> None,
               watch |-> FALSE, progress |-> FALSE, reconnected |-> FALSE,
               step |-> "loop", direct |-> FALSE, heir |-> None, dead |-> None]
  BY DEF Init
<1>2. app \in App /\ app.step = "loop" /\ app.heir = None /\ app.dead = None /\ ~app.streaming
  BY <1>1 DEF App
<1>3. EmptySlot \in Slot /\ ~EmptySlot.rdp /\ EmptySlot.cache = NoCache
      /\ EmptySlot.state = "idle"
  BY MaxPathsAssumption, CacheTypes DEF EmptySlot, Slot
<1>4. NoPeer \in Peer
  BY DEF NoPeer, Peer
<1>5. scr \in Screen /\ scr.rgba = None /\ ~scr.refresh
  BY DEF Init, DarkScreen, Screen
<1>6. /\ ses \in [Slots -> Slot] /\ \A x \in Slots : ses[x] = EmptySlot
      /\ peer \in [Slots -> Peer]
  BY <1>3, <1>4 DEF Init
<1>7. World \in Worlds
  BY <1>2, <1>5, <1>6 DEF World, Worlds
<1>8. SlotsSound(World)
  BY <1>3, <1>6, Now, CacheTypes DEF SlotsSound, SlotSound, CacheSound
<1>9. StepSound(World.app) /\ ActiveSound(World.app, World.ses[World.app.active])
  BY <1>1, <1>2, <1>3, <1>6, Now DEF StepSound, ActiveSound
<1>10. PictureSound(World.app, World.scr) /\ RefreshSound(World)
  BY <1>5, Now DEF PictureSound, RefreshSound
<1>11. scenario \in Scenarios /\ presses \in Nat
  BY DEF Init
<1> QED BY <1>7, <1>8, <1>9, <1>10, <1>11 DEF IInv, Sound

\* Every step of the SDL thread, of a worker or of a server keeps it.
LEMMA StepSafe ==
    ASSUME IInv, [Next]_vars
    PROVE  IInv'
<1>1. Sound(World) /\ scenario \in Scenarios /\ presses \in Nat
  BY DEF IInv
<1>2. CASE UNCHANGED vars
  BY <1>1, <1>2 DEF vars, IInv, World, Sound, Worlds, SlotsSound, StepSound, ActiveSound,
                    PictureSound, RefreshSound, SlotSound, CacheSound
<1>3. ASSUME Next
      PROVE  scenario' = scenario /\ presses' \in Nat
  BY <1>1, <1>3 DEF Next, Loop, OpenHub, User, Streams, Obeys, Disturbs, Press, given
<1>4. ASSUME Loop
      PROVE  Sound(World)'
  BY <1>1, <1>4, FinishSwitchSound, HandOffSound, DrainActiveSound, EnterStreamSound,
     DeferredSound, RefreshWantedSound, WatchSound, SilencingSound, SeedOverdueSound,
     DrainBackgroundSound DEF Loop
<1>5. ASSUME OpenHub
      PROVE  Sound(World)'
  BY <1>1, <1>5, HubSound DEF OpenHub
<1>6. ASSUME NEW s \in Slots, User(s)
      PROVE  Sound(World)'
  BY <1>1, <1>6, HubSound, SwitchToSound, ShowConfiguratorSound, UserConnectSound,
     ProfileChangedSound, CameraModeChangedSound DEF User
<1>7. ASSUME NEW s \in Slots, Streams(s) \/ Obeys(s) \/ Disturbs(s)
      PROVE  Sound(World)'
  BY <1>1, <1>7, WorkerSound, ArrivalSound, ElsewhereSound DEF Streams, Obeys, Disturbs
<1>8. ASSUME PipelineReloads
      PROVE  Sound(World)'
  BY <1>1, <1>8, ElsewhereSound
<1>9. Next => Sound(World)'
  BY <1>4, <1>5, <1>6, <1>7, <1>8 DEF Next
<1> QED BY <1>1, <1>2, <1>3, <1>9 DEF IInv

\* Every reachable state is sound.
THEOREM Invariance == Spec => []IInv
<1>1. Init => IInv
  BY InitSound
<1>2. IInv /\ [Next]_vars => IInv'
  BY StepSafe
<1> QED BY <1>1, <1>2, PTL DEF Spec

-----------------------------------------------------------------------------
(* What the invariant says of the screen *)

\* Every variable keeps its type: the fields of the SDL thread, the slots, the decoder and
\* the servers, over native_switch*.c, native_session.c and native_rdp_video.c.
THEOREM TypeCorrect == Spec => []TypeOK
<1>1. IInv => TypeOK
  <2>1. IInv => World \in Worlds /\ scenario \in Scenarios /\ presses \in Nat
    BY DEF IInv, Sound
  <2>2. World \in Worlds => app \in App /\ ses \in [Slots -> Slot] /\ scr \in Screen
                            /\ peer \in [Slots -> Peer]
    BY Now DEF Worlds
  <2> QED BY <2>1, <2>2 DEF TypeOK
<1> QED BY <1>1, Invariance, PTL

\* What the inductive invariant says of the slot on screen.
LEMMA OnScreen ==
    ASSUME IInv
    PROVE  /\ app.active \in Slots
           /\ SlotSound(ses[app.active], peer[app.active])
           /\ ActiveSound(app, ses[app.active])
<1>1. app \in App
  BY Now, WorldParts DEF IInv, Sound
<1>2. app.active \in Slots
  BY <1>1 DEF App
<1> QED BY <1>2, Now DEF IInv, Sound, SlotsSound

\* The frames of the session on screen reach the decoder: no cache of its own takes them
\* and it waits for no seed, whichever way it became active (native_complete_session_switch,
\* native_slot_connect).
THEOREM ScreenFed == Spec => []ScreenIsFed
<1>1. IInv => ScreenIsFed
  BY OnScreen DEF ActiveSound, ScreenIsFed, AtRest
<1> QED BY <1>1, Invariance, PTL

\* A live session on the streaming screen was last told to send graphics
\* (native_complete_session_switch, native_streaming_transition_tick).
THEOREM ScreenAwake == Spec => []ScreenIsAwake
<1>1. IInv => ScreenIsAwake
  <2> SUFFICES ASSUME IInv, AtRest, LiveTarget(World, app.active)
               PROVE  ~ses[app.active].suppressed /\ peer[app.active].want
    BY DEF ScreenIsAwake
  <2>1. ses[app.active].rdp /\ ~ses[app.active].failed
    BY Now DEF LiveTarget
  <2>2. ~ses[app.active].suppressed
    BY <2>1, OnScreen DEF ActiveSound, AtRest
  <2> QED BY <2>1, <2>2, OnScreen DEF SlotSound
<1> QED BY <1>1, Invariance, PTL

\* When the streaming screen is up, the active slot holds a session or a failure that is yet
\* to be drained, also when a chosen survivor dies before it takes over
\* (native_session_supervisor_tick, native_complete_session_switch).
THEOREM VisibleAlive == Spec => []VisibleIsAlive
<1>1. IInv => VisibleIsAlive
  BY OnScreen DEF ActiveSound, VisibleIsAlive, AtRest
<1> QED BY <1>1, Invariance, PTL

\* A keyframe request that a worker left behind is for the stream on screen: video_refresh_needed
\* is cleared where active_index is published.
THEOREM RefreshOwned == Spec => []RefreshIsOwn
<1>1. IInv => RefreshIsOwn
  <2> SUFFICES ASSUME IInv, scr.refresh, ses[app.active].state = "active"
               PROVE  scr.owner \in {app.active, None}
    BY DEF RefreshIsOwn
  <2>1. ses[app.active].rdp
    BY OnScreen DEF SlotSound
  <2>2. RefreshSound(World)
    BY DEF IInv, Sound
  <2> QED BY <2>1, <2>2, Now DEF RefreshSound
<1> QED BY <1>1, Invariance, PTL

\* A canvas shows only the active slot, and one connection never owns both the canvas and the
\* decoder (on_bitmap_update, native_video_ingest_au_locked).
THEOREM OnePictureOnly == Spec => []OnePicture
<1>1. IInv => OnePicture
  BY Now DEF IInv, Sound, PictureSound, OnePicture
<1> QED BY <1>1, Invariance, PTL

-----------------------------------------------------------------------------
(* A replay continues exactly where the server does *)

\* The connection of slot t is told to send again, and not asked for a keyframe.
Silent(a, b, t) ==
    /\ ~a.peer[t].want /\ b.peer[t].want /\ ~b.peer[t].refresh
    /\ b.ses[t].state = "active" /\ ~b.ses[t].failed /\ b.app.running

\* The decoder stands where the last unit of slot t left it.
Exact(s, t) == s.owner = t /\ s.level /\ ~s.broken

\* Only a whole replay lets an owner go on without a keyframe: what else it may get is a new
\* connection, which has yet to become active, or a request.
LEMMA ReenterIsExact ==
    ASSUME NEW w, NEW t \in Slots, NEW quiet \in BOOLEAN, NEW luck, NEW fate \in Fates,
           Sound(w), w.app.active = t
    PROVE  LET r == Reenter(w, t, quiet, luck, fate) IN Silent(w, r, t) => Exact(r.scr, t)
<1> DEFINE awake == [w.ses[t] EXCEPT !.suppressed = FALSE]
           woken == [w EXCEPT !.ses[t] = awake]
           played == Replay(woken, t, quiet, luck)
           up == Resume(played, t)
           r == Reenter(w, t, quiet, luck, fate)
           c == w.ses[t].cache
<1>1. r = IF Replays(w, t, quiet) /\ luck \notin {"notready", "error"} THEN up
          ELSE IF played.ses[t].failed THEN played
          ELSE IF played.ses[t].deaf THEN Reconnect(played, t, FALSE, fate)
          ELSE Refresh(up, t)
  BY Zenon DEF Reenter
<1>2. w \in Worlds /\ w.ses[t] \in Slot
  BY WorldParts DEF Sound
<1>3. awake \in Slot /\ awake.cache = c
  BY <1>2 DEF Slot
<1> HIDE DEF awake
<1>4. woken \in Worlds /\ woken.app = w.app /\ woken.ses[t] = awake
  BY <1>2, <1>3, WithSlot
<1> HIDE DEF woken
<1>5. /\ Received(woken, played, t)
      /\ Replays(woken, t, quiet) /\ luck \notin {"notready", "error"} =>
           /\ played.scr.owner = t \/ woken.ses[t].failed \/ ~played.app.running
           /\ played.scr.level = woken.ses[t].cache.level
           /\ played.scr.broken = woken.ses[t].cache.gap
  BY <1>4, ReplayFacts
<1> HIDE DEF played
<1>6. played \in Worlds
  BY <1>5 DEF Received
<1>7. up \in Worlds /\ up.app = played.app /\ up.scr = played.scr /\ up.ses = played.ses
  BY <1>6, ResumeFacts
<1> HIDE DEF up
<1>8. ASSUME r = up, Replays(w, t, quiet), luck \notin {"notready", "error"}, Silent(w, r, t)
      PROVE  Exact(r.scr, t)
  <2>1. CacheSound(c)
    BY DEF Sound, SlotsSound, SlotSound
  <2>2. c.len > 0 /\ Replays(woken, t, quiet)
    BY <1>3, <1>4, <1>8 DEF Replays, CacheReady
  <2>3. c.level /\ ~c.gap
    BY <2>1, <2>2 DEF CacheSound
  <2>4. ~woken.ses[t].failed /\ played.app.running
    BY <1>5, <1>7, <1>8 DEF Silent, Received
  <2> QED BY <1>3, <1>4, <1>5, <1>7, <1>8, <2>2, <2>3, <2>4 DEF Exact
<1>9. ASSUME r = played, played.ses[t].failed
      PROVE  ~Silent(w, r, t)
  BY <1>9 DEF Silent
<1>10. ASSUME r = Reconnect(played, t, FALSE, fate)
       PROVE  ~Silent(w, r, t)
  <2> DEFINE q == Reconnect(played, t, FALSE, fate)
  <2>1. Empty(q.ses[t], FALSE)
    BY <1>6, ReconnectShown
  <2> HIDE DEF q
  <2>2. r = q
    BY <1>10 DEF q
  <2> QED BY <2>1, <2>2 DEF Silent, Empty
<1>11. ASSUME r = Refresh(up, t)
       PROVE  ~Silent(w, r, t)
  <2> DEFINE q == Refresh(up, t)
  <2>1. q.peer[t].refresh
    BY <1>7, RefreshFacts
  <2> HIDE DEF q
  <2>2. r = q
    BY <1>11 DEF q
  <2> QED BY <2>1, <2>2 DEF Silent
<1> QED BY <1>1, <1>8, <1>9, <1>10, <1>11

\* Burying another slot touches neither the slot on screen nor, while it has a session, the decoder.
LEMMA BuryKeeps ==
    ASSUME NEW w \in Worlds, NEW d \in Slots, NEW t \in Slots, d # t
    PROVE  LET r == StopMedia(StopSlot(w, d)) IN
           /\ r \in Worlds /\ r.app = w.app /\ r.ses[t] = w.ses[t] /\ r.peer[t] = w.peer[t]
           /\ w.ses[t].rdp => r.scr = w.scr
<1> DEFINE q == StopSlot(w, d)
           r == StopMedia(q)
<1>1. q \in Worlds /\ q.app = w.app /\ q.scr = w.scr /\ Elsewhere(w, q, d)
  BY StopSlotFacts
<1> HIDE DEF q
<1>2. /\ r \in Worlds /\ r.app = q.app /\ r.ses = q.ses /\ r.peer = q.peer
      /\ (\E s \in Slots : q.ses[s].rdp) => r = q
  BY <1>1, StopMediaFacts
<1> HIDE DEF r
<1>3. q.ses[t] = w.ses[t] /\ q.peer[t] = w.peer[t]
  BY <1>1 DEF Elsewhere
<1>4. w.ses[t].rdp => r.scr = w.scr
  BY <1>1, <1>2, <1>3
<1> QED BY <1>1, <1>2, <1>3, <1>4 DEF r, q

\* Ending the switch changes the SDL thread's own fields only.
LEMMA HandedKeeps ==
    ASSUME NEW w \in Worlds
    PROVE  LET r == Handed(w) IN
           /\ r \in Worlds /\ r.ses = w.ses /\ r.peer = w.peer /\ r.scr = w.scr
           /\ r.app.running = w.app.running
<1> DEFINE watching == [w.app EXCEPT !.watch = TRUE, !.reconnected = FALSE]
           a == [watching EXCEPT !.step = "loop", !.direct = FALSE, !.heir = None, !.dead = None]
           m == [w EXCEPT !.app = watching]
           r == Handed(w)
<1>1. r = [m EXCEPT !.app = [m.app EXCEPT !.step = "loop", !.direct = FALSE,
                                          !.heir = None, !.dead = None]]
  BY Zenon DEF Handed, StartWatch
<1>2. w.app \in App
  BY WorldParts
<1>3. watching \in App /\ watching.running = w.app.running
  BY <1>2 DEF App
<1> HIDE DEF watching
<1>4. a \in App /\ a.running = w.app.running
  BY <1>3 DEF App
<1>5. m \in Worlds /\ m.app = watching /\ m.ses = w.ses /\ m.scr = w.scr /\ m.peer = w.peer
  BY <1>3, WithApp
<1> HIDE DEF m
<1>6. r = [m EXCEPT !.app = a]
  BY <1>1, <1>5
<1> HIDE DEF a
<1>7. r \in Worlds /\ r.app = a /\ r.ses = w.ses /\ r.scr = w.scr /\ r.peer = w.peer
  BY <1>4, <1>5, <1>6, WithApp
<1> QED BY <1>4, <1>7

\* The end of a switch wakes a server in silence only when its replay was exact.
LEMMA FinishIsExact ==
    ASSUME IInv, FinishSwitch,
           ~peer[app.active].want, peer'[app.active].want, ~peer'[app.active].refresh,
           ses'[app.active].state = "active", ~ses'[app.active].failed, app'.running
    PROVE  Exact(scr', app.active)
<1>1. PICK quiet \in BOOLEAN, luck \in scenario.lucks, fate \in scenario.fates :
        ResumeTarget(quiet, luck, fate)
  BY DEF FinishSwitch
<1>2. Sound(World) /\ fate \in Fates
  BY Given DEF IInv
<1>3. PICK t \in Slots : t = app.active
  BY OnScreen
<1> DEFINE entered == IF ~app.direct /\ ses[app.active].suppressed
                      THEN Reenter(World, app.active, quiet, luck, fate) ELSE World
           buried == IF app.dead = None THEN entered ELSE StopMedia(StopSlot(entered, app.dead))
<1>4. app.step = "resume" /\ Become(Handed(buried))
  BY <1>1 DEF ResumeTarget
<1>5. app.dead \in Slots \cup {None} /\ app.dead # t
  <2>1. World \in Worlds
    BY <1>2 DEF Sound
  <2>2. app \in App
    BY <2>1, Now, WorldParts
  <2> QED BY <1>2, <1>3, <1>4, <2>2, Now DEF App, Sound, StepSound
<1>6. entered \in Worlds /\ (entered.ses[t].rdp \/ entered.ses[t].failed)
      /\ (Silent(World, entered, t) => Exact(entered.scr, t))
  <2>1. CASE ~app.direct /\ ses[app.active].suppressed
    <3> DEFINE r == Reenter(World, t, quiet, luck, fate)
    <3>1. Landed(r) /\ Steady(app, r.app)
      BY <1>2, <1>3, <1>4, Now, ReenterLands
    <3>2. Silent(World, r, t) => Exact(r.scr, t)
      BY <1>2, <1>3, Now, ReenterIsExact
    <3>3. entered = r
      BY <1>3, <2>1
    <3> HIDE DEF r, entered
    <3> QED BY <1>3, <3>1, <3>2, <3>3 DEF Landed, Steady
  <2>2. CASE ~(~app.direct /\ ses[app.active].suppressed)
    <3>1. entered = World
      BY <2>2
    <3> HIDE DEF entered
    <3>2. ses[t].rdp
      BY <1>3, <1>4, OnScreen DEF ActiveSound
    <3> QED BY <1>2, <3>1, <3>2, Now DEF Sound, Silent
  <2> QED BY <2>1, <2>2
<1> HIDE DEF entered
<1>7. /\ buried \in Worlds /\ buried.app = entered.app /\ buried.ses[t] = entered.ses[t]
      /\ buried.peer[t] = entered.peer[t]
      /\ entered.ses[t].rdp => buried.scr = entered.scr
  <2>1. CASE app.dead = None
    BY <1>6, <2>1
  <2>2. CASE app.dead # None
    <3>1. PICK d \in Slots : d = app.dead
      BY <1>5, <2>2
    <3>2. LET r == StopMedia(StopSlot(entered, d)) IN
          /\ r \in Worlds /\ r.app = entered.app /\ r.ses[t] = entered.ses[t]
          /\ r.peer[t] = entered.peer[t] /\ (entered.ses[t].rdp => r.scr = entered.scr)
      BY <1>5, <1>6, <3>1, BuryKeeps
    <3> QED BY <2>2, <3>1, <3>2
  <2> QED BY <2>1, <2>2
<1> HIDE DEF buried
<1> DEFINE r == Handed(buried)
<1>8. /\ r \in Worlds /\ r.ses = buried.ses /\ r.peer = buried.peer /\ r.scr = buried.scr
      /\ r.app.running = buried.app.running
  BY <1>7, HandedKeeps
<1>9. ses' = r.ses /\ peer' = r.peer /\ scr' = r.scr /\ app' = r.app
  BY <1>4 DEF Become
<1> HIDE DEF r
<1>10. Silent(World, entered, t)
  BY <1>3, <1>7, <1>8, <1>9, Now DEF Silent
<1>11. entered.ses[t].rdp
  BY <1>6, <1>10 DEF Silent
<1> QED BY <1>3, <1>6, <1>7, <1>8, <1>9, <1>10, <1>11

\* Workers and servers leave the SDL thread between its two sections.
LEMMA OthersWait ==
    ASSUME IInv, NEW s \in Slots, Streams(s) \/ Obeys(s) \/ Disturbs(s) \/ PipelineReloads
    PROVE  app'.step = app.step
<1>1. World \in Worlds /\ peer[s] \in Peer
  BY Now, WorldParts DEF IInv, Sound
<1>2. CASE UnitArrives(s)
  <2> DEFINE far == [peer[s] EXCEPT !.fresh = FALSE]
             w == [World EXCEPT !.peer[s] = far]
             unit == IF peer[s].fresh THEN "seed" ELSE "delta"
  <2>1. PICK luck \in scenario.lucks : Become(Ingest(w, s, unit, luck))
    <3>1. [World EXCEPT !.peer[s].fresh = FALSE] = w
      BY Now
    <3> HIDE DEF w
    <3> QED BY <1>2, <3>1 DEF UnitArrives
  <2>2. far \in Peer
    BY <1>1 DEF Peer
  <2> HIDE DEF far, unit
  <2>3. w \in Worlds /\ w.app = app
    BY <1>1, <2>2, Now, WithPeer
  <2> HIDE DEF w
  <2> DEFINE r == Ingest(w, s, unit, luck)
  <2>4. Received(w, r, s)
    BY <2>3, IngestFacts
  <2>5. app' = r.app
    BY <2>1 DEF Become
  <2> HIDE DEF r
  <2> QED BY <2>3, <2>4, <2>5 DEF Received, Steady
<1>3. CASE TilesArrive(s)
  <2>1. PICK recent \in BOOLEAN, fed \in BOOLEAN, luck \in scenario.lucks :
          Become(Bitmap(World, s, recent, fed, luck))
    BY <1>3 DEF TilesArrive
  <2> DEFINE r == Bitmap(World, s, recent, fed, luck)
  <2>2. Received(World, r, s)
    BY <1>1, BitmapFacts
  <2>3. app' = r.app
    BY <2>1 DEF Become
  <2> HIDE DEF r
  <2> QED BY <2>2, <2>3, Now DEF Received, Steady
<1>4. CASE WorkerConnected(s) \/ PeerApplies(s) \/ WorkerRetries(s) \/ PipelineReloads
  BY <1>4 DEF WorkerConnected, PeerApplies, WorkerRetries, PipelineReloads, Become, World
<1>5. CASE WorkerEnded(s) \/ CallbackRejects(s)
  BY <1>5 DEF WorkerEnded, CallbackRejects, ReportTerminal, Become, World
<1>6. CASE AudioAttached(s)
  BY <1>6 DEF AudioAttached, CloseDecoder, Become, World
<1> QED BY <1>2, <1>3, <1>4, <1>5, <1>6 DEF Streams, Obeys, Disturbs

\* Nobody else brings a switch to its end.
LEMMA OnlyFinish ==
    ASSUME IInv, Next, app.step = "resume", app'.step = "loop"
    PROVE  FinishSwitch
<1>1. ~Idle /\ app.step # "handoff" /\ app'.step # app.step
  BY DEF Idle
<1>2. Loop => FinishSwitch
  BY <1>1 DEF Loop, HandOff, DrainActive, EnterStream, DeferredGone, DeferredReady,
     DeferredTimedOut, RefreshWanted, WatchSatisfied, WatchExpired, SeedCached, CacheVoided,
     SeedOverdue, DrainBackground
<1>3. ~OpenHub
  BY <1>1 DEF OpenHub, ShowHub
<1>4. ASSUME NEW s \in Slots
      PROVE  ~User(s)
  BY <1>1 DEF User, CancelDeferred, SwitchTo, ShowConfigurator, UserConnect, ProfileChanged,
     CameraModeChanged
<1>5. ASSUME NEW s \in Slots
      PROVE  ~(Streams(s) \/ Obeys(s) \/ Disturbs(s) \/ PipelineReloads)
  BY <1>1, OthersWait
<1> QED BY <1>2, <1>3, <1>4, <1>5, OnScreen DEF Next

\* A server that is woken without being asked for a keyframe continues exactly where the decoder
\* stands: no unit fell between publishing the new owner and replaying its cache
\* (native_complete_session_switch, native_snapshot_replay).
THEOREM ReplayExact == Spec => ReplayIsExact
<1>1. ASSUME IInv, [Next]_vars, app.step = "resume", app'.step = "loop", app'.running,
             ~peer[app.active].want, peer'[app.active].want, ~peer'[app.active].refresh,
             ses'[app.active].state = "active", ~ses'[app.active].failed
      PROVE  scr'.owner = app.active /\ scr'.level /\ ~scr'.broken
  <2>1. Next
    BY <1>1 DEF vars
  <2>2. Exact(scr', app.active)
    BY <1>1, <2>1, OnlyFinish, FinishIsExact
  <2> QED BY <2>2 DEF Exact
<1>2. IInv /\ [Next]_vars =>
        [LET a == app.active
         IN  app.step = "resume" /\ app'.step = "loop" /\ app'.running
             /\ ~peer[a].want /\ peer'[a].want /\ ~peer'[a].refresh
             /\ ses'[a].state = "active" /\ ~ses'[a].failed
             => scr'.owner = a /\ scr'.level /\ ~scr'.broken]_vars
  BY <1>1
<1> QED BY <1>2, Invariance, PTL DEF Spec, ReplayIsExact

=============================================================================
