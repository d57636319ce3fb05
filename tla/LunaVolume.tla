------------------------------ MODULE LunaVolume ------------------------------
(***************************************************************************)
(* The TV's volume over the Luna bus (luna_volume.c).  The SDL thread      *)
(* leaves the newest level it wants and shows it at once; the loop thread  *)
(* turns that into setVolume calls, and asks for the level with getVolume, *)
(* whose replies are the only readings the knob is given.  A call of each  *)
(* kind may be out; one that is not answered within the stall ceiling is   *)
(* cancelled and replaced.                                                 *)
(*                                                                         *)
(* The audio service is external.  It does what it is asked in the order   *)
(* it was asked, may answer late and in any order, and may lose a call.    *)
(* The clock is an action: the stall ceiling passes for a call that was    *)
(* lost, and may pass for one that is only slow.                           *)
(***************************************************************************)
EXTENDS Integers, FiniteSets, Sequences, Functions

CONSTANTS
    Levels,     \* the volumes there are
    MaxFaults   \* slow calls, lost calls and refused calls, together

ASSUME LevelsAssumption == Levels \subseteq Nat /\ Levels # {}
ASSUME MaxFaultsAssumption == MaxFaults \in Nat

VARIABLES
    knob,   \* NativeLunaVolume, and what edits leave for the loop thread
    loop,   \* NativeLunaVolumeImpl: the loop thread's flow control and its sources
    bus,    \* calls the service has yet to do, replies on their way
    tv      \* the service: its volume, and history of what it was told

lunaVars == <<knob, loop, bus, tv>>

Unknown == -1       \* no level: nothing read, nothing wanted
NoCall == 0

Call == [token: Nat, kind: {"set", "get"}, level: Levels \cup {Unknown}, edit: Nat]

\* Edits are numbered; a call to set and a reading carry the newest they know.
\* news says that reply_seq has moved since the baseline was taken.
LunaTypeOK ==
    /\ knob \in [level: Levels \cup {Unknown}, desired: Levels \cup {Unknown},
                 edits: Nat, news: BOOLEAN, queued: BOOLEAN]
    /\ loop \in [set: Nat, get: Nat, late: SUBSET {"set", "get"}, asked: Nat,
                 dispatching: BOOLEAN, sources: Seq({"dispatch", "refresh"})]
    /\ bus \in [calls: Seq(Call), replies: SUBSET Call, cancelled: SUBSET (Nat \ {NoCall})]
    /\ tv \in [level: Levels, heard: Nat, missed: Nat, faults: 0..MaxFaults, deaf: BOOLEAN]

LunaInit ==
    /\ knob = [level |-> Unknown, desired |-> Unknown, edits |-> 0, news |-> FALSE,
               queued |-> FALSE]
    /\ loop = [set |-> NoCall, get |-> NoCall, late |-> {}, asked |-> 0,
               dispatching |-> FALSE, sources |-> <<>>]
    /\ bus = [calls |-> <<>>, replies |-> {}, cancelled |-> {}]
    /\ tv = [level |-> CHOOSE level \in Levels : TRUE, heard |-> 0, missed |-> 0,
             faults |-> 0, deaf |-> FALSE]

World == [knob |-> knob, loop |-> loop, bus |-> bus, tv |-> tv]
Become(w) == knob' = w.knob /\ loop' = w.loop /\ bus' = w.bus /\ tv' = w.tv

Waiting(w) == {w.bus.calls[i] : i \in DOMAIN w.bus.calls} \cup w.bus.replies

-----------------------------------------------------------------------------
(* LSCallOneReply and LSCallCancel                                         *)

FreshToken(w) ==
    LET used == {c.token : c \in Waiting(w)} \cup {w.loop.set, w.loop.get, NoCall}
    IN  CHOOSE t \in 1..(Cardinality(used) + 1) : t \notin used

Called(w, kind, level) ==
    [w EXCEPT !.bus.calls = Append(@, [token |-> FreshToken(w), kind |-> kind,
                                       level |-> level, edit |-> w.knob.edits]),
              !.loop[kind] = FreshToken(w), !.loop.late = @ \ {kind}]

\* A cancelled call may be done all the same; its reply is dropped by the bus or,
\* if it was on its way, by the callback.
Cancelled(w, kind) ==
    [w EXCEPT !.bus.cancelled = @ \cup ({w.loop[kind]} \cap {c.token : c \in Waiting(w)}),
              !.loop[kind] = NoCall]

\* luna_volume_send_set: the worlds there may be once the newest level is sent.
\* A call the bus refuses is not repeated.
Sent(w) ==
    LET taken == [w EXCEPT !.knob.desired = Unknown]
        refused == [taken EXCEPT !.tv.faults = @ + 1, !.tv.missed = w.knob.edits]
    IN  IF w.knob.desired = Unknown THEN {w}
        ELSE {Called(taken, "set", w.knob.desired)}
             \cup IF w.tv.faults < MaxFaults THEN {refused} ELSE {}

-----------------------------------------------------------------------------
(* native_luna_volume_set and _refresh, on the SDL thread                  *)

\* The level is shown and left for the loop thread under the cache lock ...
Edited(w, level) ==
    [w EXCEPT !.knob.level = level, !.knob.desired = level, !.knob.edits = @ + 1]

\* ... and then the loop thread is told, unless it was.
Invoked(w) ==
    IF w.knob.queued THEN w
    ELSE [w EXCEPT !.knob.queued = TRUE, !.loop.sources = Append(@, "dispatch")]

\* One that waits already does for both: the second would find the call out.
Refreshed(w) ==
    IF "refresh" \in Range(w.loop.sources) THEN w
    ELSE [w EXCEPT !.loop.sources = Append(@, "refresh")]

-----------------------------------------------------------------------------
(* The sources of the loop thread                                          *)

Idle(source) ==
    ~loop.dispatching /\ loop.sources # <<>> /\ Head(loop.sources) = source

\* luna_volume_dispatch_cb: the flag first, so that an edit from here on asks for
\* a dispatch of its own.
DispatchBegin ==
    /\ Idle("dispatch")
    /\ Become([World EXCEPT !.knob.queued = FALSE, !.loop.dispatching = TRUE,
                            !.loop.sources = Tail(@)])

Dispatch ==
    /\ loop.dispatching
    /\ LET w == [World EXCEPT !.loop.dispatching = FALSE]
       IN  IF w.loop.set # NoCall /\ "set" \notin w.loop.late THEN Become(w)
           ELSE \E v \in Sent(IF w.loop.set = NoCall THEN w ELSE Cancelled(w, "set")) : Become(v)

\* A set that stalled makes way for the level that waits behind it, and one that
\* no dispatch took is sent.
Recovered(w) ==
    LET free == IF w.loop.set # NoCall /\ "set" \in w.loop.late THEN Cancelled(w, "set") ELSE w
    IN  IF free.loop.set = NoCall THEN Sent(free) ELSE {free}

\* getVolume, unless one is out that has not stalled; never with an edit pending.
Ask(w) ==
    IF \/ w.loop.set # NoCall \/ w.knob.desired # Unknown
       \/ w.loop.get # NoCall /\ "get" \notin w.loop.late THEN w
    ELSE LET free == IF w.loop.get = NoCall THEN w ELSE Cancelled(w, "get")
         IN  [Called(free, "get", Unknown) EXCEPT !.loop.asked = w.knob.edits]

\* luna_volume_refresh_cb
\* Mutant: the poll leaves a stalled set to the next edit.
RefreshUnrecovered ==
    /\ Idle("refresh")
    /\ Become(Ask([World EXCEPT !.loop.sources = Tail(@)]))

Refresh ==
    /\ Idle("refresh")
    /\ \E w \in Recovered([World EXCEPT !.loop.sources = Tail(@)]) : Become(Ask(w))

\* luna_volume_get_reply_cb.  A reading is the knob's only if no edit was made
\* since it was asked for and none is on its way.
\* Mutant: a reading is shown whatever the user did since it was asked for.
ApplyAnyReading(w, c) ==
    IF c.token # w.loop.get THEN w
    ELSE [w EXCEPT !.loop.get = NoCall, !.loop.asked = 0,
                   !.knob.level = c.level, !.knob.news = TRUE]

ApplyReading(w, c) ==
    IF c.token # w.loop.get THEN w
    ELSE LET done == [w EXCEPT !.loop.get = NoCall, !.loop.asked = 0]
         IN  IF /\ w.loop.asked = w.knob.edits
                /\ w.loop.set = NoCall /\ w.knob.desired = Unknown
             THEN [done EXCEPT !.knob.level = c.level, !.knob.news = TRUE]
             ELSE done

\* luna_volume_set_reply_cb: the level left behind meanwhile is sent next.
\* Mutant: the reply is taken to answer the level that waits, too.
ApplySetDropping(w, c) ==
    IF c.token # w.loop.set THEN {w}
    ELSE {[w EXCEPT !.loop.set = NoCall, !.knob.desired = Unknown]}

ApplySet(w, c) ==
    IF c.token # w.loop.set THEN {w}
    ELSE Sent([w EXCEPT !.loop.set = NoCall])

\* A reply comes in; one of a cancelled call may still, or not.
Reply ==
    /\ ~loop.dispatching
    /\ \E c \in bus.replies :
         LET w == [World EXCEPT !.bus.replies = @ \ {c}, !.bus.cancelled = @ \ {c.token}]
         IN  \/ c.token \in bus.cancelled /\ Become(w)
             \/ IF c.kind = "get" THEN Become(ApplyReading(w, c))
                ELSE \E v \in ApplySet(w, c) : Become(v)

Sources == DispatchBegin \/ Dispatch \/ Refresh

-----------------------------------------------------------------------------
(* The audio service and the remote's volume keys                          *)

\* A deaf service rejects every set.
Serve ==
    /\ bus.calls # <<>>
    /\ LET c == Head(bus.calls)
           w == [World EXCEPT !.bus.calls = Tail(@)]
       IN  Become(IF c.kind = "get"
                  THEN [w EXCEPT !.bus.replies = @ \cup {[c EXCEPT !.level = tv.level,
                                                                   !.edit = tv.heard]}]
                  ELSE [w EXCEPT !.bus.replies = @ \cup {c}, !.tv.heard = c.edit,
                                 !.tv.level = IF tv.deaf THEN @ ELSE c.level])

LoseCall ==
    /\ bus.calls # <<>> /\ tv.faults < MaxFaults
    /\ LET c == Head(bus.calls)
       IN  Become([World EXCEPT !.bus.calls = Tail(@), !.bus.cancelled = @ \ {c.token},
                                !.tv.faults = @ + 1,
                                !.tv.missed = IF c.kind = "set" THEN c.edit ELSE @])

\* The stall ceiling passes for a call that is still out.
CeilingOf(kind) ==
    /\ loop[kind] # NoCall /\ kind \notin loop.late
    /\ LET w == [World EXCEPT !.loop.late = @ \cup {kind}]
       IN  IF loop[kind] \notin {c.token : c \in Waiting(World)} THEN Become(w)
           ELSE tv.faults < MaxFaults /\ Become([w EXCEPT !.tv.faults = @ + 1])

Ceiling == CeilingOf("set") \/ CeilingOf("get")
=============================================================================
