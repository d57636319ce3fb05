------------------------------ MODULE MixerPanel ------------------------------
(***************************************************************************)
(* The mixer panel's faders (native_mixer_overlay.c): MASTER is the TV's   *)
(* volume (LunaVolume), the channels are settings (SettingsStore).  One    *)
(* SDL thread edits, polls, watches the volume and saves; a save blocks    *)
(* it.  Timers are choices: a poll, an idle save or an idle hide may come  *)
(* in any tick.  Input to the panel is InputRoute's.                       *)
(***************************************************************************)
EXTENDS LunaVolume, SettingsStore

CONSTANT Scenarios  \* what the user touches and what may happen: a set of Scenario

Mishaps == {"remote", "deaf", "leave", "die", "power", "disk"}

IsScenario(sc) ==
    /\ DOMAIN sc = {"faders", "mishaps", "edits", "happen"}
    /\ sc.faders \subseteq {"master", "channel"}
    /\ sc.mishaps \subseteq Mishaps
    /\ sc.edits \in Nat     \* edits of the user
    /\ sc.happen \in Nat    \* mishaps

ASSUME PanelScenariosAssumption == \A sc \in Scenarios : IsScenario(sc)

VARIABLES
    panel,      \* the App's mixer and volume watch fields
    scenario    \* the scenario of this behaviour, never changed

vars == <<knob, loop, bus, tv, store, disk, panel, scenario>>

\* changed and doubt are history of the present streaming screen: the volume was
\* moved since it came up; a reading was out when it did.
TypeOK ==
    /\ LunaTypeOK /\ StoreTypeOK
    /\ panel \in [streaming: BOOLEAN, up: BOOLEAN, dragging: BOOLEAN, telling: BOOLEAN,
                  seen: Levels \cup {Unknown}, happened: Nat, edits: Nat,
                  changed: BOOLEAN, doubt: BOOLEAN]
    /\ scenario \in Scenarios

Init ==
    /\ LunaInit /\ StoreInit
    /\ panel = [streaming |-> TRUE, up |-> FALSE, dragging |-> FALSE, telling |-> FALSE,
                seen |-> Unknown, happened |-> 0, edits |-> 0,
                changed |-> FALSE, doubt |-> FALSE]
    /\ scenario \in Scenarios

\* The SDL thread is between two calls.
Free == store.phase = "idle" /\ ~panel.telling

-----------------------------------------------------------------------------
(* The faders                                                              *)

MayEdit(fader) ==
    Free /\ panel.up /\ fader \in scenario.faders /\ panel.edits < scenario.edits

\* native_mixer_overlay_set_master_pct, by key or by drag.
EditMaster ==
    /\ MayEdit("master")
    /\ \E level \in Levels, drag \in BOOLEAN :
         /\ Become(Edited(World, level))
         /\ panel' = [panel EXCEPT !.telling = TRUE, !.dragging = @ \/ drag, !.changed = TRUE,
                                   !.edits = @ + 1]
    /\ UNCHANGED <<store, disk, scenario>>

TellLoop ==
    /\ panel.telling
    /\ Become(Invoked(World))
    /\ panel' = [panel EXCEPT !.telling = FALSE]
    /\ UNCHANGED <<store, disk, scenario>>

\* native_mixer_overlay_set_db, _toggle_mute, _toggle_solo, _toggle_duck.
EditChannel ==
    /\ MayEdit("channel")
    /\ store' = [store EXCEPT !.settings = panel.edits + 1, !.dirty = TRUE]
    /\ \E drag \in BOOLEAN :
         panel' = [panel EXCEPT !.dragging = @ \/ drag, !.edits = @ + 1]
    /\ UNCHANGED <<knob, loop, bus, tv, disk, scenario>>

DragEnds ==
    /\ Free /\ panel.dragging
    /\ panel' = [panel EXCEPT !.dragging = FALSE]
    /\ UNCHANGED <<knob, loop, bus, tv, store, disk, scenario>>

-----------------------------------------------------------------------------
(* The panel and the tick                                                  *)

\* native_mixer_overlay_flush_settings
\* Mutant: an attempt to save is taken for a save.
FlushOnce ==
    IF store.dirty THEN /\ store' = [store EXCEPT !.phase = "pick", !.dirty = FALSE]
                        /\ UNCHANGED disk
    ELSE UNCHANGED storeVars

Flush == IF store.dirty THEN SaveBegun ELSE UNCHANGED storeVars

\* A host build has no bus, and no master fader to move.
HasBus == "master" \in scenario.faders

Asked == IF HasBus THEN Refreshed(World) ELSE World

\* native_mixer_overlay_show asks for the volume.
Show ==
    /\ Free /\ panel.streaming /\ ~panel.up
    /\ panel' = [panel EXCEPT !.up = TRUE, !.dragging = FALSE]
    /\ Become(Asked)
    /\ UNCHANGED <<store, disk, scenario>>

\* native_mixer_overlay_hide saves; with a button down it is put off, unless the
\* screen itself goes away.
Hide ==
    /\ Free /\ panel.up
    /\ \/ panel' = [panel EXCEPT !.up = FALSE, !.dragging = FALSE]
       \/ panel.dragging /\ UNCHANGED panel
    /\ Flush
    /\ UNCHANGED <<knob, loop, bus, tv, scenario>>

\* The save that native_system_volume_tick makes when the edits are idle.
IdleSave ==
    /\ Free /\ ~panel.dragging /\ store.dirty
    /\ Flush
    /\ UNCHANGED <<knob, loop, bus, tv, panel, scenario>>

\* The 200 ms poll of native_system_volume_tick and of a panel that is up.
Poll ==
    /\ Free /\ panel.streaming /\ ~panel.dragging
    /\ Become(Asked)
    /\ UNCHANGED <<store, disk, panel, scenario>>

\* native_system_volume_tick: the first reading of this screen is the baseline, a
\* level that is not the one last seen raises the panel.
Watch ==
    /\ Free /\ panel.streaming /\ knob.level # Unknown /\ knob.level # panel.seen
    /\ panel.seen = Unknown => knob.news
    /\ panel' = [panel EXCEPT !.seen = knob.level, !.up = @ \/ panel.seen # Unknown]
    /\ IF panel.seen # Unknown /\ ~panel.up THEN Become(Asked)
       ELSE UNCHANGED lunaVars
    /\ UNCHANGED <<store, disk, scenario>>

\* native_system_volume_rebaseline, as a streaming screen comes up.
\* Mutant: the level that is cached is the baseline.
RebaselineCached ==
    /\ knob' = [knob EXCEPT !.news = FALSE]
    /\ panel' = [panel EXCEPT !.seen = knob.level, !.streaming = TRUE, !.changed = FALSE,
                              !.doubt = loop.get # NoCall]

Rebaseline ==
    /\ knob' = [knob EXCEPT !.news = FALSE]
    /\ panel' = [panel EXCEPT !.seen = Unknown, !.streaming = TRUE, !.changed = FALSE,
                              !.doubt = loop.get # NoCall]

-----------------------------------------------------------------------------
(* What else happens                                                       *)

Happens(mishap) == mishap \in scenario.mishaps /\ panel.happened < scenario.happen

LeaveScreen ==
    /\ Happens("leave")
    /\ Free /\ panel.streaming /\ ~panel.up
    /\ panel' = [panel EXCEPT !.streaming = FALSE, !.happened = @ + 1]
    /\ UNCHANGED <<knob, loop, bus, tv, store, disk, scenario>>

EnterScreen ==
    /\ Free /\ ~panel.streaming
    /\ Rebaseline
    /\ UNCHANGED <<loop, bus, tv, store, disk, scenario>>

\* The remote's volume keys.
Remote ==
    /\ Happens("remote")
    /\ \E level \in Levels \ {tv.level} : Become([World EXCEPT !.tv.level = level])
    /\ panel' = [panel EXCEPT !.happened = @ + 1, !.changed = TRUE]
    /\ UNCHANGED <<store, disk, scenario>>

\* From here on the service rejects what it is asked to set.
Deafen ==
    /\ Happens("deaf") /\ ~tv.deaf
    /\ Become([World EXCEPT !.tv.deaf = TRUE])
    /\ panel' = [panel EXCEPT !.happened = @ + 1]
    /\ UNCHANGED <<store, disk, scenario>>

Service == (Serve \/ LoseCall) /\ UNCHANGED <<store, disk, panel, scenario>>

LoopStep == Sources /\ UNCHANGED <<store, disk, panel, scenario>>

ReplyStep == Reply /\ UNCHANGED <<store, disk, panel, scenario>>

Stall == Ceiling /\ UNCHANGED <<store, disk, panel, scenario>>

SaveStep == Saving /\ UNCHANGED <<knob, loop, bus, tv, panel, scenario>>

Trouble ==
    /\ \/ Happens("die") /\ Die
       \/ Happens("power") /\ PowerCut
       \/ Happens("disk") /\ DiskTurns
    /\ panel' = [panel EXCEPT !.happened = @ + 1]
    /\ UNCHANGED <<knob, loop, bus, tv, scenario>>

LaunchStep ==
    /\ Launch
    /\ panel' = [panel EXCEPT !.up = FALSE, !.dragging = FALSE]
    /\ UNCHANGED <<knob, loop, bus, tv, scenario>>

Next ==
    \/ EditMaster \/ TellLoop \/ EditChannel \/ DragEnds
    \/ Show \/ Hide \/ IdleSave \/ Poll \/ Watch \/ LeaveScreen \/ EnterScreen
    \/ Remote \/ Deafen \/ Service \/ LoopStep \/ ReplyStep \/ Stall \/ SaveStep \/ Trouble \/ LaunchStep

Spec == Init /\ [][Next]_vars

\* The threads run, the clock goes on, the user lets go and comes back to a
\* stream, the service does what it is asked or loses it.
FairSpec ==
    /\ Spec
    /\ WF_vars(TellLoop) /\ WF_vars(DragEnds) /\ WF_vars(Poll) /\ WF_vars(EnterScreen)
    /\ SF_vars(IdleSave) /\ WF_vars(LoopStep) /\ WF_vars(ReplyStep) /\ WF_vars(Stall)
    /\ WF_vars(Service) /\ WF_vars(SaveStep)

-----------------------------------------------------------------------------
(* Properties                                                              *)

\* A reading that moves the knob was taken after everything the user asked for
\* had been done, and nothing of the user's is on its way behind it: a reading
\* never pulls the knob back over an edit.
KnobNotYanked ==
    [][knob'.level # knob.level /\ knob'.edits = knob.edits =>
         /\ knob.desired = Unknown
         /\ \A c \in Waiting(World) : c.kind = "set" => c \in bus.replies
         /\ \E c \in bus.replies : c.kind = "get" /\ c.edit = tv.heard]_vars

\* The user's last edit reaches the service, unless the bus lost or refused it.
EditLands == []<>(knob.edits \in {0, tv.heard, tv.missed})

\* In the end the knob shows the volume the TV has, where there is a bus.
KnobSettles == HasBus => <>[](knob.level = tv.level)

\* The panel does not raise itself over a stream on which the volume did not move
\* (native_system_volume_rebaseline), unless a reading from before was still out.
NothingPops ==
    [][panel'.seen # panel.seen /\ panel'.up /\ ~panel.up => panel.changed \/ panel.doubt]_vars

\* The channels' last edit is what a launch would load, if the process lives and
\* the disk takes it in the end.
EditsSaved ==
    <>[](\A p \in Place : disk[p].writable)
        => []<>(Loaded = store.settings \/ store.phase = "off")
=============================================================================
