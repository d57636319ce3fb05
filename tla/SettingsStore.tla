----------------------------- MODULE SettingsStore -----------------------------
(***************************************************************************)
(* Settings on disk (native_config_storage.c, config_paths.c).  There are  *)
(* several places to keep settings.json, in an order of preference; a      *)
(* launch loads the first that holds a whole file, a save goes to the      *)
(* first that can be written, by way of a temporary file.  The settings    *)
(* are the number of the edit they hold, 0 for the defaults.               *)
(*                                                                         *)
(* The process may die between any two steps of a save, and so may the TV: *)
(* what a file holds after a power cut is any of what its place remembers. *)
(* A place is private to the application, and is not lost itself.          *)
(***************************************************************************)
EXTENDS Integers, Sequences

CONSTANT Places     \* the directories, the preferred one first

ASSUME PlacesAssumption == Places \in Seq(STRING) /\ Places # <<>>

VARIABLES
    store,      \* the settings in memory, and where a save is
    disk        \* what each place holds

storeVars == <<store, disk>>

Missing == 0
Torn == -1      \* a file that does not parse

Place == DOMAIN Places

\* saved is history: the newest settings a save was acknowledged for.
StoreTypeOK ==
    /\ store \in [settings: Nat, dirty: BOOLEAN, saved: Nat, place: Place,
                  phase: {"idle", "pick", "write", "rename", "sync", "off"}]
    /\ disk \in [Place -> [file: Nat \cup {Torn}, after: SUBSET (Nat \cup {Torn}),
                           temp: Nat \cup {Torn}, writable: BOOLEAN]]

StoreInit ==
    /\ store = [settings |-> 0, dirty |-> FALSE, saved |-> 0, place |-> 1, phase |-> "idle"]
    /\ disk = [p \in Place |-> [file |-> Missing, after |-> {Missing}, temp |-> Missing,
                                writable |-> TRUE]]

First(S) == CHOOSE p \in S : \A q \in S : p <= q

\* native_config_load_persisted, of what the places hold: a file that is not
\* there or not whole leaves the next place to be tried.
LoadedFrom(files) ==
    LET whole == {p \in Place : files[p] \notin {Missing, Torn}}
    IN  IF whole = {} THEN 0 ELSE files[First(whole)]

Loaded == LoadedFrom([p \in Place |-> disk[p].file])

-----------------------------------------------------------------------------
(* native_config_save_persisted and native_settings_save_file_checked      *)

SaveBegun == store' = [store EXCEPT !.phase = "pick"] /\ UNCHANGED disk

\* A save that does not succeed leaves the settings to be saved again.
SaveFails == [store EXCEPT !.phase = "idle"]

\* The first place that can be written; not one behind the place that a launch
\* would load instead.
\* Mutant: a save goes wherever it can.
SavePickAnywhere ==
    /\ store.phase = "pick"
    /\ LET able == {p \in Place : disk[p].writable}
       IN  store' = IF able = {} THEN SaveFails
                    ELSE [store EXCEPT !.phase = "write", !.place = First(able)]
    /\ UNCHANGED disk

SavePick ==
    /\ store.phase = "pick"
    /\ LET able == {p \in Place : disk[p].writable}
           held == {p \in Place : disk[p].file \notin {Missing, Torn}}
       IN  store' = IF able = {} \/ (held # {} /\ First(held) < First(able)) THEN SaveFails
                    ELSE [store EXCEPT !.phase = "write", !.place = First(able)]
    /\ UNCHANGED disk

\* The temporary file, made anew, written and synced; until it is, it is torn.
SaveWrite ==
    /\ store.phase = "write"
    /\ IF disk[store.place].temp # Torn
       THEN /\ disk' = [disk EXCEPT ![store.place].temp = Torn]
            /\ UNCHANGED store
       ELSE \/ /\ disk[store.place].writable
               /\ disk' = [disk EXCEPT ![store.place].temp = store.settings]
               /\ store' = [store EXCEPT !.phase = "rename"]
            \/ /\ ~disk[store.place].writable
               /\ \E left \in {Missing, Torn} : disk' = [disk EXCEPT ![store.place].temp = left]
               /\ store' = SaveFails

\* Until the directory is synced a power cut may bring either file back.
SaveRename ==
    /\ store.phase = "rename"
    /\ LET p == store.place
           file == disk[p].temp
       IN  \/ /\ disk' = [disk EXCEPT ![p].file = file, ![p].temp = Missing,
                                      ![p].after = @ \cup {file}]
              /\ store' = [store EXCEPT !.phase = "sync"]
           \/ /\ ~disk[p].writable
              /\ store' = SaveFails
              /\ UNCHANGED disk

\* The save is acknowledged once the directory is synced.
SaveSync ==
    /\ store.phase = "sync"
    /\ LET p == store.place
       IN  \/ /\ disk' = [disk EXCEPT ![p].after = {disk[p].file}]
              /\ store' = [store EXCEPT !.phase = "idle", !.dirty = FALSE,
                                        !.saved = store.settings]
           \/ /\ ~disk[p].writable
              /\ store' = SaveFails
              /\ UNCHANGED disk

Saving == SavePick \/ SaveWrite \/ SaveRename \/ SaveSync

-----------------------------------------------------------------------------
(* The process and the TV                                                  *)

Die == store.phase # "off" /\ store' = [store EXCEPT !.phase = "off"] /\ UNCHANGED disk

PowerCut ==
    /\ store' = [store EXCEPT !.phase = "off"]
    /\ \E files \in [Place -> UNION {disk[p].after : p \in Place}] :
         /\ \A p \in Place : files[p] \in disk[p].after
         /\ disk' = [p \in Place |-> [disk[p] EXCEPT !.file = files[p], !.after = {files[p]},
                                                     !.temp = Torn]]

Launch ==
    /\ store.phase = "off"
    /\ store' = [store EXCEPT !.phase = "idle", !.settings = Loaded, !.dirty = FALSE]
    /\ UNCHANGED disk

\* The disk fills up or is mounted read-only, and recovers.
DiskTurns ==
    /\ \E p \in Place : disk' = [disk EXCEPT ![p].writable = ~@]
    /\ UNCHANGED store

\* What is loaded if the process dies, or the TV does, is never older than what a
\* save was acknowledged for.
AcknowledgedSurvives ==
    \A files \in [Place -> UNION {disk[p].after \cup {disk[p].file} : p \in Place}] :
        (\A p \in Place : files[p] \in disk[p].after \cup {disk[p].file})
            => LoadedFrom(files) >= store.saved
=============================================================================
