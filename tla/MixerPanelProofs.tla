--------------------------- MODULE MixerPanelProofs ---------------------------
(***************************************************************************)
(* Theorems about MixerPanel, for any levels, places, scenarios and        *)
(* numbers of edits, mishaps and faults.  What holds of the settings and   *)
(* of the volume client alone comes first, then what the panel that edits  *)
(* both makes of it.                                                       *)
(***************************************************************************)
EXTENDS MixerPanel, FiniteSetTheorems, SequenceTheorems, NaturalsInduction,
        WellFoundedInduction, TLAPS

-----------------------------------------------------------------------------
(***************************************************************************)
(* The settings and the places they are kept in.                           *)
(***************************************************************************)

-----------------------------------------------------------------------------
(* Places and what they hold. *)

PlaceState == [file: Nat \cup {Torn}, after: SUBSET (Nat \cup {Torn}), temp: Nat \cup {Torn},
               writable: BOOLEAN]

StoreState == [settings: Nat, dirty: BOOLEAN, saved: Nat, place: Place,
               phase: {"idle", "pick", "write", "rename", "sync", "off"}]

\* The places are numbered.
LEMMA PlaceNumbers == Place \subseteq Nat
  BY PlacesAssumption DEF Place

\* The places are numbered, so of any of them one is preferred.
LEMMA FirstPlace ==
    ASSUME NEW S \in SUBSET Place, S # {}
    PROVE  First(S) \in S /\ \A q \in S : First(S) <= q
<1>1. S \subseteq Nat
  BY PlaceNumbers
<1>2. PICK p \in S : \A q \in S : ~ (<<q, p>> \in OpToRel(<, Nat))
  BY <1>1, NatLessThanWellFounded, WFMin
<1>3. ASSUME NEW q \in S PROVE p <= q
  <2>1. p \in Nat /\ q \in Nat
    BY <1>1
  <2>2. ~ (q < p)
    BY <1>2, <2>1 DEF OpToRel
  <2> QED BY <2>1, <2>2
<1> QED BY <1>3 DEF First

\* What a launch loads of whole files is the preferred one, and otherwise the defaults.
LEMMA LoadedFromFiles ==
    ASSUME NEW files, \A p \in Place : files[p] \in Nat \cup {Torn}
    PROVE  \/ /\ \A p \in Place : files[p] \in {Missing, Torn}
              /\ LoadedFrom(files) = 0
           \/ \E p \in Place : /\ files[p] \notin {Missing, Torn}
                               /\ \A q \in Place : q < p => files[q] \in {Missing, Torn}
                               /\ LoadedFrom(files) = files[p]
<1> DEFINE whole == {p \in Place : files[p] \notin {Missing, Torn}}
<1>1. CASE whole = {}
  BY <1>1 DEF LoadedFrom
<1>2. CASE whole # {}
  <2>1. First(whole) \in whole /\ \A q \in whole : First(whole) <= q
    BY <1>2, FirstPlace
  <2>2. LoadedFrom(files) = files[First(whole)]
    BY <1>2 DEF LoadedFrom
  <2> DEFINE f == First(whole)
  <2>3. f \in Place /\ files[f] \notin {Missing, Torn}
    BY <2>1
  <2>4. ASSUME NEW q \in Place, q < f PROVE files[q] \in {Missing, Torn}
    <3>1. q \in Nat /\ f \in Nat
      BY <2>3, PlaceNumbers
    <3>2. f <= q \/ q \notin whole
      BY <2>1
    <3>3. q \notin whole
      BY <2>4, <3>1, <3>2
    <3> QED BY <3>3
  <2> HIDE DEF f
  <2> QED BY <2>2, <2>3, <2>4 DEF f
<1> QED BY <1>1, <1>2

-----------------------------------------------------------------------------
(* The inductive invariant. *)

Whole(p) == Missing \notin disk[p].after

\* What a power cut may leave in place of a file is known, is never a torn file, and of a
\* place without a file it is nothing else.
FilesKnown ==
    \A p \in Place : /\ disk[p].file \in disk[p].after /\ disk[p].after \subseteq Nat
                     /\ disk[p].file = Missing => disk[p].after = {Missing}

\* The settings in memory are never behind those a save was acknowledged for, and only
\* edited ones are saved.
SettingsKnown ==
    /\ store.saved <= store.settings
    /\ store.phase \in {"pick", "write", "rename", "sync"} => store.dirty
    /\ store.dirty => store.settings > 0

\* A save goes where no preferred place holds a file, and takes the settings there.
SaveOnItsWay ==
    /\ store.phase \in {"write", "rename", "sync"} =>
          \A q \in Place : q < store.place => disk[q].file = Missing
    /\ store.phase = "rename" => disk[store.place].temp = store.settings
    /\ store.phase = "sync" => disk[store.place].file = store.settings

\* Whatever a power cut leaves: a file that is older than the acknowledged settings is
\* behind a place that has a file all the same, and once something was acknowledged some
\* place has one.
Covered ==
    /\ store.saved > 0 => \E p \in Place : Whole(p)
    /\ \A p \in Place : \A v \in disk[p].after :
          v = Missing \/ v >= store.saved \/ \E q \in Place : q < p /\ Whole(q)

StoreInv == StoreTypeOK /\ FilesKnown /\ SettingsKnown /\ SaveOnItsWay /\ Covered

\* What the parts of the store hold.
LEMMA StoreTypes ==
    ASSUME StoreInv
    PROVE  /\ store \in StoreState /\ disk \in [Place -> PlaceState]
           /\ store.place \in Place /\ store.settings \in Nat /\ store.saved \in Nat
           /\ \A p \in Place : /\ disk[p] \in PlaceState
                               /\ disk[p].after \in SUBSET (Nat \cup {Torn})
                               /\ disk[p].file \in Nat \cup {Torn}
  BY DEF StoreInv, StoreTypeOK, StoreState, PlaceState

\* The first launch finds no file.
LEMMA StoreInitInv == StoreInit => StoreInv
<1> SUFFICES ASSUME StoreInit PROVE StoreInv
  OBVIOUS
<1>1. 1 \in Place
  BY PlacesAssumption DEF Place
<1>2. StoreTypeOK
  BY <1>1 DEF StoreInit, StoreTypeOK, Missing
<1>3. FilesKnown /\ SettingsKnown /\ SaveOnItsWay
  BY DEF StoreInit, FilesKnown, SettingsKnown, SaveOnItsWay, Missing
<1>4. Covered
  BY DEF StoreInit, Covered, Missing
<1> QED BY <1>2, <1>3, <1>4 DEF StoreInv

\* Nothing a place can be left with is older than what was acknowledged.
LEMMA StoreInvSurvives == StoreInv => AcknowledgedSurvives
<1> SUFFICES ASSUME StoreInv,
                    NEW files \in [Place -> UNION {disk[p].after \cup {disk[p].file} : p \in Place}],
                    \A p \in Place : files[p] \in disk[p].after \cup {disk[p].file}
             PROVE  LoadedFrom(files) >= store.saved
  BY DEF AcknowledgedSurvives
<1>1. \A p \in Place : files[p] \in disk[p].after /\ files[p] \in Nat
  BY DEF StoreInv, FilesKnown
<1>2. store.saved \in Nat
  BY StoreTypes
<1>3. CASE \A p \in Place : files[p] \in {Missing, Torn}
  <2>1. \A p \in Place : ~Whole(p)
    BY <1>1, <1>3 DEF Whole, Missing, Torn
  <2>2. store.saved = 0
    BY <1>2, <2>1 DEF StoreInv, Covered
  <2>3. LoadedFrom(files) = 0
    BY <1>1, <1>3, LoadedFromFiles
  <2> QED BY <2>2, <2>3
<1>4. CASE \E p \in Place : files[p] \notin {Missing, Torn}
  <2>1. PICK p \in Place : /\ files[p] \notin {Missing, Torn}
                           /\ \A q \in Place : q < p => files[q] \in {Missing, Torn}
                           /\ LoadedFrom(files) = files[p]
    BY <1>1, <1>4, LoadedFromFiles
  <2>2. \A q \in Place : q < p => ~Whole(q)
    BY <1>1, <2>1 DEF Whole, Missing, Torn
  <2>3. files[p] >= store.saved
    BY <1>1, <2>1, <2>2 DEF StoreInv, Covered
  <2> QED BY <2>1, <2>3
<1> QED BY <1>3, <1>4

-----------------------------------------------------------------------------
(* Each action keeps the invariant. *)

\* A step that changes no file and acknowledges nothing.
LEMMA SameFiles ==
    ASSUME StoreInv, store'.saved = store.saved,
           \A p \in Place : disk'[p].file = disk[p].file /\ disk'[p].after = disk[p].after
    PROVE  FilesKnown' /\ Covered'
<1>1. FilesKnown'
  BY DEF StoreInv, FilesKnown
<1>2. \A p \in Place : Whole(p)' <=> Whole(p)
  BY DEF Whole
<1>3. Covered'
  BY <1>2 DEF StoreInv, Covered
<1> QED BY <1>1, <1>3

\* A save that gives up keeps the settings to be saved.
LEMMA SaveFailsFields ==
    ASSUME StoreInv
    PROVE  /\ SaveFails \in StoreState /\ SaveFails.phase = "idle"
           /\ SaveFails.saved = store.saved /\ SaveFails.settings = store.settings
           /\ SaveFails.dirty = store.dirty /\ SaveFails.place = store.place
  BY StoreTypes DEF SaveFails, StoreState

\* The same of a step whose save fails, whatever it leaves of the temporary file.
LEMMA FailedSaveKeeps ==
    ASSUME StoreInv, store' = SaveFails, disk' \in [Place -> PlaceState],
           \A p \in Place : disk'[p].file = disk[p].file /\ disk'[p].after = disk[p].after
    PROVE  StoreInv'
<1>1. /\ store' \in StoreState /\ store'.phase = "idle" /\ store'.saved = store.saved
      /\ store'.settings = store.settings /\ store'.dirty = store.dirty
  BY SaveFailsFields
<1>2. StoreTypeOK'
  BY <1>1 DEF StoreTypeOK, StoreState, PlaceState
<1>3. FilesKnown' /\ Covered'
  BY <1>1, SameFiles
<1>4. SettingsKnown' /\ SaveOnItsWay'
  BY <1>1 DEF StoreInv, SettingsKnown, SaveOnItsWay
<1> QED BY <1>2, <1>3, <1>4 DEF StoreInv

\* A save begins.
LEMMA SaveBegunKeeps == ASSUME StoreInv, store.dirty, SaveBegun PROVE StoreInv'
<1>1. /\ store' \in StoreState /\ store'.phase = "pick" /\ store'.saved = store.saved
      /\ store'.settings = store.settings /\ store'.dirty = store.dirty /\ disk' = disk
  BY StoreTypes DEF SaveBegun, StoreState
<1>2. StoreTypeOK'
  BY <1>1, StoreTypes DEF StoreTypeOK, StoreState, PlaceState
<1>3. FilesKnown' /\ Covered'
  BY <1>1, SameFiles
<1>4. SettingsKnown' /\ SaveOnItsWay'
  BY <1>1 DEF StoreInv, SettingsKnown, SaveOnItsWay
<1> QED BY <1>2, <1>3, <1>4 DEF StoreInv

\* A place is picked only where no preferred one holds a file.
LEMMA SavePickKeeps == ASSUME StoreInv, SavePick PROVE StoreInv'
<1> USE StoreTypes
<1> DEFINE able == {p \in Place : disk[p].writable}
           held == {p \in Place : disk[p].file \notin {Missing, Torn}}
<1>1. store.phase = "pick" /\ disk' = disk
  BY DEF SavePick
<1>2. CASE able = {} \/ (held # {} /\ First(held) < First(able))
  <2>1. store' = SaveFails
    BY <1>2 DEF SavePick
  <2> QED BY <1>1, <2>1, FailedSaveKeeps
<1>3. CASE ~(able = {} \/ (held # {} /\ First(held) < First(able)))
  <2> DEFINE a == First(able)
  <2>1. store' = [store EXCEPT !.phase = "write", !.place = a]
    BY <1>3 DEF SavePick
  <2>2. a \in Place
    BY <1>3, FirstPlace
  <2>3. ASSUME NEW q \in Place, q < a PROVE disk[q].file = Missing
    <3>1. q \notin held
      <4>1. CASE held = {}
        BY <4>1
      <4>2. CASE held # {}
        <5>1. /\ First(held) \in held /\ \A r \in held : First(held) <= r
          BY <4>2, FirstPlace
        <5>2. q \in Nat /\ a \in Nat /\ First(held) \in Nat /\ ~(First(held) < a)
          BY <1>3, <2>2, <4>2, <5>1, PlaceNumbers
        <5> HIDE DEF held, able, a
        <5> QED BY <2>3, <5>1, <5>2
      <4> QED BY <4>1, <4>2
    <3>2. disk[q].file # Torn
      BY DEF StoreInv, FilesKnown, Torn
    <3> QED BY <3>1, <3>2
  <2> HIDE DEF a
  <2>4. /\ store' \in StoreState /\ store'.phase = "write" /\ store'.saved = store.saved
        /\ store'.settings = store.settings /\ store'.dirty = store.dirty /\ store'.place = a
    BY <2>1, <2>2 DEF StoreState
  <2>5. StoreTypeOK'
    BY <1>1, <2>4 DEF StoreTypeOK, StoreState, PlaceState
  <2>6. FilesKnown' /\ Covered'
    BY <1>1, <2>4, SameFiles
  <2>7. SettingsKnown'
    BY <1>1, <2>4 DEF StoreInv, SettingsKnown
  <2>8. SaveOnItsWay'
    BY <1>1, <2>3, <2>4 DEF SaveOnItsWay
  <2> QED BY <2>5, <2>6, <2>7, <2>8 DEF StoreInv
<1> QED BY <1>2, <1>3

\* The temporary file of a place is not its file.
LEMMA TempFields ==
    ASSUME StoreInv, NEW p \in Place, NEW left \in Nat \cup {Torn},
           disk' = [disk EXCEPT ![p].temp = left]
    PROVE  /\ disk' \in [Place -> PlaceState] /\ disk'[p].temp = left
           /\ \A q \in Place : disk'[q].file = disk[q].file /\ disk'[q].after = disk[q].after
<1> USE StoreTypes
<1> DEFINE e == [disk[p] EXCEPT !.temp = left]
<1>1. e \in PlaceState /\ e.temp = left /\ e.file = disk[p].file /\ e.after = disk[p].after
  BY DEF PlaceState
<1>2. disk' = [disk EXCEPT ![p] = e]
  OBVIOUS
<1> HIDE DEF e
<1> QED BY <1>1, <1>2

\* What is written is beside the file.
LEMMA SaveWriteKeeps == ASSUME StoreInv, SaveWrite PROVE StoreInv'
<1> USE StoreTypes
<1>1. store.phase = "write"
  BY DEF SaveWrite
<1>2. CASE disk[store.place].temp # Torn
  <2>1. disk' = [disk EXCEPT ![store.place].temp = Torn] /\ store' = store
    BY <1>2 DEF SaveWrite
  <2>2. /\ disk' \in [Place -> PlaceState]
        /\ \A q \in Place : disk'[q].file = disk[q].file /\ disk'[q].after = disk[q].after
    BY <2>1, TempFields
  <2>3. StoreTypeOK'
    BY <2>1, <2>2 DEF StoreTypeOK, StoreState, PlaceState
  <2>4. FilesKnown' /\ Covered'
    BY <2>1, <2>2, SameFiles
  <2>5. SettingsKnown' /\ SaveOnItsWay'
    BY <1>1, <2>1, <2>2 DEF StoreInv, SettingsKnown, SaveOnItsWay
  <2> QED BY <2>3, <2>4, <2>5 DEF StoreInv
<1>3. CASE /\ disk' = [disk EXCEPT ![store.place].temp = store.settings]
           /\ store' = [store EXCEPT !.phase = "rename"]
  <2>1. /\ disk' \in [Place -> PlaceState] /\ disk'[store.place].temp = store.settings
        /\ \A q \in Place : disk'[q].file = disk[q].file /\ disk'[q].after = disk[q].after
    BY <1>3, TempFields
  <2>2. /\ store' \in StoreState /\ store'.phase = "rename" /\ store'.saved = store.saved
        /\ store'.settings = store.settings /\ store'.dirty = store.dirty
        /\ store'.place = store.place
    BY <1>3 DEF StoreState
  <2>3. StoreTypeOK'
    BY <2>1, <2>2 DEF StoreTypeOK, StoreState, PlaceState
  <2>4. FilesKnown' /\ Covered'
    BY <2>1, <2>2, SameFiles
  <2>5. SettingsKnown' /\ SaveOnItsWay'
    BY <1>1, <2>1, <2>2 DEF StoreInv, SettingsKnown, SaveOnItsWay
  <2> QED BY <2>3, <2>4, <2>5 DEF StoreInv
<1>4. CASE /\ \E left \in {Missing, Torn} : disk' = [disk EXCEPT ![store.place].temp = left]
           /\ store' = SaveFails
  <2>1. PICK left \in {Missing, Torn} : disk' = [disk EXCEPT ![store.place].temp = left]
    BY <1>4
  <2>2. left \in Nat \cup {Torn}
    BY DEF Missing
  <2>3. /\ disk' \in [Place -> PlaceState]
        /\ \A q \in Place : disk'[q].file = disk[q].file /\ disk'[q].after = disk[q].after
    BY <2>1, <2>2, TempFields
  <2> QED BY <1>4, <2>3, FailedSaveKeeps
<1> QED BY <1>2, <1>3, <1>4 DEF SaveWrite

\* What a rename and a sync make of the entry of a place.
LEMMA EntryFields ==
    ASSUME StoreInv, NEW p \in Place, NEW e \in PlaceState, disk' = [disk EXCEPT ![p] = e]
    PROVE  /\ disk' \in [Place -> PlaceState] /\ disk'[p] = e
           /\ \A q \in Place \ {p} : disk'[q] = disk[q]
  BY StoreTypes

\* The file that was renamed into place is the one that was written, and may come back as
\* what it was.
LEMMA SaveRenameKeeps == ASSUME StoreInv, SaveRename PROVE StoreInv'
<1> USE StoreTypes
<1> DEFINE p == store.place
           e == [disk[p] EXCEPT !.file = disk[p].temp, !.temp = Missing,
                                !.after = @ \cup {disk[p].temp}]
<1>1. /\ store.phase = "rename" /\ disk[p].temp = store.settings /\ store.settings > 0
      /\ store.saved <= store.settings /\ p \in Place
      /\ \A q \in Place : q < p => disk[q].file = Missing
  BY DEF SaveRename, StoreInv, SaveOnItsWay, SettingsKnown
<1>2. CASE /\ disk' = [disk EXCEPT ![p].file = disk[p].temp, ![p].temp = Missing,
                                   ![p].after = @ \cup {disk[p].temp}]
           /\ store' = [store EXCEPT !.phase = "sync"]
  <2>1. /\ e \in PlaceState /\ e.file = store.settings
        /\ e.after = disk[p].after \cup {store.settings}
    <3>1. disk[p].temp \in Nat \cup {Torn} /\ Missing \in Nat \cup {Torn}
      BY <1>1 DEF Missing
    <3>2. disk[p].after \cup {disk[p].temp} \in SUBSET (Nat \cup {Torn})
      BY <3>1
    <3>3. e \in PlaceState
      BY <3>1, <3>2 DEF PlaceState
    <3>4. e.file = disk[p].temp /\ e.after = disk[p].after \cup {disk[p].temp}
      BY DEF PlaceState
    <3> QED BY <1>1, <3>3, <3>4
  <2>0. disk' = [disk EXCEPT ![p] = e]
    BY <1>2
  <2> HIDE DEF e
  <2>2. /\ disk' \in [Place -> PlaceState] /\ disk'[p] = e
        /\ \A q \in Place \ {p} : disk'[q] = disk[q]
    BY <1>1, <2>0, <2>1, EntryFields
  <2>3. /\ store' \in StoreState /\ store'.phase = "sync" /\ store'.saved = store.saved
        /\ store'.settings = store.settings /\ store'.dirty = store.dirty
        /\ store'.place = store.place
    BY <1>2 DEF StoreState
  <2> HIDE DEF p
  <2>4. StoreTypeOK'
    BY <2>2, <2>3 DEF StoreTypeOK, StoreState, PlaceState
  <2>5. FilesKnown'
    BY <1>1, <2>1, <2>2 DEF StoreInv, FilesKnown, Missing
  <2>6. SettingsKnown'
    BY <1>1, <2>3 DEF StoreInv, SettingsKnown
  <2>7. SaveOnItsWay'
    <3>1. store'.place = p /\ disk'[p].file = store.settings
      BY <2>1, <2>2, <2>3 DEF p
    <3>2. \A q \in Place : q < p => q # p /\ disk'[q].file = Missing
      BY <1>1, <2>2, PlaceNumbers
    <3> QED BY <2>3, <3>1, <3>2 DEF SaveOnItsWay
  <2>8. Covered'
    <3>1. \A q \in Place : Whole(q) => Whole(q)'
      BY <1>1, <2>1, <2>2 DEF Whole, Missing
    <3>2. store.saved > 0 => \E q \in Place : Whole(q)'
      BY <3>1 DEF StoreInv, Covered
    <3>3. ASSUME NEW q \in Place, NEW v \in disk'[q].after
          PROVE  v = Missing \/ v >= store.saved \/ \E r \in Place : r < q /\ Whole(r)'
      <4>1. CASE v \in disk[q].after
        BY <3>1, <4>1 DEF StoreInv, Covered
      <4>2. CASE v \notin disk[q].after
        <5>1. v = store.settings
          BY <2>1, <2>2, <3>3, <4>2
        <5> QED BY <1>1, <5>1
      <4> QED BY <4>1, <4>2
    <3> QED BY <2>3, <3>2, <3>3 DEF Covered
  <2> QED BY <2>4, <2>5, <2>6, <2>7, <2>8 DEF StoreInv
<1>3. CASE store' = SaveFails /\ disk' = disk
  BY <1>3, FailedSaveKeeps
<1> QED BY <1>2, <1>3 DEF SaveRename

\* The save that is acknowledged is at the most preferred place that can have a file.
LEMMA SaveSyncKeeps == ASSUME StoreInv, SaveSync PROVE StoreInv'
<1> USE StoreTypes
<1> DEFINE p == store.place
           e == [disk[p] EXCEPT !.after = {disk[p].file}]
<1>1. /\ store.phase = "sync" /\ disk[p].file = store.settings /\ store.settings > 0
      /\ store.saved <= store.settings /\ p \in Place
      /\ \A q \in Place : q < p => disk[q].file = Missing
  BY DEF SaveSync, StoreInv, SaveOnItsWay, SettingsKnown
<1>2. CASE /\ disk' = [disk EXCEPT ![p].after = {disk[p].file}]
           /\ store' = [store EXCEPT !.phase = "idle", !.dirty = FALSE, !.saved = store.settings]
  <2>1. e \in PlaceState /\ e.file = store.settings /\ e.after = {store.settings}
    <3>1. {disk[p].file} \in SUBSET (Nat \cup {Torn})
      BY <1>1
    <3>2. e \in PlaceState
      BY <3>1 DEF PlaceState
    <3>3. e.file = disk[p].file /\ e.after = {disk[p].file}
      BY DEF PlaceState
    <3> QED BY <1>1, <3>2, <3>3
  <2>2. disk' = [disk EXCEPT ![p] = e]
    BY <1>2
  <2> HIDE DEF e
  <2>3. /\ disk' \in [Place -> PlaceState] /\ disk'[p] = e
        /\ \A q \in Place \ {p} : disk'[q] = disk[q]
    BY <1>1, <2>1, <2>2, EntryFields
  <2>4. /\ store' \in StoreState /\ store'.phase = "idle" /\ store'.saved = store.settings
        /\ store'.settings = store.settings /\ store'.dirty = FALSE
    BY <1>2 DEF StoreState
  <2> HIDE DEF p
  <2>5. StoreTypeOK'
    BY <2>3, <2>4 DEF StoreTypeOK, StoreState, PlaceState
  <2>6. FilesKnown'
    BY <1>1, <2>1, <2>3 DEF StoreInv, FilesKnown, Missing
  <2>7. SettingsKnown' /\ SaveOnItsWay'
    BY <2>4 DEF SettingsKnown, SaveOnItsWay
  <2>8. Covered'
    <3>1. Missing \notin disk'[p].after
      BY <1>1, <2>1, <2>3 DEF Missing
    <3>2. ASSUME NEW q \in Place, NEW v \in disk'[q].after
          PROVE  v = Missing \/ v >= store.settings \/ \E r \in Place : r < q /\ Missing \notin disk'[r].after
      <4>1. CASE q < p
        <5>1. disk'[q] = disk[q]
          BY <1>1, <2>3, <4>1, PlaceNumbers
        <5>2. disk[q].after = {Missing}
          BY <1>1, <4>1 DEF StoreInv, FilesKnown
        <5> QED BY <3>2, <5>1, <5>2
      <4>2. CASE q = p
        BY <2>1, <2>3, <3>2, <4>2
      <4>3. CASE p < q
        BY <1>1, <3>1, <4>3
      <4> QED BY <1>1, <4>1, <4>2, <4>3, PlaceNumbers
    <3> QED BY <1>1, <2>4, <3>1, <3>2 DEF Covered, Whole
  <2> QED BY <2>5, <2>6, <2>7, <2>8 DEF StoreInv
<1>3. CASE store' = SaveFails /\ disk' = disk
  BY <1>3, FailedSaveKeeps
<1> QED BY <1>2, <1>3 DEF SaveSync

\* The process dies: what it was about to save is lost with it.
LEMMA DieKeeps == ASSUME StoreInv, Die PROVE StoreInv'
<1>1. /\ store' \in StoreState /\ store'.phase = "off" /\ store'.saved = store.saved
      /\ store'.settings = store.settings /\ store'.dirty = store.dirty /\ disk' = disk
  BY StoreTypes DEF Die, StoreState
<1>2. StoreTypeOK'
  BY <1>1, StoreTypes DEF StoreTypeOK, StoreState, PlaceState
<1>3. FilesKnown' /\ Covered'
  BY <1>1, SameFiles
<1>4. SettingsKnown' /\ SaveOnItsWay'
  BY <1>1 DEF StoreInv, SettingsKnown, SaveOnItsWay
<1> QED BY <1>2, <1>3, <1>4 DEF StoreInv

\* A power cut leaves of each place one of the files it remembers.
LEMMA PowerCutFields ==
    ASSUME StoreInv, PowerCut
    PROVE  /\ disk' \in [Place -> PlaceState]
           /\ \A p \in Place : /\ disk'[p].file \in disk[p].after
                               /\ disk'[p].after = {disk'[p].file}
           /\ store' \in StoreState /\ store'.phase = "off" /\ store'.saved = store.saved
           /\ store'.settings = store.settings /\ store'.dirty = store.dirty
<1> USE StoreTypes
<1>1. PICK files \in [Place -> UNION {disk[p].after : p \in Place}] :
         /\ \A p \in Place : files[p] \in disk[p].after
         /\ disk' = [p \in Place |-> [disk[p] EXCEPT !.file = files[p], !.after = {files[p]},
                                                     !.temp = Torn]]
  BY DEF PowerCut
<1>2. ASSUME NEW p \in Place
      PROVE  /\ disk'[p] \in PlaceState /\ disk'[p].file = files[p]
             /\ disk'[p].after = {files[p]}
  <2>1. disk'[p] = [disk[p] EXCEPT !.file = files[p], !.after = {files[p]}, !.temp = Torn]
    BY <1>1
  <2>2. files[p] \in Nat \cup {Torn} /\ {files[p]} \in SUBSET (Nat \cup {Torn})
    BY <1>1
  <2> QED BY <2>1, <2>2 DEF PlaceState
<1>3. disk' \in [Place -> PlaceState]
  <2>1. disk' = [p \in Place |-> disk'[p]]
    BY <1>1
  <2> QED BY <1>2, <2>1
<1>4. /\ store' \in StoreState /\ store'.phase = "off" /\ store'.saved = store.saved
      /\ store'.settings = store.settings /\ store'.dirty = store.dirty
  BY DEF PowerCut, StoreState
<1> QED BY <1>1, <1>2, <1>3, <1>4

\* So of what a power cut leaves, nothing is older than it might have been.
LEMMA PowerCutKeeps == ASSUME StoreInv, PowerCut PROVE StoreInv'
<1>1. StoreTypeOK'
  BY PowerCutFields DEF StoreTypeOK, StoreState, PlaceState
<1>2. FilesKnown'
  BY PowerCutFields DEF StoreInv, FilesKnown
<1>3. SettingsKnown' /\ SaveOnItsWay'
  BY PowerCutFields DEF StoreInv, SettingsKnown, SaveOnItsWay
<1>4. Covered'
  <2>1. \A p \in Place : Whole(p) => Whole(p)'
    BY PowerCutFields DEF Whole
  <2>2. store'.saved = store.saved /\ \A p \in Place : \A v \in disk'[p].after : v \in disk[p].after
    BY PowerCutFields
  <2> QED BY <2>1, <2>2 DEF StoreInv, Covered
<1> QED BY <1>1, <1>2, <1>3, <1>4 DEF StoreInv

\* What a launch loads is not older than what was acknowledged.
LEMMA LaunchFields ==
    ASSUME StoreInv, Launch
    PROVE  /\ Loaded \in Nat /\ Loaded >= store.saved
           /\ Loaded = 0 \/ \E p \in Place : Loaded \in disk[p].after
           /\ store' \in StoreState /\ store'.phase = "idle" /\ store'.saved = store.saved
           /\ store'.settings = Loaded /\ store'.dirty = FALSE /\ disk' = disk
<1> USE StoreTypes
<1> DEFINE files == [p \in Place |-> disk[p].file]
<1>1. \A p \in Place : files[p] \in disk[p].after /\ files[p] \in Nat
  BY DEF StoreInv, FilesKnown
<1>2. Loaded = LoadedFrom(files)
  BY DEF Loaded
<1>3. Loaded >= store.saved
  <2>1. files \in [Place -> UNION {disk[p].after \cup {disk[p].file} : p \in Place}]
    BY <1>1
  <2>2. AcknowledgedSurvives
    BY StoreInvSurvives
  <2> HIDE DEF files
  <2> QED BY <1>1, <1>2, <2>1, <2>2 DEF AcknowledgedSurvives
<1> HIDE DEF files
<1>4. Loaded = 0 \/ \E p \in Place : Loaded \in disk[p].after
  BY <1>1, <1>2, LoadedFromFiles
<1>5. Loaded \in Nat
  BY <1>4 DEF StoreInv, FilesKnown
<1>6. /\ store' \in StoreState /\ store'.phase = "idle" /\ store'.saved = store.saved
      /\ store'.settings = Loaded /\ store'.dirty = FALSE /\ disk' = disk
  BY <1>5 DEF Launch, StoreState
<1> QED BY <1>3, <1>4, <1>5, <1>6

\* A launch starts from what it loads.
LEMMA LaunchKeeps == ASSUME StoreInv, Launch PROVE StoreInv'
<1>1. StoreTypeOK'
  BY LaunchFields, StoreTypes DEF StoreTypeOK, StoreState, PlaceState
<1>2. FilesKnown' /\ Covered'
  BY LaunchFields, SameFiles
<1>3. SettingsKnown'
  <2>1. store.saved <= Loaded
    BY LaunchFields, StoreTypes
  <2> QED BY <2>1, LaunchFields DEF SettingsKnown
<1>4. SaveOnItsWay'
  BY LaunchFields DEF SaveOnItsWay
<1> QED BY <1>1, <1>2, <1>3, <1>4 DEF StoreInv

\* A disk that fills up or recovers changes no file.
LEMMA DiskTurnsFields ==
    ASSUME StoreInv, DiskTurns
    PROVE  /\ disk' \in [Place -> PlaceState] /\ store' = store
           /\ \A q \in Place : /\ disk'[q].file = disk[q].file
                               /\ disk'[q].after = disk[q].after
                               /\ disk'[q].temp = disk[q].temp
<1> USE StoreTypes
<1>1. PICK p \in Place : disk' = [disk EXCEPT ![p].writable = ~@]
  BY DEF DiskTurns
<1> DEFINE e == [disk[p] EXCEPT !.writable = ~@]
<1>2. /\ e \in PlaceState /\ e.file = disk[p].file /\ e.after = disk[p].after
      /\ e.temp = disk[p].temp
  BY DEF PlaceState
<1>3. disk' = [disk EXCEPT ![p] = e]
  BY <1>1
<1> HIDE DEF e
<1> QED BY <1>2, <1>3 DEF DiskTurns

\* So a disk that turns keeps the invariant.
LEMMA DiskTurnsKeeps == ASSUME StoreInv, DiskTurns PROVE StoreInv'
<1>1. StoreTypeOK'
  BY DiskTurnsFields, StoreTypes DEF StoreTypeOK, StoreState, PlaceState
<1>2. FilesKnown' /\ Covered'
  BY DiskTurnsFields, SameFiles
<1>3. SettingsKnown' /\ SaveOnItsWay'
  BY DiskTurnsFields, StoreTypes DEF StoreInv, SettingsKnown, SaveOnItsWay
<1> QED BY <1>1, <1>2, <1>3 DEF StoreInv

\* An edit while no save is under way.
LEMMA EditKeeps ==
    ASSUME StoreInv, store.phase = "idle", NEW e \in Nat \ {0}, e >= store.settings,
           store' = [store EXCEPT !.settings = e, !.dirty = TRUE], disk' = disk
    PROVE  StoreInv'
<1> USE StoreTypes
<1>1. /\ store' \in StoreState /\ store'.phase = "idle" /\ store'.saved = store.saved
      /\ store'.settings = e /\ store'.dirty = TRUE
  BY DEF StoreState
<1>2. StoreTypeOK'
  BY <1>1 DEF StoreTypeOK, StoreState, PlaceState
<1>3. FilesKnown' /\ Covered'
  BY <1>1, SameFiles
<1>4. SettingsKnown'
  <2>1. store.saved <= store.settings
    BY DEF StoreInv, SettingsKnown
  <2> QED BY <1>1, <2>1 DEF SettingsKnown
<1>5. SaveOnItsWay'
  BY <1>1 DEF SaveOnItsWay
<1> QED BY <1>2, <1>3, <1>4, <1>5 DEF StoreInv

\* What can befall the store, other than an edit.
StoreStep == \/ store.dirty /\ SaveBegun
             \/ Saving \/ Die \/ PowerCut \/ Launch \/ DiskTurns

\* Nothing that befalls the store breaks the invariant.
LEMMA StoreStepKeeps == ASSUME StoreInv, StoreStep PROVE StoreInv'
  BY SaveBegunKeeps, SavePickKeeps, SaveWriteKeeps, SaveRenameKeeps, SaveSyncKeeps, DieKeeps,
     PowerCutKeeps, LaunchKeeps, DiskTurnsKeeps DEF StoreStep, Saving

-----------------------------------------------------------------------------
(* Settings are only ever what some edit made them.                        *)

\* Every setting in memory or on disk is that of one of the first n edits.
EditedBy(n) ==
    /\ store.settings <= n
    /\ \A p \in Place : \A v \in disk[p].after : v <= n

\* No step of the store makes settings of its own.
LEMMA StoreStepEdited ==
    ASSUME StoreInv, StoreStep, NEW n \in Nat, EditedBy(n)
    PROVE  EditedBy(n)'
<1> USE StoreTypes
<1>1. ASSUME store'.settings = store.settings,
             \A p \in Place : \A v \in disk'[p].after : v \in disk[p].after
      PROVE  EditedBy(n)'
  BY <1>1 DEF EditedBy
<1>2. CASE SaveBegun \/ Die
  <2>1. store'.settings = store.settings /\ disk' = disk
    BY <1>2 DEF SaveBegun, Die, StoreState
  <2> QED BY <1>1, <2>1
<1>3. CASE SavePick
  <2>1. disk' = disk
    BY <1>3 DEF SavePick
  <2>2. store'.settings = store.settings
    BY <1>3 DEF SavePick, SaveFails, StoreState
  <2> QED BY <1>1, <2>1, <2>2
<1>4. CASE SaveWrite
  <2>1. store'.settings = store.settings
    BY <1>4 DEF SaveWrite, SaveFails, StoreState
  <2>2. PICK left \in Nat \cup {Torn} : disk' = [disk EXCEPT ![store.place].temp = left]
    BY <1>4 DEF SaveWrite, Missing
  <2>3. \A p \in Place : disk'[p].after = disk[p].after
    BY <2>2, TempFields
  <2> QED BY <1>1, <2>1, <2>3
<1>5. CASE SaveRename
  <2>1. store'.settings = store.settings
    BY <1>5 DEF SaveRename, SaveFails, StoreState
  <2>2. disk[store.place].temp = store.settings
    BY <1>5 DEF SaveRename, StoreInv, SaveOnItsWay
  <2>3. CASE disk' = [disk EXCEPT ![store.place].file = disk[store.place].temp,
                                  ![store.place].temp = Missing,
                                  ![store.place].after = @ \cup {disk[store.place].temp}]
    <3>1. /\ disk'[store.place].after = disk[store.place].after \cup {store.settings}
          /\ \A p \in Place \ {store.place} : disk'[p] = disk[p]
      BY <2>2, <2>3 DEF PlaceState
    <3> QED BY <2>1, <3>1 DEF EditedBy
  <2>4. CASE disk' = disk
    BY <1>1, <2>1, <2>4
  <2> QED BY <1>5, <2>3, <2>4 DEF SaveRename
<1>6. CASE SaveSync
  <2>1. store'.settings = store.settings
    BY <1>6 DEF SaveSync, SaveFails, StoreState
  <2>2. disk[store.place].file \in disk[store.place].after
    BY DEF StoreInv, FilesKnown
  <2>3. CASE disk' = [disk EXCEPT ![store.place].after = {disk[store.place].file}]
    <3>1. /\ disk'[store.place].after = {disk[store.place].file}
          /\ \A p \in Place \ {store.place} : disk'[p] = disk[p]
      BY <2>3 DEF PlaceState
    <3> QED BY <1>1, <2>1, <2>2, <3>1
  <2>4. CASE disk' = disk
    BY <1>1, <2>1, <2>4
  <2> QED BY <1>6, <2>3, <2>4 DEF SaveSync
<1>7. CASE PowerCut
  BY <1>1, <1>7, PowerCutFields
<1>8. CASE Launch
  <2>1. store'.settings <= n
    BY <1>8, LaunchFields DEF EditedBy
  <2> QED BY <1>8, <2>1, LaunchFields DEF EditedBy
<1>9. CASE DiskTurns
  BY <1>1, <1>9, DiskTurnsFields
<1> QED BY <1>2, <1>3, <1>4, <1>5, <1>6, <1>7, <1>8, <1>9 DEF StoreStep, Saving

-----------------------------------------------------------------------------
(***************************************************************************)
(* The volume client and the service it talks to.                          *)
(***************************************************************************)

-----------------------------------------------------------------------------
(* The worlds there may be. *)

Knobs == [level: Levels \cup {Unknown}, desired: Levels \cup {Unknown},
          edits: Nat, news: BOOLEAN, queued: BOOLEAN]

Loops == [set: Nat, get: Nat, late: SUBSET {"set", "get"}, asked: Nat,
          dispatching: BOOLEAN, sources: Seq({"dispatch", "refresh"})]

Buses == [calls: Seq(Call), replies: SUBSET Call, cancelled: SUBSET (Nat \ {NoCall})]

Services == [level: Levels, heard: Nat, missed: Nat, faults: 0..MaxFaults, deaf: BOOLEAN]

Worlds == [knob: Knobs, loop: Loops, bus: Buses, tv: Services]

\* The world is one of them.
LEMMA WorldTyped == LunaTypeOK <=> World \in Worlds
  BY DEF LunaTypeOK, World, Worlds, Knobs, Loops, Buses, Services

\* What waits is finite, so there is a token that nothing has.
LEMMA FreshTokenIsFresh ==
    ASSUME NEW w \in Worlds, IsFiniteSet(w.bus.replies)
    PROVE  /\ FreshToken(w) \in Nat \ {NoCall}
           /\ FreshToken(w) # w.loop.set /\ FreshToken(w) # w.loop.get
           /\ \A c \in Waiting(w) : c.token # FreshToken(w)
<1> DEFINE calls == {w.bus.calls[i] : i \in DOMAIN w.bus.calls}
           tokens == {c.token : c \in Waiting(w)}
           used == tokens \cup {w.loop.set, w.loop.get, NoCall}
<1>1. IsFiniteSet(calls)
  <2>1. w.bus.calls \in Seq(Call)
    BY DEF Worlds, Buses
  <2>2. w.bus.calls \in Surjection(DOMAIN w.bus.calls, calls)
    BY <2>1 DEF Surjection
  <2>3. IsFiniteSet(DOMAIN w.bus.calls)
    BY <2>1, FS_Interval
  <2> HIDE DEF calls
  <2> QED BY <2>2, <2>3, FS_Surjection
<1>2. IsFiniteSet(Waiting(w))
  BY <1>1, FS_Union DEF Waiting
<1>3. IsFiniteSet(tokens)
  <2> DEFINE f == [c \in Waiting(w) |-> c.token]
  <2>1. f \in Surjection(Waiting(w), tokens)
    BY DEF Surjection
  <2> HIDE DEF f, tokens
  <2> QED BY <1>2, <2>1, FS_Surjection
<1>4. IsFiniteSet(used) /\ Cardinality(used) \in Nat
  <2>1. IsFiniteSet({w.loop.set, w.loop.get, NoCall})
    <3>1. IsFiniteSet({w.loop.set}) /\ IsFiniteSet({w.loop.get}) /\ IsFiniteSet({NoCall})
      BY FS_Singleton
    <3>2. IsFiniteSet(({w.loop.set} \cup {w.loop.get}) \cup {NoCall})
      BY <3>1, FS_Union
    <3>3. {w.loop.set, w.loop.get, NoCall} = ({w.loop.set} \cup {w.loop.get}) \cup {NoCall}
      OBVIOUS
    <3> QED BY <3>2, <3>3
  <2> HIDE DEF tokens
  <2>2. IsFiniteSet(used)
    BY <1>3, <2>1, FS_Union
  <2> QED BY <2>2, FS_CardinalityType
<1>5. \E t \in 1..(Cardinality(used) + 1) : t \notin used
  <2> HIDE DEF used
  <2>1. Cardinality(1..(Cardinality(used) + 1)) = Cardinality(used) + 1
    BY <1>4, FS_Interval
  <2>2. 1..(Cardinality(used) + 1) \in SUBSET used => Cardinality(used) + 1 <= Cardinality(used)
    BY <1>4, <2>1, FS_Subset
  <2> QED BY <1>4, <2>2
<1>6. FreshToken(w) \in 1..(Cardinality(used) + 1) /\ FreshToken(w) \notin used
  BY <1>5 DEF FreshToken
<1> QED BY <1>4, <1>6 DEF NoCall

-----------------------------------------------------------------------------
(* What each operation makes of a world. *)

Kinds == {"set", "get"}

\* What the parts of a world hold.
LEMMA WorldFields ==
    ASSUME NEW w \in Worlds
    PROVE  /\ w.knob \in Knobs /\ w.loop \in Loops /\ w.bus \in Buses /\ w.tv \in Services
           /\ w.knob.level \in Levels \cup {Unknown} /\ w.knob.desired \in Levels \cup {Unknown}
           /\ w.knob.edits \in Nat
           /\ w.loop.set \in Nat /\ w.loop.get \in Nat /\ w.loop.asked \in Nat
           /\ w.bus.calls \in Seq(Call) /\ w.bus.replies \in SUBSET Call
           /\ w.tv.level \in Levels /\ w.tv.heard \in Nat /\ w.tv.faults \in 0..MaxFaults
  BY DEF Worlds, Knobs, Loops, Buses, Services

\* A call is queued behind the others under a token of its own.
LEMMA CalledFields ==
    ASSUME NEW w \in Worlds, NEW kind \in Kinds, NEW level \in Levels \cup {Unknown},
           FreshToken(w) \in Nat
    PROVE  LET v == Called(w, kind, level)
               c == [token |-> FreshToken(w), kind |-> kind, level |-> level,
                     edit |-> w.knob.edits]
           IN  /\ v \in Worlds /\ v.knob = w.knob /\ v.tv = w.tv
               /\ c \in Call /\ v.bus.calls = Append(w.bus.calls, c)
               /\ v.bus.replies = w.bus.replies
               /\ v.loop.asked = w.loop.asked
               /\ v.loop[kind] = FreshToken(w)
               /\ kind = "set" => v.loop.get = w.loop.get
               /\ kind = "get" => v.loop.set = w.loop.set
<1> DEFINE t == FreshToken(w)
           c == [token |-> t, kind |-> kind, level |-> level, edit |-> w.knob.edits]
           b == [w.bus EXCEPT !.calls = Append(@, c)]
           l == [w.loop EXCEPT ![kind] = t, !.late = @ \ {kind}]
<1> USE WorldFields
<1>1. c \in Call
  BY DEF Call, Kinds
<1>2. Append(w.bus.calls, c) \in Seq(Call)
  BY <1>1
<1>3. b \in Buses /\ b.calls = Append(w.bus.calls, c) /\ b.replies = w.bus.replies
  <2> HIDE DEF c
  <2> QED BY <1>2 DEF Buses
<1> HIDE DEF c
<1>4. /\ l \in Loops /\ l.asked = w.loop.asked /\ l[kind] = t
      /\ kind = "set" => l.get = w.loop.get
      /\ kind = "get" => l.set = w.loop.set
  BY DEF Loops, Kinds
<1>5. Called(w, kind, level) = [w EXCEPT !.bus = b, !.loop = l]
  BY DEF Called, c
<1> HIDE DEF b, l
<1>6. /\ Called(w, kind, level) \in Worlds /\ Called(w, kind, level).bus = b
      /\ Called(w, kind, level).loop = l /\ Called(w, kind, level).knob = w.knob
      /\ Called(w, kind, level).tv = w.tv
  BY <1>3, <1>4, <1>5 DEF Worlds
<1> QED BY <1>1, <1>3, <1>4, <1>6 DEF c

\* A call that is cancelled is no longer waited for; nothing else changes.
LEMMA CancelledFields ==
    ASSUME NEW w \in Worlds, NEW kind \in Kinds, \A c \in Waiting(w) : c.token # NoCall
    PROVE  LET v == Cancelled(w, kind)
           IN  /\ v \in Worlds /\ v.knob = w.knob /\ v.tv = w.tv
               /\ v.bus.calls = w.bus.calls /\ v.bus.replies = w.bus.replies
               /\ v.loop.asked = w.loop.asked
               /\ v.loop[kind] = NoCall
               /\ kind = "set" => v.loop.get = w.loop.get
               /\ kind = "get" => v.loop.set = w.loop.set
<1> USE WorldFields
<1> DEFINE gone == {w.loop[kind]} \cap {c.token : c \in Waiting(w)}
           b == [w.bus EXCEPT !.cancelled = @ \cup gone]
           l == [w.loop EXCEPT ![kind] = NoCall]
<1>1. gone \in SUBSET (Nat \ {NoCall})
  BY DEF Kinds
<1> HIDE DEF gone
<1>2. b \in Buses /\ b.calls = w.bus.calls /\ b.replies = w.bus.replies
  BY <1>1 DEF Buses
<1>3. /\ l \in Loops /\ l.asked = w.loop.asked /\ l[kind] = NoCall
      /\ kind = "set" => l.get = w.loop.get
      /\ kind = "get" => l.set = w.loop.set
  BY DEF Loops, Kinds, NoCall
<1>4. Cancelled(w, kind) = [w EXCEPT !.bus = b, !.loop = l]
  BY DEF Cancelled, gone
<1> HIDE DEF b, l
<1> QED BY <1>2, <1>3, <1>4 DEF Worlds

-----------------------------------------------------------------------------
(* The invariant of the readings.                                          *)

NoSets(w) == \A i \in DOMAIN w.bus.calls : w.bus.calls[i].kind # "set"

\* The call, or reply, that the callback would take for an answer.
IsReading(w, c) == c.kind = "get" /\ c.token = w.loop.get

\* Nothing of the user's is on its way to the service behind the reading.
ReadingClean(w) ==
    /\ w.knob.desired = Unknown /\ w.loop.set = NoCall
    /\ \A i \in DOMAIN w.bus.calls : IsReading(w, w.bus.calls[i]) =>
          \A j \in DOMAIN w.bus.calls : i < j => w.bus.calls[j].kind # "set"
    /\ \A r \in w.bus.replies : IsReading(w, r) => NoSets(w) /\ r.edit = w.tv.heard

\* A reading that is out was asked for with nothing pending, and with no edit since it
\* nothing is.
ReadingInv(w) ==
    w.loop.get # NoCall => /\ w.loop.asked <= w.knob.edits
                           /\ w.loop.asked = w.knob.edits => ReadingClean(w)

\* What waits was called with a token, and a set with a level.
CallsSound(w) ==
    \A c \in Waiting(w) : c.token # NoCall /\ (c.kind = "set" => c.level \in Levels)

Sound(w) == w \in Worlds /\ IsFiniteSet(w.bus.replies) /\ CallsSound(w) /\ ReadingInv(w)

\* While neither the user nor the remote moves the volume: a reading reports the level
\* there is, and one that was taken is still right.
Settled(w) ==
    /\ w.loop.get # NoCall =>
          /\ w.loop.asked = w.knob.edits
          /\ \A r \in w.bus.replies : IsReading(w, r) => r.level = w.tv.level
    /\ w.knob.news => /\ w.knob.level = w.tv.level /\ w.knob.desired = Unknown
                      /\ NoSets(w)

\* A world in which less is on its way, and the same was heard and edited.
Quieter(w, v) ==
    /\ \/ v.bus.calls = w.bus.calls
       \/ w.bus.calls # <<>> /\ v.bus.calls = Tail(w.bus.calls)
    /\ v.bus.replies \subseteq w.bus.replies
    /\ v.knob.desired \in {w.knob.desired, Unknown} /\ v.knob.edits = w.knob.edits
    /\ v.loop.set \in {w.loop.set, NoCall}
    /\ \/ v.loop.get = NoCall
       \/ v.loop.get = w.loop.get /\ v.loop.asked = w.loop.asked
    /\ v.tv.heard = w.tv.heard

\* The calls of such a world are calls of the other, in the same order.
LEMMA QuieterCalls ==
    ASSUME NEW w \in Worlds, NEW v \in Worlds, Quieter(w, v)
    PROVE  \E k \in {0, 1} : \A i \in DOMAIN v.bus.calls :
              /\ i \in Nat /\ i + k \in DOMAIN w.bus.calls
              /\ v.bus.calls[i] = w.bus.calls[i + k]
<1> USE WorldFields
<1>1. CASE v.bus.calls = w.bus.calls
  <2>1. \A i \in DOMAIN v.bus.calls : i \in Nat /\ i + 0 = i
    OBVIOUS
  <2> QED BY <1>1, <2>1
<1>2. CASE w.bus.calls # <<>> /\ v.bus.calls = Tail(w.bus.calls)
  <2> DEFINE s == w.bus.calls
  <2>1. s \in Seq(Call) /\ s # <<>> /\ v.bus.calls = Tail(s)
    BY <1>2
  <2> HIDE DEF s
  <2>2. \A i \in DOMAIN Tail(s) : i \in Nat /\ i + 1 \in DOMAIN s /\ Tail(s)[i] = s[i + 1]
    BY <2>1
  <2> QED BY <2>1, <2>2 DEF s
<1> QED BY <1>1, <1>2 DEF Quieter

\* With less on its way, what is known of the readings still holds.
LEMMA QuieterSound ==
    ASSUME NEW w, Sound(w), NEW v \in Worlds, Quieter(w, v)
    PROVE  /\ Sound(v)
           /\ NoSets(w) => NoSets(v)
           /\ Settled(w) /\ v.tv.level = w.tv.level /\ v.knob.level = w.knob.level
                 /\ (v.knob.news => w.knob.news) => Settled(v)
<1>1. w \in Worlds
  BY DEF Sound
<1>2. PICK k \in {0, 1} : \A i \in DOMAIN v.bus.calls :
              /\ i \in Nat /\ i + k \in DOMAIN w.bus.calls
              /\ v.bus.calls[i] = w.bus.calls[i + k]
  BY <1>1, QuieterCalls
<1>3. NoSets(w) => NoSets(v)
  BY <1>2 DEF NoSets
<1>4. Waiting(v) \subseteq Waiting(w)
  BY <1>2 DEF Waiting, Quieter
<1>5. IsFiniteSet(v.bus.replies)
  BY FS_Subset DEF Sound, Quieter
<1>6. CallsSound(v)
  BY <1>4 DEF CallsSound, Sound
<1>7. ASSUME v.loop.get # NoCall
      PROVE  /\ v.loop.get = w.loop.get /\ v.loop.asked = w.loop.asked
             /\ v.knob.edits = w.knob.edits
             /\ w.loop.asked <= w.knob.edits
             /\ \A c : IsReading(v, c) <=> IsReading(w, c)
  BY <1>7 DEF Quieter, Sound, ReadingInv, IsReading
<1>8. ASSUME v.loop.get # NoCall, v.loop.asked = v.knob.edits
      PROVE  ReadingClean(v)
  <2>1. ReadingClean(w)
    BY <1>7, <1>8 DEF Sound, ReadingInv
  <2>2. v.knob.desired = Unknown /\ v.loop.set = NoCall
    BY <2>1 DEF ReadingClean, Quieter
  <2>3. ASSUME NEW i \in DOMAIN v.bus.calls, IsReading(v, v.bus.calls[i]),
               NEW j \in DOMAIN v.bus.calls, i < j
        PROVE  v.bus.calls[j].kind # "set"
    <3>1. i + k < j + k /\ IsReading(w, w.bus.calls[i + k])
      BY <1>2, <1>7, <1>8, <2>3
    <3> QED BY <1>2, <2>1, <2>3, <3>1 DEF ReadingClean
  <2>4. ASSUME NEW r \in v.bus.replies, IsReading(v, r)
        PROVE  NoSets(v) /\ r.edit = v.tv.heard
    BY <1>3, <1>7, <1>8, <2>1, <2>4 DEF ReadingClean, Quieter
  <2> QED BY <2>2, <2>3, <2>4 DEF ReadingClean
<1>9. ReadingInv(v)
  BY <1>7, <1>8 DEF ReadingInv
<1>10. Settled(w) /\ v.tv.level = w.tv.level /\ v.knob.level = w.knob.level
          /\ (v.knob.news => w.knob.news) => Settled(v)
  BY <1>3, <1>7 DEF Settled, Quieter
<1> QED BY <1>3, <1>5, <1>6, <1>9, <1>10 DEF Sound

\* What waits after a call: what waited, and the call.
LEMMA AppendedCalls ==
    ASSUME NEW w \in Worlds, NEW v \in Worlds, NEW c \in Call,
           v.bus.calls = Append(w.bus.calls, c), v.bus.replies = w.bus.replies
    PROVE  /\ Waiting(v) = Waiting(w) \cup {c}
           /\ DOMAIN v.bus.calls = DOMAIN w.bus.calls \cup {Len(w.bus.calls) + 1}
           /\ v.bus.calls[Len(w.bus.calls) + 1] = c
           /\ \A i \in DOMAIN w.bus.calls : /\ v.bus.calls[i] = w.bus.calls[i]
                                            /\ i \in Nat /\ i <= Len(w.bus.calls)
           /\ Len(w.bus.calls) \in Nat
<1> USE WorldFields
<1> DEFINE s == w.bus.calls
<1>1. s \in Seq(Call) /\ v.bus.calls = Append(s, c)
  OBVIOUS
<1> HIDE DEF s
<1>2. /\ DOMAIN Append(s, c) = DOMAIN s \cup {Len(s) + 1}
      /\ Append(s, c)[Len(s) + 1] = c
      /\ \A i \in DOMAIN s : Append(s, c)[i] = s[i] /\ i \in Nat /\ i <= Len(s)
      /\ Len(s) \in Nat
  BY <1>1
<1>3. Waiting(v) = Waiting(w) \cup {c}
  BY <1>1, <1>2 DEF Waiting, s
<1> QED BY <1>1, <1>2, <1>3 DEF s

\* The newest level is called for once, while no reading that counts is out.
LEMMA SetCallSound ==
    ASSUME NEW w, Sound(w), w.knob.desired # Unknown, NEW u \in Worlds,
           u.knob.desired = Unknown, u.knob.edits = w.knob.edits, u.knob.news = w.knob.news,
           u.loop = w.loop, u.bus = w.bus, u.tv = w.tv
    PROVE  /\ Sound(Called(u, "set", w.knob.desired))
           /\ Settled(w) => Settled(Called(u, "set", w.knob.desired))
           /\ Called(u, "set", w.knob.desired).knob = u.knob
<1> DEFINE t == FreshToken(u)
           v == Called(u, "set", w.knob.desired)
           c == [token |-> t, kind |-> "set", level |-> w.knob.desired, edit |-> u.knob.edits]
<1>1. w \in Worlds /\ w.knob.desired \in Levels
  BY WorldFields DEF Sound
<1>2. t \in Nat \ {NoCall}
  BY FreshTokenIsFresh DEF Sound
<1>3. /\ v \in Worlds /\ v.knob = u.knob /\ v.tv = u.tv
      /\ c \in Call /\ v.bus.calls = Append(u.bus.calls, c)
      /\ v.bus.replies = u.bus.replies
      /\ v.loop.asked = u.loop.asked /\ v.loop.get = u.loop.get
  BY <1>1, <1>2, CalledFields DEF Kinds
<1>4. c.token # NoCall /\ c.level \in Levels
  BY <1>1, <1>2
<1> HIDE DEF v, c
<1>5. Waiting(v) = Waiting(w) \cup {c}
  <2>1. Waiting(v) = Waiting(u) \cup {c}
    BY <1>3, AppendedCalls
  <2> QED BY <2>1 DEF Waiting
<1>6. CallsSound(v)
  BY <1>4, <1>5 DEF CallsSound, Sound
<1>7. w.loop.get # NoCall => w.loop.asked <= w.knob.edits /\ w.loop.asked # w.knob.edits
  BY DEF Sound, ReadingInv, ReadingClean
<1>8. Sound(v)
  BY <1>3, <1>6, <1>7 DEF Sound, ReadingInv
<1>9. Settled(w) => Settled(v)
  BY <1>3, <1>7 DEF Settled
<1> QED BY <1>3, <1>8, <1>9 DEF v

\* Sending the newest level.
LEMMA SentSound ==
    ASSUME NEW w, Sound(w), NEW v \in Sent(w)
    PROVE  /\ Sound(v) /\ v.knob.level = w.knob.level /\ v.knob.edits = w.knob.edits
           /\ w.knob.news => v.knob.news
           /\ Settled(w) => Settled(v)
           /\ v.knob.desired = Unknown
<1> DEFINE taken == [w EXCEPT !.knob.desired = Unknown]
           refused == [taken EXCEPT !.tv.faults = @ + 1, !.tv.missed = w.knob.edits]
<1> USE WorldFields
<1>1. w \in Worlds
  BY DEF Sound
<1>2. CASE w.knob.desired = Unknown
  BY <1>2 DEF Sent
<1>3. CASE w.knob.desired # Unknown
  <2>1. /\ taken \in Worlds /\ taken.loop = w.loop /\ taken.bus = w.bus /\ taken.tv = w.tv
        /\ taken.knob.desired = Unknown /\ taken.knob.edits = w.knob.edits
        /\ taken.knob.level = w.knob.level /\ taken.knob.news = w.knob.news
    <3> DEFINE k == [w.knob EXCEPT !.desired = Unknown]
    <3>1. /\ k \in Knobs /\ k.desired = Unknown /\ k.edits = w.knob.edits
          /\ k.level = w.knob.level /\ k.news = w.knob.news
      BY <1>1 DEF Knobs
    <3>2. taken = [w EXCEPT !.knob = k]
      BY <1>1
    <3> HIDE DEF k, taken
    <3> QED BY <1>1, <3>1, <3>2 DEF Worlds
  <2> HIDE DEF taken
  <2>2. CASE v = Called(taken, "set", w.knob.desired)
    BY <1>3, <2>1, <2>2, SetCallSound
  <2>3. CASE w.tv.faults < MaxFaults /\ v = refused
    <3>1. /\ refused \in Worlds /\ refused.loop = w.loop /\ refused.bus = w.bus
          /\ refused.knob = taken.knob /\ refused.tv.heard = w.tv.heard
          /\ refused.tv.level = w.tv.level
      <4> DEFINE s == [w.tv EXCEPT !.faults = @ + 1, !.missed = w.knob.edits]
      <4>1. w.tv.faults + 1 \in 0..MaxFaults
        BY <1>1, <2>3, MaxFaultsAssumption
      <4>2. s \in Services /\ s.heard = w.tv.heard /\ s.level = w.tv.level
        BY <1>1, <4>1 DEF Services
      <4>3. refused = [taken EXCEPT !.tv = s]
        BY <2>1
      <4> HIDE DEF s, refused
      <4> QED BY <2>1, <4>2, <4>3 DEF Worlds
    <3> HIDE DEF refused
    <3>2. Quieter(w, v)
      BY <2>1, <2>3, <3>1 DEF Quieter
    <3> QED BY <2>1, <2>3, <3>1, <3>2, QuieterSound
  <2> QED BY <1>3, <2>2, <2>3 DEF Sent, taken
<1> QED BY <1>2, <1>3

\* An edit outdates every reading that is out.
LEMMA EditedSound ==
    ASSUME NEW w, Sound(w), NEW level \in Levels
    PROVE  /\ Sound(Edited(w, level))
           /\ Edited(w, level).knob.edits = w.knob.edits + 1 /\ w.knob.edits \in Nat
<1> DEFINE k == [w.knob EXCEPT !.level = level, !.desired = level, !.edits = @ + 1]
           v == Edited(w, level)
<1> USE WorldFields
<1>1. w \in Worlds
  BY DEF Sound
<1>2. w.knob.edits + 1 \in Nat
  BY <1>1
<1>3. k \in Knobs /\ k.edits = w.knob.edits + 1
  BY <1>1, <1>2 DEF Knobs
<1>4. v = [w EXCEPT !.knob = k]
  BY <1>1 DEF Edited
<1> HIDE DEF k, v
<1>5. /\ v \in Worlds /\ v.knob.edits = w.knob.edits + 1
      /\ v.loop = w.loop /\ v.bus = w.bus /\ v.tv = w.tv
  BY <1>1, <1>3, <1>4 DEF Worlds
<1>6. CallsSound(v)
  BY <1>5 DEF Sound, CallsSound, Waiting
<1>7. ASSUME v.loop.get # NoCall
      PROVE  v.loop.asked <= v.knob.edits /\ v.loop.asked # v.knob.edits
  <2>1. w.loop.asked <= w.knob.edits
    BY <1>5, <1>7 DEF Sound, ReadingInv
  <2>2. w.loop.asked \in Nat /\ w.knob.edits \in Nat
    BY <1>1
  <2> QED BY <1>5, <2>1, <2>2
<1>8. Sound(v)
  BY <1>5, <1>6, <1>7 DEF Sound, ReadingInv
<1> QED BY <1>1, <1>5, <1>8 DEF v

\* Sources that are queued or taken change no reading.
Alike(w, v) ==
    /\ v.knob.level = w.knob.level /\ v.knob.desired = w.knob.desired
    /\ v.knob.edits = w.knob.edits /\ (v.knob.news <=> w.knob.news)
    /\ v.loop.set = w.loop.set /\ v.loop.get = w.loop.get /\ v.loop.asked = w.loop.asked
    /\ v.bus = w.bus /\ v.tv = w.tv

\* So what is known of the readings is known of the one world as of the other.
LEMMA AlikeSound ==
    ASSUME NEW w, Sound(w), NEW v \in Worlds, Alike(w, v)
    PROVE  /\ Sound(v) /\ v.knob.level = w.knob.level /\ v.knob.edits = w.knob.edits
           /\ w.knob.news => v.knob.news
           /\ Settled(w) => Settled(v)
<1>1. Quieter(w, v)
  BY DEF Quieter, Alike
<1>2. /\ v.tv.level = w.tv.level /\ v.knob.level = w.knob.level
      /\ v.knob.news => w.knob.news
  BY DEF Alike
<1>3. Sound(v) /\ (Settled(w) => Settled(v))
  BY <1>1, <1>2, QuieterSound
<1> QED BY <1>3 DEF Alike

\* The loop thread is told of an edit, or was.
LEMMA InvokedSound ==
    ASSUME NEW w, Sound(w)
    PROVE  LET v == Invoked(w)
           IN  /\ Sound(v) /\ v.knob.level = w.knob.level /\ v.knob.edits = w.knob.edits
               /\ w.knob.news => v.knob.news
               /\ Settled(w) => Settled(v)
<1>1. w \in Worlds /\ w.loop \in Loops /\ w.knob \in Knobs
  BY WorldFields DEF Sound
<1>2. CASE w.knob.queued
  BY <1>2 DEF Invoked
<1>3. CASE ~w.knob.queued
  <2> DEFINE q == Append(w.loop.sources, "dispatch")
             k == [w.knob EXCEPT !.queued = TRUE]
             l == [w.loop EXCEPT !.sources = q]
             v == Invoked(w)
  <2>1. q \in Seq({"dispatch", "refresh"})
    BY <1>1 DEF Loops
  <2>2. v = [w EXCEPT !.knob = k, !.loop = l]
    BY <1>1, <1>3 DEF Invoked
  <2> HIDE DEF q, v
  <2>3. /\ k \in Knobs /\ k.level = w.knob.level /\ k.desired = w.knob.desired
        /\ k.edits = w.knob.edits /\ (k.news <=> w.knob.news)
    BY <1>1 DEF Knobs
  <2>4. l \in Loops /\ l.set = w.loop.set /\ l.get = w.loop.get /\ l.asked = w.loop.asked
    BY <1>1, <2>1 DEF Loops
  <2> HIDE DEF k, l
  <2>5. v \in Worlds /\ v.knob = k /\ v.loop = l /\ v.bus = w.bus /\ v.tv = w.tv
    BY <1>1, <2>2, <2>3, <2>4 DEF Worlds
  <2>6. Alike(w, v)
    BY <2>3, <2>4, <2>5 DEF Alike
  <2> QED BY <2>5, <2>6, AlikeSound DEF v
<1> QED BY <1>2, <1>3

\* Sources that change while the flag of the edits does not.
LEMMA SourcesSound ==
    ASSUME NEW w, Sound(w), NEW l \in Loops,
           l.set = w.loop.set, l.get = w.loop.get, l.asked = w.loop.asked
    PROVE  LET v == [w EXCEPT !.loop = l]
           IN  /\ Sound(v) /\ v.knob.level = w.knob.level /\ v.knob.edits = w.knob.edits
               /\ w.knob.news => v.knob.news
               /\ Settled(w) => Settled(v)
<1> DEFINE v == [w EXCEPT !.loop = l]
<1>1. v \in Worlds /\ v.knob = w.knob /\ v.loop = l /\ v.bus = w.bus /\ v.tv = w.tv
  BY DEF Worlds, Sound
<1> HIDE DEF v
<1>2. Alike(w, v)
  BY <1>1 DEF Alike
<1> QED BY <1>1, <1>2, AlikeSound DEF v

\* The loop thread is asked to ask, or was.
LEMMA RefreshedSound ==
    ASSUME NEW w, Sound(w)
    PROVE  LET v == Refreshed(w)
           IN  /\ Sound(v) /\ v.knob.level = w.knob.level /\ v.knob.edits = w.knob.edits
               /\ w.knob.news => v.knob.news
               /\ Settled(w) => Settled(v)
<1>1. w \in Worlds /\ w.loop \in Loops
  BY WorldFields DEF Sound
<1>2. CASE "refresh" \in Range(w.loop.sources)
  BY <1>2 DEF Refreshed
<1>3. CASE "refresh" \notin Range(w.loop.sources)
  <2> DEFINE q == Append(w.loop.sources, "refresh")
             l == [w.loop EXCEPT !.sources = q]
  <2>1. q \in Seq({"dispatch", "refresh"})
    BY <1>1 DEF Loops
  <2>2. Refreshed(w) = [w EXCEPT !.loop = l]
    BY <1>1, <1>3 DEF Refreshed
  <2> HIDE DEF q
  <2>3. l \in Loops /\ l.set = w.loop.set /\ l.get = w.loop.get /\ l.asked = w.loop.asked
    BY <1>1, <2>1 DEF Loops
  <2> HIDE DEF l
  <2> QED BY <2>2, <2>3, SourcesSound
<1> QED BY <1>2, <1>3

\* A call is cancelled.
LEMMA CancelledSound ==
    ASSUME NEW w, Sound(w), NEW kind \in Kinds
    PROVE  LET v == Cancelled(w, kind)
           IN  /\ Sound(v) /\ v.knob = w.knob /\ v.loop[kind] = NoCall
               /\ kind = "get" => v.loop.set = w.loop.set
               /\ Settled(w) => Settled(v)
<1> DEFINE v == Cancelled(w, kind)
<1>1. w \in Worlds /\ \A c \in Waiting(w) : c.token # NoCall
  BY DEF Sound, CallsSound
<1>2. /\ v \in Worlds /\ v.knob = w.knob /\ v.tv = w.tv
      /\ v.bus.calls = w.bus.calls /\ v.bus.replies = w.bus.replies
      /\ v.loop.asked = w.loop.asked
      /\ v.loop[kind] = NoCall
      /\ kind = "set" => v.loop.get = w.loop.get
      /\ kind = "get" => v.loop.set = w.loop.set
  BY <1>1, CancelledFields
<1> HIDE DEF v
<1>3. Quieter(w, v)
  BY <1>2 DEF Quieter, Kinds
<1>4. Sound(v) /\ (Settled(w) => Settled(v))
  BY <1>2, <1>3, QuieterSound
<1> QED BY <1>2, <1>4 DEF v

\* A poll's first half: the stalled set is cancelled and what waits is sent.
LEMMA RecoveredSound ==
    ASSUME NEW w, Sound(w), NEW v \in Recovered(w)
    PROVE  /\ Sound(v) /\ v.knob.level = w.knob.level /\ v.knob.edits = w.knob.edits
           /\ w.knob.news => v.knob.news
           /\ Settled(w) => Settled(v)
<1> DEFINE free == IF w.loop.set # NoCall /\ "set" \in w.loop.late THEN Cancelled(w, "set")
                   ELSE w
<1>1. Sound(free) /\ free.knob = w.knob /\ (Settled(w) => Settled(free))
  <2>1. "set" \in Kinds
    BY DEF Kinds
  <2>2. Sound(Cancelled(w, "set")) /\ Cancelled(w, "set").knob = w.knob
        /\ (Settled(w) => Settled(Cancelled(w, "set")))
    BY <2>1, CancelledSound
  <2> QED BY <2>2
<1>2. v \in Sent(free) \/ v = free
  BY DEF Recovered
<1> HIDE DEF free
<1>3. CASE v \in Sent(free)
  <2>1. /\ Sound(v) /\ v.knob.level = free.knob.level /\ v.knob.edits = free.knob.edits
        /\ free.knob.news => v.knob.news
        /\ Settled(free) => Settled(v)
    BY <1>1, <1>3, SentSound
  <2> QED BY <1>1, <2>1
<1>4. CASE v = free
  BY <1>1, <1>4
<1> QED BY <1>2, <1>3, <1>4

\* A reading is asked for behind everything that is on its way, with nothing pending.
LEMMA GetCallSound ==
    ASSUME NEW u, Sound(u), u.knob.desired = Unknown, u.loop.set = NoCall, u.loop.get = NoCall
    PROVE  LET v == [Called(u, "get", Unknown) EXCEPT !.loop.asked = u.knob.edits]
           IN  /\ Sound(v) /\ v.knob = u.knob
               /\ Settled(u) => Settled(v)
<1> DEFINE t == FreshToken(u)
           c == [token |-> t, kind |-> "get", level |-> Unknown, edit |-> u.knob.edits]
           x == Called(u, "get", Unknown)
           v == [x EXCEPT !.loop.asked = u.knob.edits]
           l == [x.loop EXCEPT !.asked = u.knob.edits]
<1>1. u \in Worlds /\ u.knob.edits \in Nat /\ "get" \in Kinds /\ Unknown \in Levels \cup {Unknown}
  BY WorldFields DEF Sound, Kinds
<1>2. /\ t \in Nat \ {NoCall}
      /\ \A d \in Waiting(u) : d.token # t
  BY FreshTokenIsFresh DEF Sound
<1>3. /\ x \in Worlds /\ x.knob = u.knob /\ x.tv = u.tv
      /\ c \in Call /\ x.bus.calls = Append(u.bus.calls, c)
      /\ x.bus.replies = u.bus.replies
      /\ x.loop["get"] = t /\ x.loop.set = u.loop.set
  BY <1>1, <1>2, CalledFields
<1> HIDE DEF t
<1>4. c.token = t /\ c.kind = "get"
  OBVIOUS
<1> HIDE DEF c, x
<1>5. x.loop \in Loops
  BY <1>3, WorldFields
<1>6. l \in Loops /\ l.asked = u.knob.edits /\ l.get = t /\ l.set = NoCall
  BY <1>1, <1>3, <1>5 DEF Loops
<1>7. v = [x EXCEPT !.loop = l]
  BY <1>3
<1> HIDE DEF l, v
<1>8. /\ v \in Worlds /\ v.knob = u.knob /\ v.tv = u.tv /\ v.loop = l
      /\ v.bus.calls = Append(u.bus.calls, c) /\ v.bus.replies = u.bus.replies
  BY <1>3, <1>6, <1>7 DEF Worlds
<1>9. /\ Waiting(v) = Waiting(u) \cup {c}
      /\ DOMAIN v.bus.calls = DOMAIN u.bus.calls \cup {Len(u.bus.calls) + 1}
      /\ v.bus.calls[Len(u.bus.calls) + 1] = c
      /\ \A i \in DOMAIN u.bus.calls : /\ v.bus.calls[i] = u.bus.calls[i]
                                       /\ i \in Nat /\ i <= Len(u.bus.calls)
      /\ Len(u.bus.calls) \in Nat
  BY <1>1, <1>3, <1>8, AppendedCalls
<1>10. CallsSound(v)
  BY <1>2, <1>4, <1>9 DEF CallsSound, Sound
<1>11. \A r \in v.bus.replies : ~IsReading(v, r)
  BY <1>2, <1>6, <1>8 DEF IsReading, Waiting
<1>12. ASSUME NEW i \in DOMAIN v.bus.calls, IsReading(v, v.bus.calls[i])
       PROVE  i = Len(u.bus.calls) + 1
  <2>1. v.bus.calls[i].token = t
    BY <1>6, <1>8, <1>12 DEF IsReading
  <2>2. i \notin DOMAIN u.bus.calls
    BY <1>2, <1>9, <2>1 DEF Waiting
  <2> QED BY <1>9, <2>2
<1>13. ReadingClean(v)
  <2>1. v.knob.desired = Unknown /\ v.loop.set = NoCall
    BY <1>6, <1>8
  <2>2. ASSUME NEW i \in DOMAIN v.bus.calls, IsReading(v, v.bus.calls[i]),
               NEW j \in DOMAIN v.bus.calls, i < j
        PROVE  v.bus.calls[j].kind # "set"
    BY <1>9, <1>12, <2>2
  <2> QED BY <1>11, <2>1, <2>2 DEF ReadingClean
<1>14. Sound(v)
  BY <1>1, <1>6, <1>8, <1>10, <1>13 DEF Sound, ReadingInv
<1>15. NoSets(u) => NoSets(v)
  BY <1>4, <1>9 DEF NoSets
<1>16. Settled(u) => Settled(v)
  BY <1>6, <1>8, <1>11, <1>15 DEF Settled
<1> QED BY <1>8, <1>14, <1>16 DEF v, x

\* A poll's second half.
LEMMA AskSound ==
    ASSUME NEW w, Sound(w)
    PROVE  LET v == Ask(w)
           IN  /\ Sound(v) /\ v.knob = w.knob
               /\ Settled(w) => Settled(v)
<1> DEFINE free == IF w.loop.get = NoCall THEN w ELSE Cancelled(w, "get")
           v == [Called(free, "get", Unknown) EXCEPT !.loop.asked = free.knob.edits]
<1>1. CASE \/ w.loop.set # NoCall \/ w.knob.desired # Unknown
           \/ w.loop.get # NoCall /\ "get" \notin w.loop.late
  BY <1>1 DEF Ask
<1>2. CASE ~(\/ w.loop.set # NoCall \/ w.knob.desired # Unknown
             \/ w.loop.get # NoCall /\ "get" \notin w.loop.late)
  <2>1. /\ Sound(free) /\ free.knob = w.knob /\ free.loop.get = NoCall
        /\ free.loop.set = w.loop.set
        /\ Settled(w) => Settled(free)
    <3>1. LET c == Cancelled(w, "get")
          IN  /\ Sound(c) /\ c.knob = w.knob /\ c.loop["get"] = NoCall
              /\ c.loop.set = w.loop.set
              /\ Settled(w) => Settled(c)
      BY CancelledSound DEF Kinds
    <3> QED BY <3>1
  <2>2. Ask(w) = v
    BY <1>2, <2>1 DEF Ask
  <2> HIDE DEF free
  <2>3. Sound(v) /\ v.knob = free.knob /\ (Settled(free) => Settled(v))
    BY <1>2, <2>1, GetCallSound
  <2> HIDE DEF v
  <2> QED BY <2>1, <2>2, <2>3
<1> QED BY <1>1, <1>2

\* A reply that comes in is no longer on its way.
Arrived(w, c) == [w EXCEPT !.bus.replies = @ \ {c}, !.bus.cancelled = @ \ {c.token}]

\* With it gone, what is known of the readings still holds.
LEMMA ArrivedSound ==
    ASSUME NEW w, Sound(w), NEW c \in w.bus.replies
    PROVE  LET u == Arrived(w, c)
           IN  /\ Sound(u) /\ u.knob = w.knob /\ u.loop = w.loop /\ u.tv = w.tv
               /\ NoSets(w) => NoSets(u)
               /\ Settled(w) => Settled(u)
<1> DEFINE b == [w.bus EXCEPT !.replies = @ \ {c}, !.cancelled = @ \ {c.token}]
           u == Arrived(w, c)
<1>1. w \in Worlds /\ w.bus \in Buses
  BY WorldFields DEF Sound
<1>2. b \in Buses /\ b.calls = w.bus.calls /\ b.replies \subseteq w.bus.replies
  BY <1>1 DEF Buses
<1>3. u = [w EXCEPT !.bus = b]
  BY <1>1 DEF Arrived
<1> HIDE DEF b, u
<1>4. u \in Worlds /\ u.knob = w.knob /\ u.loop = w.loop /\ u.tv = w.tv /\ u.bus = b
  BY <1>1, <1>2, <1>3 DEF Worlds
<1>5. Quieter(w, u)
  BY <1>2, <1>4 DEF Quieter
<1>6. Sound(u) /\ (NoSets(w) => NoSets(u)) /\ (Settled(w) => Settled(u))
  BY <1>4, <1>5, QuieterSound
<1> QED BY <1>4, <1>6 DEF u

\* A call of a kind is answered.
LEMMA AnsweredSound ==
    ASSUME NEW w, Sound(w), NEW l \in Loops,
           \/ l.set = NoCall /\ l.get = w.loop.get /\ l.asked = w.loop.asked
           \/ l.set = w.loop.set /\ l.get = NoCall
    PROVE  LET v == [w EXCEPT !.loop = l]
           IN  /\ Sound(v) /\ v.knob = w.knob /\ v.bus = w.bus /\ v.tv = w.tv /\ v.loop = l
               /\ Settled(w) => Settled(v)
<1> DEFINE v == [w EXCEPT !.loop = l]
<1>1. v \in Worlds /\ v.knob = w.knob /\ v.bus = w.bus /\ v.tv = w.tv /\ v.loop = l
  BY DEF Sound, Worlds
<1> HIDE DEF v
<1>2. Quieter(w, v)
  BY <1>1 DEF Quieter
<1>3. Sound(v) /\ (Settled(w) => Settled(v))
  BY <1>1, <1>2, QuieterSound
<1> QED BY <1>1, <1>3 DEF v

\* A reading that moves the knob was made with nothing of the user's on its way, so it
\* is still right; any other is dropped.
LEMMA ReadingSound ==
    ASSUME NEW w, Sound(w), NEW c \in w.bus.replies, c.kind = "get"
    PROVE  LET v == ApplyReading(Arrived(w, c), c)
           IN  /\ Sound(v) /\ v.knob.edits = w.knob.edits
               /\ w.knob.news => v.knob.news
               /\ Settled(w) => Settled(v)
               /\ Settled(w) /\ w.knob.news => v.knob.level = w.knob.level
               /\ v.knob.level # w.knob.level => /\ w.knob.desired = Unknown /\ NoSets(w)
                                                 /\ c.edit = w.tv.heard
<1> DEFINE u == Arrived(w, c)
<1>1. /\ Sound(u) /\ u.knob = w.knob /\ u.loop = w.loop /\ u.tv = w.tv
      /\ NoSets(w) => NoSets(u)
      /\ Settled(w) => Settled(u)
  BY ArrivedSound
<1> HIDE DEF u
<1>2. /\ w \in Worlds /\ u \in Worlds /\ c \in Call /\ c.token # NoCall
      /\ u.knob \in Knobs /\ u.loop \in Loops
  BY <1>1, WorldFields DEF Sound, CallsSound, Waiting
<1>3. CASE c.token # u.loop.get
  BY <1>1, <1>3 DEF ApplyReading, u
<1>4. CASE c.token = u.loop.get
  <2> DEFINE l == [u.loop EXCEPT !.get = NoCall, !.asked = 0]
             done == [u EXCEPT !.loop = l]
             k == [u.knob EXCEPT !.level = c.level, !.news = TRUE]
             v == [done EXCEPT !.knob = k]
             fits == /\ u.loop.asked = u.knob.edits
                     /\ u.loop.set = NoCall /\ u.knob.desired = Unknown
  <2>1. l \in Loops /\ l.set = u.loop.set /\ l.get = NoCall
    BY <1>2 DEF Loops, NoCall
  <2>2. [u EXCEPT !.loop.get = NoCall, !.loop.asked = 0] = done
    BY <1>2
  <2>3. ApplyReading(u, c) = IF fits THEN [done EXCEPT !.knob.level = c.level, !.knob.news = TRUE]
                             ELSE done
    BY <1>4, <2>2 DEF ApplyReading
  <2> HIDE DEF l
  <2>4. /\ Sound(done) /\ done.knob = u.knob /\ done.bus = u.bus /\ done.tv = u.tv
        /\ done.loop = l
        /\ Settled(u) => Settled(done)
    BY <1>1, <2>1, AnsweredSound
  <2> HIDE DEF done
  <2>5. CASE ~fits
    BY <1>1, <2>3, <2>4, <2>5 DEF u
  <2>6. CASE fits
    <3>1. /\ k \in Knobs /\ k.level = c.level /\ k.edits = u.knob.edits /\ k.desired = Unknown
          /\ k.news
      BY <1>2, <2>6 DEF Knobs, Call
    <3>2. ApplyReading(u, c) = v
      BY <2>3, <2>4, <2>6
    <3>3. done \in Worlds
      BY <2>4 DEF Sound
    <3> HIDE DEF k
    <3>4. v \in Worlds /\ v.knob = k /\ v.bus = u.bus /\ v.tv = u.tv /\ v.loop = l
      BY <2>4, <3>1, <3>3 DEF Worlds
    <3> HIDE DEF v
    <3>5. CallsSound(v) /\ IsFiniteSet(v.bus.replies)
      BY <1>1, <3>4 DEF Sound, CallsSound, Waiting
    <3>6. Sound(v)
      BY <2>1, <3>4, <3>5 DEF Sound, ReadingInv
    <3>7. IsReading(w, c) /\ ReadingClean(w)
      BY <1>1, <1>2, <1>4, <2>6 DEF Sound, ReadingInv, IsReading
    <3>8. w.knob.desired = Unknown /\ NoSets(w) /\ c.edit = w.tv.heard
      BY <3>7 DEF ReadingClean
    <3>9. ASSUME Settled(w) PROVE Settled(v) /\ (w.knob.news => v.knob.level = w.knob.level)
      <4>1. c.level = w.tv.level
        BY <1>1, <1>2, <1>4, <3>7, <3>9 DEF Settled
      <4>2. NoSets(v)
        BY <1>1, <3>4, <3>8 DEF NoSets
      <4>3. Settled(v)
        BY <1>1, <2>1, <3>1, <3>4, <4>1, <4>2 DEF Settled
      <4>4. w.knob.news => v.knob.level = w.knob.level
        BY <3>1, <3>4, <3>9, <4>1 DEF Settled
      <4> QED BY <4>3, <4>4
    <3> QED BY <1>1, <3>1, <3>2, <3>4, <3>6, <3>8, <3>9 DEF u
  <2> QED BY <2>5, <2>6
<1> QED BY <1>3, <1>4

\* The answer to a set lets the level left behind meanwhile go out.
LEMMA SetAnsweredSound ==
    ASSUME NEW w, Sound(w), NEW c \in w.bus.replies, NEW v \in ApplySet(Arrived(w, c), c)
    PROVE  /\ Sound(v) /\ v.knob.level = w.knob.level /\ v.knob.edits = w.knob.edits
           /\ w.knob.news => v.knob.news
           /\ Settled(w) => Settled(v)
<1> DEFINE u == Arrived(w, c)
           l == [u.loop EXCEPT !.set = NoCall]
           done == [u EXCEPT !.loop = l]
<1>1. Sound(u) /\ u.knob = w.knob /\ (Settled(w) => Settled(u))
  BY ArrivedSound
<1>2. v \in ApplySet(u, c)
  OBVIOUS
<1> HIDE DEF u
<1>3. u \in Worlds /\ u.loop \in Loops
  BY <1>1, WorldFields DEF Sound
<1>4. CASE c.token # u.loop.set
  BY <1>1, <1>2, <1>4 DEF ApplySet
<1>5. CASE c.token = u.loop.set
  <2>1. l \in Loops /\ l.set = NoCall /\ l.get = u.loop.get /\ l.asked = u.loop.asked
    BY <1>3 DEF Loops, NoCall
  <2>2. [u EXCEPT !.loop.set = NoCall] = done
    BY <1>3
  <2>3. v \in Sent(done)
    BY <1>2, <1>5, <2>2 DEF ApplySet
  <2> HIDE DEF l
  <2>4. Sound(done) /\ done.knob = u.knob /\ (Settled(u) => Settled(done))
    BY <1>1, <2>1, AnsweredSound
  <2> HIDE DEF done
  <2>5. /\ Sound(v) /\ v.knob.level = done.knob.level /\ v.knob.edits = done.knob.edits
        /\ done.knob.news => v.knob.news
        /\ Settled(done) => Settled(v)
    BY <2>3, <2>4, SentSound
  <2> QED BY <1>1, <2>4, <2>5
<1> QED BY <1>4, <1>5

\* The first call is done, or is lost.
LEMMA FirstCall ==
    ASSUME NEW w, Sound(w), w.bus.calls # <<>>
    PROVE  LET c == Head(w.bus.calls)
               s == Tail(w.bus.calls)
           IN  /\ c \in Call /\ c \in Waiting(w) /\ s \in Seq(Call)
               /\ 1 \in DOMAIN w.bus.calls /\ w.bus.calls[1] = c
               /\ \A i \in DOMAIN s : /\ i \in Nat /\ 1 < i + 1 /\ i + 1 \in DOMAIN w.bus.calls
                                      /\ s[i] = w.bus.calls[i + 1]
<1> DEFINE q == w.bus.calls
<1>1. q \in Seq(Call) /\ q # <<>>
  BY WorldFields DEF Sound
<1>2. q[1] \in Waiting(w) \/ 1 \notin DOMAIN q
  BY DEF Waiting
<1> HIDE DEF q
<1>3. /\ Head(q) \in Call /\ Tail(q) \in Seq(Call) /\ 1 \in DOMAIN q /\ q[1] = Head(q)
      /\ \A i \in DOMAIN Tail(q) : /\ i \in Nat /\ 1 < i + 1 /\ i + 1 \in DOMAIN q
                                   /\ Tail(q)[i] = q[i + 1]
  BY <1>1
<1> QED BY <1>2, <1>3 DEF q

\* A served call: what the service answers, and what it hears.
Answer(w) ==
    LET c == Head(w.bus.calls)
    IN  IF c.kind = "get" THEN [c EXCEPT !.level = w.tv.level, !.edit = w.tv.heard] ELSE c

\* The reading that is answered is answered after every set that was called before it; a
\* set is only answered while no reading that counts was.
LEMMA ServedSound ==
    ASSUME NEW w, Sound(w), w.bus.calls # <<>>, NEW v \in Worlds,
           v.knob = w.knob, v.loop = w.loop,
           v.bus.calls = Tail(w.bus.calls), v.bus.replies = w.bus.replies \cup {Answer(w)},
           Head(w.bus.calls).kind = "get" => v.tv = w.tv
    PROVE  Sound(v) /\ (Settled(w) => Settled(v))
<1> DEFINE c == Head(w.bus.calls)
           a == Answer(w)
<1>1. /\ c \in Call /\ c \in Waiting(w)
      /\ 1 \in DOMAIN w.bus.calls /\ w.bus.calls[1] = c
      /\ \A i \in DOMAIN v.bus.calls :
            /\ i \in Nat /\ 1 < i + 1 /\ i + 1 \in DOMAIN w.bus.calls
            /\ v.bus.calls[i] = w.bus.calls[i + 1]
  BY FirstCall
<1>2. w.tv.level \in Levels /\ w.tv.heard \in Nat
  BY WorldFields DEF Sound
<1>3. /\ a \in Call /\ a.token = c.token /\ a.kind = c.kind
      /\ c.kind = "get" => a.level = w.tv.level /\ a.edit = w.tv.heard
      /\ c.kind # "get" => a = c
  BY <1>1, <1>2 DEF Answer, Call
<1>4. v.knob = w.knob /\ v.loop = w.loop /\ v.bus.replies = w.bus.replies \cup {a}
      /\ (c.kind = "get" => v.tv = w.tv)
  OBVIOUS
<1>5. c.kind \in {"get", "set"}
  BY <1>1 DEF Call
<1> HIDE DEF c, a
<1>6. CallsSound(v)
  <2>1. \A d \in Waiting(v) : d \in Waiting(w) \/ d = a
    BY <1>1, <1>4 DEF Waiting
  <2>2. a.token # NoCall /\ (a.kind = "set" => a.level \in Levels)
    BY <1>1, <1>3, <1>5 DEF Sound, CallsSound
  <2> QED BY <2>1, <2>2 DEF Sound, CallsSound
<1>7. IsFiniteSet(v.bus.replies)
  BY <1>4, FS_AddElement DEF Sound
<1>8. NoSets(w) => NoSets(v)
  BY <1>1 DEF NoSets
<1>9. \A d : IsReading(v, d) <=> IsReading(w, d)
  BY <1>4 DEF IsReading
<1>10. IsReading(w, a) <=> IsReading(w, c)
  BY <1>3 DEF IsReading
<1>11. ASSUME w.loop.get # NoCall, ReadingClean(w), IsReading(w, c) PROVE NoSets(v)
  BY <1>1, <1>11 DEF ReadingClean, NoSets
<1>12. ASSUME ReadingClean(w), c.kind # "get", NEW r \in v.bus.replies PROVE ~IsReading(w, r)
  <2>1. ~NoSets(w)
    BY <1>1, <1>5, <1>12 DEF NoSets
  <2>2. ~IsReading(w, a)
    BY <1>3, <1>12 DEF IsReading
  <2> QED BY <1>4, <1>12, <2>1, <2>2 DEF ReadingClean
<1>13. ASSUME w.loop.get # NoCall, ReadingClean(w) PROVE ReadingClean(v)
  <2>1. v.knob.desired = Unknown /\ v.loop.set = NoCall
    BY <1>4, <1>13 DEF ReadingClean
  <2>2. ASSUME NEW i \in DOMAIN v.bus.calls, IsReading(v, v.bus.calls[i]),
               NEW j \in DOMAIN v.bus.calls, i < j
        PROVE  v.bus.calls[j].kind # "set"
    <3>1. i + 1 < j + 1 /\ IsReading(w, w.bus.calls[i + 1])
      BY <1>1, <1>9, <2>2
    <3> QED BY <1>1, <1>13, <2>2, <3>1 DEF ReadingClean
  <2>3. ASSUME NEW r \in v.bus.replies, IsReading(v, r) PROVE NoSets(v) /\ r.edit = v.tv.heard
    <3>1. c.kind = "get" /\ v.tv = w.tv /\ IsReading(w, r)
      BY <1>4, <1>5, <1>9, <1>12, <1>13, <2>3
    <3>2. CASE r \in w.bus.replies
      BY <1>8, <1>13, <3>1, <3>2 DEF ReadingClean
    <3>3. CASE r = a
      BY <1>3, <1>10, <1>11, <1>13, <3>1, <3>3
    <3> QED BY <1>4, <3>2, <3>3
  <2> QED BY <2>1, <2>2, <2>3 DEF ReadingClean
<1>14. Sound(v)
  BY <1>4, <1>6, <1>7, <1>13 DEF Sound, ReadingInv
<1>15. ASSUME Settled(w) PROVE Settled(v)
  <2>1. ASSUME v.loop.get # NoCall, NEW r \in v.bus.replies, IsReading(v, r)
        PROVE  r.level = v.tv.level
    <3>1. ReadingClean(w)
      BY <1>4, <1>15, <2>1 DEF Sound, ReadingInv, Settled
    <3>2. c.kind = "get" /\ v.tv = w.tv /\ IsReading(w, r)
      BY <1>4, <1>5, <1>9, <1>12, <2>1, <3>1
    <3>3. CASE r \in w.bus.replies
      BY <1>4, <1>15, <2>1, <3>2, <3>3 DEF Settled
    <3>4. CASE r = a
      BY <1>3, <3>2, <3>4
    <3> QED BY <1>4, <3>3, <3>4
  <2>2. ASSUME v.knob.news
        PROVE v.knob.level = v.tv.level /\ v.knob.desired = Unknown /\ NoSets(v)
    <3>1. NoSets(w) /\ w.knob.level = w.tv.level /\ w.knob.desired = Unknown
      BY <1>4, <1>15, <2>2 DEF Settled
    <3>2. c.kind = "get"
      BY <1>1, <1>5, <3>1 DEF NoSets
    <3> QED BY <1>4, <1>8, <3>1, <3>2
  <2>3. v.loop.get # NoCall => v.loop.asked = v.knob.edits
    BY <1>4, <1>15 DEF Settled
  <2> QED BY <2>1, <2>2, <2>3 DEF Settled
<1> QED BY <1>14, <1>15

-----------------------------------------------------------------------------
(* The actions.                                                            *)

LunaInv == Sound(World)

LunaSettled == Settled(World)

\* The world is its parts.
LEMMA WorldParts ==
    World.knob = knob /\ World.loop = loop /\ World.bus = bus /\ World.tv = tv
  BY DEF World

\* What an action becomes is the next world.
LEMMA Becomes ==
    ASSUME NEW v \in Worlds, Become(v)
    PROVE  /\ World' = v /\ knob' = v.knob /\ loop' = v.loop /\ bus' = v.bus /\ tv' = v.tv
<1>1. v = [knob |-> v.knob, loop |-> v.loop, bus |-> v.bus, tv |-> v.tv]
  BY DEF Worlds
<1> QED BY <1>1 DEF Become, World

\* The step to a sound world.
LEMMA BecomesSound ==
    ASSUME NEW v, Sound(v), Become(v), LunaSettled => Settled(v)
    PROVE  /\ LunaInv' /\ (LunaSettled => LunaSettled')
           /\ knob' = v.knob /\ loop' = v.loop /\ bus' = v.bus /\ tv' = v.tv
<1>1. v \in Worlds
  BY DEF Sound
<1>2. World' = v /\ knob' = v.knob /\ loop' = v.loop /\ bus' = v.bus /\ tv' = v.tv
  BY <1>1, Becomes
<1> QED BY <1>2 DEF LunaInv, LunaSettled

\* What every step of the loop thread, the bus and the service keeps, and what a reading
\* that moves the knob was.
LunaKept ==
    /\ LunaInv' /\ (LunaSettled => LunaSettled')
    /\ knob'.edits = knob.edits
    /\ knob.news => knob'.news /\ (LunaSettled => knob'.level = knob.level)
    /\ knob'.level # knob.level =>
          /\ knob.desired = Unknown /\ NoSets(World)
          /\ \E c \in bus.replies : c.kind = "get" /\ c.edit = tv.heard

\* The dispatch takes the flag down and nothing else.
LEMMA DispatchBeginKeeps == ASSUME LunaInv, DispatchBegin PROVE LunaKept
<1> DEFINE w == World
           k == [w.knob EXCEPT !.queued = FALSE]
           l == [w.loop EXCEPT !.dispatching = TRUE, !.sources = Tail(@)]
           v == [w EXCEPT !.knob = k, !.loop = l]
<1>1. Sound(w)
  BY DEF LunaInv
<1>2. w.knob = knob /\ w.loop = loop
  BY WorldParts
<1>3. /\ Become([w EXCEPT !.knob.queued = FALSE, !.loop.dispatching = TRUE,
                          !.loop.sources = Tail(@)])
      /\ w.loop.sources # <<>>
  BY <1>2 DEF DispatchBegin, Idle
<1>4. LunaSettled => Settled(w)
  BY DEF LunaSettled
<1> HIDE DEF w
<1>5. w \in Worlds /\ w.knob \in Knobs /\ w.loop \in Loops
  BY <1>1, WorldFields DEF Sound
<1>6. v = [w EXCEPT !.knob.queued = FALSE, !.loop.dispatching = TRUE,
                    !.loop.sources = Tail(@)]
  BY <1>5
<1>7. /\ k \in Knobs /\ k.level = w.knob.level /\ k.desired = w.knob.desired
      /\ k.edits = w.knob.edits /\ (k.news <=> w.knob.news)
  BY <1>5 DEF Knobs
<1>8. l \in Loops /\ l.set = w.loop.set /\ l.get = w.loop.get /\ l.asked = w.loop.asked
  <2>1. Tail(w.loop.sources) \in Seq({"dispatch", "refresh"})
    BY <1>3, <1>5 DEF Loops
  <2> QED BY <1>5, <2>1 DEF Loops
<1>9. Become(v)
  BY <1>3, <1>6
<1> HIDE DEF k, l
<1>10. v \in Worlds /\ v.knob = k /\ v.loop = l /\ v.bus = w.bus /\ v.tv = w.tv
  BY <1>5, <1>7, <1>8 DEF Worlds
<1> HIDE DEF v
<1>11. Alike(w, v)
  BY <1>7, <1>8, <1>10 DEF Alike
<1>12. /\ Sound(v) /\ v.knob.level = w.knob.level /\ v.knob.edits = w.knob.edits
       /\ w.knob.news => v.knob.news
       /\ Settled(w) => Settled(v)
  BY <1>1, <1>10, <1>11, AlikeSound
<1>13. LunaInv' /\ (LunaSettled => LunaSettled') /\ knob' = v.knob
  BY <1>4, <1>9, <1>12, BecomesSound
<1> QED BY <1>2, <1>12, <1>13 DEF LunaKept

\* A step to a world that has the same level shown and the same edits.
LEMMA StillKept ==
    ASSUME NEW v, Sound(v), Become(v), LunaSettled => Settled(v),
           v.knob.level = knob.level, v.knob.edits = knob.edits, knob.news => v.knob.news
    PROVE  LunaKept
<1>1. LunaInv' /\ (LunaSettled => LunaSettled') /\ knob' = v.knob
  BY BecomesSound
<1> QED BY <1>1 DEF LunaKept

\* The dispatch sends the newest level, unless a set is out that has not stalled.
LEMMA DispatchKeeps == ASSUME LunaInv, Dispatch PROVE LunaKept
<1> DEFINE l == [World.loop EXCEPT !.dispatching = FALSE]
           w == [World EXCEPT !.loop = l]
           u == IF w.loop.set = NoCall THEN w ELSE Cancelled(w, "set")
<1>1. Sound(World) /\ World \in Worlds /\ World.loop \in Loops
  BY WorldFields DEF LunaInv, Sound
<1>2. l \in Loops /\ l.set = World.loop.set /\ l.get = World.loop.get /\ l.asked = World.loop.asked
  BY <1>1 DEF Loops
<1>3. [World EXCEPT !.loop.dispatching = FALSE] = w
  BY <1>1
<1>4. Become(w) \/ \E v \in Sent(u) : Become(v)
  BY <1>3 DEF Dispatch
<1> HIDE DEF l
<1>5. /\ Sound(w) /\ w.knob.level = knob.level /\ w.knob.edits = knob.edits
      /\ knob.news => w.knob.news
      /\ LunaSettled => Settled(w)
  <2>1. /\ Sound(w) /\ w.knob.level = World.knob.level /\ w.knob.edits = World.knob.edits
        /\ World.knob.news => w.knob.news
        /\ Settled(World) => Settled(w)
    BY <1>1, <1>2, SourcesSound
  <2> QED BY <2>1, WorldParts DEF LunaSettled
<1> HIDE DEF w
<1>6. CASE Become(w)
  BY <1>5, <1>6, StillKept
<1>7. CASE \E v \in Sent(u) : Become(v)
  <2>1. PICK v \in Sent(u) : Become(v)
    BY <1>7
  <2>2. Sound(u) /\ u.knob = w.knob /\ (Settled(w) => Settled(u))
    <3>1. LET c == Cancelled(w, "set")
          IN  Sound(c) /\ c.knob = w.knob /\ (Settled(w) => Settled(c))
      BY <1>5, CancelledSound DEF Kinds
    <3> QED BY <1>5, <3>1
  <2> HIDE DEF u
  <2>3. /\ Sound(v) /\ v.knob.level = u.knob.level /\ v.knob.edits = u.knob.edits
        /\ u.knob.news => v.knob.news
        /\ Settled(u) => Settled(v)
    BY <2>1, <2>2, SentSound
  <2> QED BY <1>5, <2>1, <2>2, <2>3, StillKept
<1> QED BY <1>4, <1>6, <1>7

\* The poll's callback.
LEMMA RefreshKeeps == ASSUME LunaInv, Refresh PROVE LunaKept
<1> DEFINE l == [World.loop EXCEPT !.sources = Tail(@)]
           w == [World EXCEPT !.loop = l]
<1>1. Sound(World) /\ World \in Worlds /\ World.loop \in Loops /\ World.loop.sources # <<>>
  BY WorldFields, WorldParts DEF LunaInv, Sound, Refresh, Idle
<1>2. l \in Loops /\ l.set = World.loop.set /\ l.get = World.loop.get /\ l.asked = World.loop.asked
  <2>1. Tail(World.loop.sources) \in Seq({"dispatch", "refresh"})
    BY <1>1 DEF Loops
  <2> QED BY <1>1, <2>1 DEF Loops
<1>3. [World EXCEPT !.loop.sources = Tail(@)] = w
  BY <1>1
<1>4. PICK u \in Recovered(w) : Become(Ask(u))
  BY <1>3 DEF Refresh
<1> HIDE DEF l
<1>5. /\ Sound(w) /\ w.knob.level = knob.level /\ w.knob.edits = knob.edits
      /\ knob.news => w.knob.news
      /\ LunaSettled => Settled(w)
  <2>1. /\ Sound(w) /\ w.knob.level = World.knob.level /\ w.knob.edits = World.knob.edits
        /\ World.knob.news => w.knob.news
        /\ Settled(World) => Settled(w)
    BY <1>1, <1>2, SourcesSound
  <2> QED BY <2>1, WorldParts DEF LunaSettled
<1> HIDE DEF w
<1>6. /\ Sound(u) /\ u.knob.level = w.knob.level /\ u.knob.edits = w.knob.edits
      /\ w.knob.news => u.knob.news
      /\ Settled(w) => Settled(u)
  BY <1>4, <1>5, RecoveredSound
<1>7. Sound(Ask(u)) /\ Ask(u).knob = u.knob /\ (Settled(u) => Settled(Ask(u)))
  BY <1>6, AskSound
<1> QED BY <1>4, <1>5, <1>6, <1>7, StillKept

\* A reply, of a call that is out or was cancelled.
LEMMA ReplyKeeps == ASSUME LunaInv, Reply PROVE LunaKept
<1>1. Sound(World) /\ World.knob = knob /\ World.bus = bus /\ World.tv = tv
  BY WorldParts DEF LunaInv
<1>2. PICK c \in World.bus.replies :
         \/ Become(Arrived(World, c))
         \/ IF c.kind = "get" THEN Become(ApplyReading(Arrived(World, c), c))
            ELSE \E v \in ApplySet(Arrived(World, c), c) : Become(v)
  BY <1>1 DEF Reply, Arrived
<1> DEFINE w == Arrived(World, c)
<1>3. Sound(w) /\ w.knob = World.knob /\ (Settled(World) => Settled(w))
  BY <1>1, ArrivedSound
<1>4. CASE Become(w)
  BY <1>1, <1>3, <1>4, StillKept DEF LunaSettled
<1>5. CASE c.kind = "get" /\ Become(ApplyReading(w, c))
  <2> DEFINE v == ApplyReading(w, c)
  <2>1. /\ Sound(v) /\ v.knob.edits = World.knob.edits
        /\ World.knob.news => v.knob.news
        /\ Settled(World) => Settled(v)
        /\ Settled(World) /\ World.knob.news => v.knob.level = World.knob.level
        /\ v.knob.level # World.knob.level => /\ World.knob.desired = Unknown /\ NoSets(World)
                                              /\ c.edit = World.tv.heard
    BY <1>1, <1>5, ReadingSound
  <2>2. Become(v)
    BY <1>5
  <2> HIDE DEF v
  <2>3. LunaInv' /\ (LunaSettled => LunaSettled') /\ knob' = v.knob
    BY <2>1, <2>2, BecomesSound DEF LunaSettled
  <2> QED BY <1>1, <1>5, <2>1, <2>3 DEF LunaKept, LunaSettled
<1>6. CASE \E v \in ApplySet(w, c) : Become(v)
  <2>1. PICK v \in ApplySet(w, c) : Become(v)
    BY <1>6
  <2>2. /\ Sound(v) /\ v.knob.level = World.knob.level /\ v.knob.edits = World.knob.edits
        /\ World.knob.news => v.knob.news
        /\ Settled(World) => Settled(v)
    BY <1>1, <2>1, SetAnsweredSound
  <2> QED BY <1>1, <2>1, <2>2, StillKept DEF LunaSettled
<1> QED BY <1>2, <1>4, <1>5, <1>6

\* The service does the first call it was given.
LEMMA ServeKeeps == ASSUME LunaInv, Serve PROVE LunaKept
<1> DEFINE w == World
           c == Head(w.bus.calls)
           b == [w.bus EXCEPT !.calls = Tail(@), !.replies = @ \cup {Answer(w)}]
           level == IF w.tv.deaf THEN w.tv.level ELSE c.level
           s == [w.tv EXCEPT !.heard = c.edit, !.level = level]
           get == [w EXCEPT !.bus = b]
           set == [w EXCEPT !.bus = b, !.tv = s]
<1>1. Sound(w) /\ w.knob = knob /\ w.bus = bus /\ w.tv = tv /\ w.bus.calls # <<>>
  BY WorldParts DEF LunaInv, Serve
<1>2. LunaSettled => Settled(w)
  BY DEF LunaSettled
<1>3. w \in Worlds /\ w.bus \in Buses /\ w.tv \in Services /\ w.tv.level \in Levels
      /\ w.tv.heard \in Nat
  BY <1>1, WorldFields DEF Sound
<1>4. c \in Call /\ c \in Waiting(w) /\ Tail(w.bus.calls) \in Seq(Call)
  BY <1>1, FirstCall
<1>5. IF c.kind = "get"
      THEN Become([[w EXCEPT !.bus.calls = Tail(@)]
                     EXCEPT !.bus.replies = @ \cup {[c EXCEPT !.level = w.tv.level,
                                                              !.edit = w.tv.heard]}])
      ELSE Become([[w EXCEPT !.bus.calls = Tail(@)]
                     EXCEPT !.bus.replies = @ \cup {c}, !.tv.heard = c.edit,
                            !.tv.level = IF w.tv.deaf THEN @ ELSE c.level])
  BY <1>1 DEF Serve
<1> HIDE DEF w
<1>6. c.kind = "set" => c.level \in Levels
  BY <1>1, <1>4 DEF Sound, CallsSound
<1>7. c.kind \in {"set", "get"} /\ c.edit \in Nat
  BY <1>4 DEF Call
<1>8. Answer(w) \in Call
  BY <1>3, <1>4 DEF Answer, Call
<1>9. /\ b \in Buses /\ b.calls = Tail(w.bus.calls) /\ b.replies = w.bus.replies \cup {Answer(w)}
  BY <1>3, <1>4, <1>8 DEF Buses
<1>10. CASE c.kind = "get"
  <2>1. get = [[w EXCEPT !.bus.calls = Tail(@)]
                 EXCEPT !.bus.replies = @ \cup {[c EXCEPT !.level = w.tv.level,
                                                          !.edit = w.tv.heard]}]
    BY <1>3, <1>10 DEF Answer, Worlds, Buses
  <2>2. Become(get)
    BY <1>5, <1>10, <2>1
  <2> HIDE DEF b
  <2>3. get \in Worlds /\ get.knob = w.knob /\ get.loop = w.loop /\ get.bus = b /\ get.tv = w.tv
    BY <1>3, <1>9 DEF Worlds
  <2> HIDE DEF get
  <2>4. Sound(get) /\ (Settled(w) => Settled(get))
    BY <1>1, <1>9, <2>3, ServedSound
  <2> QED BY <1>1, <1>2, <2>2, <2>3, <2>4, StillKept
<1>11. CASE c.kind = "set"
  <2>1. set = [[w EXCEPT !.bus.calls = Tail(@)]
                 EXCEPT !.bus.replies = @ \cup {c}, !.tv.heard = c.edit,
                        !.tv.level = IF w.tv.deaf THEN @ ELSE c.level]
    BY <1>3, <1>11 DEF Answer, Worlds, Buses, Services
  <2>2. Become(set)
    BY <1>5, <1>11, <2>1
  <2>3. s \in Services
    <3>1. level \in Levels
      BY <1>3, <1>6, <1>11
    <3> HIDE DEF level
    <3> QED BY <1>3, <1>7, <3>1 DEF Services
  <2> HIDE DEF b, s
  <2>4. set \in Worlds /\ set.knob = w.knob /\ set.loop = w.loop /\ set.bus = b
    BY <1>3, <1>9, <2>3 DEF Worlds
  <2> HIDE DEF set
  <2>5. Sound(set) /\ (Settled(w) => Settled(set))
    BY <1>1, <1>9, <1>11, <2>4, ServedSound
  <2> QED BY <1>1, <1>2, <2>2, <2>4, <2>5, StillKept
<1> QED BY <1>7, <1>10, <1>11

\* A call that is lost is waited for until the ceiling passes.
LEMMA LoseCallKeeps == ASSUME LunaInv, LoseCall PROVE LunaKept
<1> DEFINE w == World
           c == Head(w.bus.calls)
           b == [w.bus EXCEPT !.calls = Tail(@), !.cancelled = @ \ {c.token}]
           missed == IF c.kind = "set" THEN c.edit ELSE w.tv.missed
           s == [w.tv EXCEPT !.faults = @ + 1, !.missed = missed]
           v == [w EXCEPT !.bus = b, !.tv = s]
<1>1. /\ Sound(w) /\ w.knob = knob /\ w.bus = bus /\ w.tv = tv /\ w.bus.calls # <<>>
      /\ w.tv.faults < MaxFaults
  BY WorldParts DEF LunaInv, LoseCall
<1>2. LunaSettled => Settled(w)
  BY DEF LunaSettled
<1>3. w \in Worlds /\ w.bus \in Buses /\ w.tv \in Services /\ w.tv.faults \in 0..MaxFaults
  BY <1>1, WorldFields DEF Sound
<1>4. c \in Call /\ Tail(w.bus.calls) \in Seq(Call)
  BY <1>1, FirstCall
<1>5. Become([w EXCEPT !.bus.calls = Tail(@), !.bus.cancelled = @ \ {c.token},
                       !.tv.faults = @ + 1,
                       !.tv.missed = IF c.kind = "set" THEN c.edit ELSE @])
  BY <1>1 DEF LoseCall
<1> HIDE DEF w
<1>6. v = [w EXCEPT !.bus.calls = Tail(@), !.bus.cancelled = @ \ {c.token},
                    !.tv.faults = @ + 1,
                    !.tv.missed = IF c.kind = "set" THEN c.edit ELSE @]
  BY <1>3
<1>7. b \in Buses /\ b.calls = Tail(w.bus.calls) /\ b.replies = w.bus.replies
  BY <1>3, <1>4 DEF Buses
<1>8. s \in Services /\ s.level = w.tv.level /\ s.heard = w.tv.heard
  <2>1. w.tv.faults + 1 \in 0..MaxFaults
    BY <1>1, <1>3, MaxFaultsAssumption
  <2>2. missed \in Nat
    BY <1>3, <1>4 DEF Call, Services
  <2> HIDE DEF missed
  <2> QED BY <1>3, <2>1, <2>2 DEF Services
<1>9. Become(v)
  BY <1>5, <1>6
<1> HIDE DEF b, s
<1>10. v \in Worlds /\ v.knob = w.knob /\ v.loop = w.loop /\ v.bus = b /\ v.tv = s
  BY <1>3, <1>7, <1>8 DEF Worlds
<1> HIDE DEF v
<1>11. Quieter(w, v)
  BY <1>1, <1>7, <1>8, <1>10 DEF Quieter
<1>12. Sound(v) /\ (Settled(w) => Settled(v))
  <2>1. v.tv.level = w.tv.level /\ v.knob.level = w.knob.level /\ (v.knob.news => w.knob.news)
    BY <1>8, <1>10
  <2> QED BY <1>1, <1>10, <1>11, <2>1, QuieterSound
<1> QED BY <1>1, <1>2, <1>9, <1>10, <1>12, StillKept

\* The stall ceiling only marks the call.
LEMMA CeilingKeeps == ASSUME LunaInv, Ceiling PROVE LunaKept
<1> SUFFICES ASSUME NEW kind \in Kinds, CeilingOf(kind) PROVE LunaKept
  BY DEF Ceiling, Kinds
<1> DEFINE w == World
           l == [w.loop EXCEPT !.late = @ \cup {kind}]
           late == [w EXCEPT !.loop = l]
           s == [late.tv EXCEPT !.faults = @ + 1]
           v == [late EXCEPT !.tv = s]
<1>1. Sound(w) /\ w.knob = knob /\ w.loop = loop /\ w.bus = bus /\ w.tv = tv
  BY WorldParts DEF LunaInv
<1>2. w \in Worlds /\ w.loop \in Loops
  BY <1>1, WorldFields DEF Sound
<1>3. [w EXCEPT !.loop.late = @ \cup {kind}] = late
  BY <1>2
<1>4. \/ Become(late)
      \/ w.tv.faults < MaxFaults /\ Become([late EXCEPT !.tv.faults = @ + 1])
  BY <1>1, <1>3 DEF CeilingOf
<1>5. LunaSettled => Settled(w)
  BY DEF LunaSettled
<1> HIDE DEF w
<1>6. l \in Loops /\ l.set = w.loop.set /\ l.get = w.loop.get /\ l.asked = w.loop.asked
  BY <1>2 DEF Loops, Kinds
<1> HIDE DEF l
<1>7. /\ late \in Worlds /\ late.knob = w.knob /\ late.loop = l /\ late.bus = w.bus
      /\ late.tv = w.tv
  BY <1>2, <1>6 DEF Worlds
<1> HIDE DEF late
<1>8. Sound(late) /\ (Settled(w) => Settled(late))
  <2>1. Alike(w, late)
    BY <1>6, <1>7 DEF Alike
  <2> QED BY <1>1, <1>7, <2>1, AlikeSound
<1>9. CASE Become(late)
  BY <1>1, <1>5, <1>7, <1>8, <1>9, StillKept
<1>10. CASE w.tv.faults < MaxFaults /\ Become([late EXCEPT !.tv.faults = @ + 1])
  <2>1. [late EXCEPT !.tv.faults = @ + 1] = v
    BY <1>7
  <2>2. Become(v)
    BY <1>10, <2>1
  <2>3. late.tv \in Services /\ late.tv.faults + 1 \in 0..MaxFaults
    BY <1>7, <1>10, WorldFields, MaxFaultsAssumption
  <2>4. s \in Services /\ s.level = w.tv.level /\ s.heard = w.tv.heard
    BY <1>7, <2>3 DEF Services
  <2> HIDE DEF s
  <2>5. /\ v \in Worlds /\ v.knob = late.knob /\ v.loop = late.loop /\ v.bus = late.bus
        /\ v.tv = s
    BY <1>7, <2>4 DEF Worlds
  <2> HIDE DEF v
  <2>6. Quieter(late, v)
    BY <1>7, <2>4, <2>5 DEF Quieter
  <2>7. Sound(v) /\ (Settled(late) => Settled(v))
    <3>1. /\ v.tv.level = late.tv.level /\ v.knob.level = late.knob.level
          /\ v.knob.news => late.knob.news
      BY <1>7, <2>4, <2>5
    <3> QED BY <1>8, <2>5, <2>6, <3>1, QuieterSound
  <2> QED BY <1>1, <1>5, <1>7, <1>8, <2>2, <2>5, <2>7, StillKept
<1> QED BY <1>4, <1>9, <1>10

\* No step of the bus, of the loop thread or of the service breaks what is known of the
\* readings, and none moves the knob but a reading that may.
LEMMA LunaStepKeeps ==
    ASSUME LunaInv, Sources \/ Reply \/ Serve \/ LoseCall \/ Ceiling
    PROVE  LunaKept
  BY DispatchBeginKeeps, DispatchKeeps, RefreshKeeps, ReplyKeeps, ServeKeeps, LoseCallKeeps,
     CeilingKeeps DEF Sources

\* At the start nothing is known and nothing is out.
LEMMA LunaInitInv == LunaInit => LunaInv /\ LunaSettled
<1> SUFFICES ASSUME LunaInit PROVE LunaInv /\ LunaSettled
  OBVIOUS
<1>1. (CHOOSE level \in Levels : TRUE) \in Levels
  BY LevelsAssumption
<1>2. /\ knob \in Knobs /\ loop \in Loops /\ bus \in Buses
  BY DEF LunaInit, Knobs, Loops, Buses, NoCall
<1>3. tv \in Services
  <2>1. 0 \in 0..MaxFaults
    BY MaxFaultsAssumption
  <2> QED BY <1>1, <2>1 DEF LunaInit, Services
<1>4. World \in Worlds
  BY <1>2, <1>3 DEF Worlds, World
<1>5. /\ bus.calls = <<>> /\ bus.replies = {} /\ loop.get = NoCall /\ ~knob.news
  BY DEF LunaInit
<1>6. Waiting(World) = {}
  BY <1>5, WorldParts DEF Waiting
<1>7. LunaInv
  <2>1. IsFiniteSet(World.bus.replies)
    BY <1>5, WorldParts, FS_EmptySet
  <2> QED BY <1>4, <1>5, <1>6, <2>1, WorldParts DEF LunaInv, Sound, CallsSound, ReadingInv
<1>8. LunaSettled
  BY <1>5, WorldParts DEF LunaSettled, Settled
<1> QED BY <1>7, <1>8

-----------------------------------------------------------------------------
(***************************************************************************)
(* The panel.                                                              *)
(***************************************************************************)

-----------------------------------------------------------------------------
(* The inductive invariant. *)

PanelState == [streaming: BOOLEAN, up: BOOLEAN, dragging: BOOLEAN, telling: BOOLEAN,
               seen: Levels \cup {Unknown}, happened: Nat, edits: Nat,
               changed: BOOLEAN, doubt: BOOLEAN]

\* Neither the user nor the remote moved the volume on this screen, and no reading from
\* before it was out when it came up.
Quiet == panel.streaming /\ ~panel.changed /\ ~panel.doubt

\* Then what the tick last saw is what the knob shows, and the volume there is.
Steady ==
    Quiet => /\ LunaSettled
             /\ panel.seen # Unknown => knob.news /\ panel.seen = knob.level

IInv ==
    /\ panel \in PanelState /\ scenario \in Scenarios
    /\ StoreInv /\ EditedBy(panel.edits)
    /\ LunaInv /\ Steady

\* What the panel's fields hold.
LEMMA PanelFields ==
    ASSUME IInv
    PROVE  /\ panel \in PanelState /\ panel.edits \in Nat /\ panel.happened \in Nat
           /\ panel.edits + 1 \in Nat /\ panel.happened + 1 \in Nat
           /\ panel.seen \in Levels \cup {Unknown} /\ knob.level \in Levels \cup {Unknown}
           /\ knob.edits \in Nat
<1>1. World \in Worlds
  BY DEF IInv, LunaInv, Sound
<1>2. World.knob.level \in Levels \cup {Unknown} /\ World.knob.edits \in Nat
  BY <1>1, WorldFields
<1> QED BY <1>2, WorldParts DEF IInv, PanelState

\* The invariant holds at the start.
LEMMA InitInv == Init => IInv
<1> SUFFICES ASSUME Init PROVE IInv
  OBVIOUS
<1>1. panel \in PanelState /\ scenario \in Scenarios /\ panel.edits = 0 /\ panel.seen = Unknown
  BY DEF Init, PanelState
<1>2. StoreInv
  BY StoreInitInv DEF Init
<1>3. EditedBy(panel.edits)
  BY <1>1 DEF Init, StoreInit, EditedBy, Missing
<1>4. LunaInv /\ LunaSettled
  BY LunaInitInv DEF Init
<1>5. Steady
  BY <1>1, <1>4 DEF Steady
<1> QED BY <1>1, <1>2, <1>3, <1>4, <1>5 DEF IInv

\* The invariant says what TypeOK says.
LEMMA InvTyped == IInv => TypeOK
<1> SUFFICES ASSUME IInv PROVE TypeOK
  OBVIOUS
<1>1. LunaTypeOK
  BY WorldTyped DEF IInv, LunaInv, Sound
<1>2. StoreTypeOK
  BY DEF IInv, StoreInv
<1>3. panel \in PanelState /\ scenario \in Scenarios
  BY DEF IInv
<1> QED BY <1>1, <1>2, <1>3 DEF TypeOK, PanelState

-----------------------------------------------------------------------------
(* What a step leaves alone. *)

\* A step of the store, or one that leaves it alone, saves no setting of its own.
LEMMA StoreKept ==
    ASSUME IInv, StoreStep \/ UNCHANGED storeVars, panel' \in PanelState,
           panel'.edits >= panel.edits
    PROVE  StoreInv' /\ EditedBy(panel.edits)'
<1>1. PICK n \in Nat : n = panel.edits
  BY PanelFields
<1>2. EditedBy(n)
  BY <1>1 DEF IInv, EditedBy
<1>3. StoreInv' /\ EditedBy(n)'
  <2>1. CASE StoreStep
    BY <1>2, <2>1, StoreStepKeeps, StoreStepEdited DEF IInv
  <2>2. CASE UNCHANGED storeVars
    BY <1>2, <2>2 DEF IInv, StoreInv, StoreTypeOK, FilesKnown, SettingsKnown, SaveOnItsWay,
                      Covered, Whole, EditedBy, storeVars
  <2> QED BY <2>1, <2>2
<1>4. store'.settings \in Nat /\ \A p \in Place : disk'[p].after \subseteq Nat
  BY <1>3 DEF StoreInv, StoreTypeOK, FilesKnown
<1>5. panel'.edits \in Nat
  BY DEF PanelState
<1>6. EditedBy(panel.edits)'
  BY <1>1, <1>3, <1>4, <1>5 DEF EditedBy
<1> QED BY <1>3, <1>6

\* A step that leaves the volume alone.
LEMMA LunaStutters == ASSUME LunaInv, UNCHANGED lunaVars PROVE LunaKept
  BY DEF LunaInv, LunaSettled, LunaKept, World, lunaVars

\* A step that keeps the volume and what the tick has seen of it.
LEMMA SteadyKept ==
    ASSUME IInv, LunaKept, Quiet' => Quiet, panel'.seen \in {panel.seen, Unknown}
    PROVE  Steady'
  BY DEF IInv, Steady, LunaKept

\* Asking for the volume moves nothing.
LEMMA AskedKept == ASSUME LunaInv, Become(Asked) PROVE LunaKept
<1>1. Sound(World) /\ World.knob = knob
  BY WorldParts DEF LunaInv
<1> DEFINE v == Refreshed(World)
<1>2. /\ Sound(v) /\ v.knob.level = World.knob.level /\ v.knob.edits = World.knob.edits
      /\ World.knob.news => v.knob.news
      /\ Settled(World) => Settled(v)
  BY <1>1, RefreshedSound
<1>3. Become(v) \/ Become(World)
  BY DEF Asked
<1> HIDE DEF v
<1>4. CASE Become(v)
  BY <1>1, <1>2, <1>4, StillKept DEF LunaSettled
<1>5. CASE Become(World)
  BY <1>1, <1>5, StillKept DEF LunaSettled
<1> QED BY <1>3, <1>4, <1>5

-----------------------------------------------------------------------------
(* The steps that keep the store, or the volume, or both.                  *)

\* A step of the panel keeps the invariant if it keeps its parts.
LEMMA Together ==
    ASSUME IInv, panel' \in PanelState, scenario' = scenario, panel'.edits >= panel.edits,
           StoreStep \/ UNCHANGED storeVars, LunaInv', Steady'
    PROVE  IInv'
<1>1. StoreInv' /\ EditedBy(panel.edits)'
  BY StoreKept
<1> QED BY <1>1 DEF IInv

\* A level the user sets is newer than any reading that is out.
LEMMA EditMasterKeeps == ASSUME IInv, EditMaster PROVE IInv' /\ knob'.edits # knob.edits
<1> USE PanelFields
<1>1. PICK level \in Levels, drag \in BOOLEAN :
         /\ Become(Edited(World, level))
         /\ panel' = [panel EXCEPT !.telling = TRUE, !.dragging = @ \/ drag, !.changed = TRUE,
                                   !.edits = @ + 1]
  BY DEF EditMaster
<1>2. /\ panel' \in PanelState /\ panel'.edits = panel.edits + 1 /\ panel'.changed = TRUE
  <2>1. (panel.dragging \/ drag) \in BOOLEAN
    OBVIOUS
  <2> QED BY <1>1, <2>1 DEF PanelState
<1> DEFINE v == Edited(World, level)
<1>3. /\ Sound(World) /\ World.knob = knob
  BY WorldParts DEF IInv, LunaInv
<1>4. Sound(v) /\ v.knob.edits = knob.edits + 1
  BY <1>3, EditedSound
<1>5. v \in Worlds /\ Become(v)
  BY <1>1, <1>4 DEF Sound
<1> HIDE DEF v
<1>6. World' = v /\ knob' = v.knob
  BY <1>5, Becomes
<1>7. LunaInv'
  BY <1>4, <1>6 DEF LunaInv
<1>8. ~Quiet'
  BY <1>2 DEF Quiet
<1>9. UNCHANGED storeVars /\ scenario' = scenario
  BY DEF EditMaster, storeVars
<1>10. IInv'
  BY <1>2, <1>7, <1>8, <1>9, Together DEF Steady
<1> QED BY <1>4, <1>6, <1>10

\* An edit of a channel is the newest there is.
LEMMA EditChannelKeeps == ASSUME IInv, EditChannel PROVE IInv' /\ UNCHANGED lunaVars
<1> USE PanelFields
<1>1. /\ store' = [store EXCEPT !.settings = panel.edits + 1, !.dirty = TRUE] /\ disk' = disk
      /\ store.phase = "idle" /\ UNCHANGED lunaVars /\ scenario' = scenario
  BY DEF EditChannel, MayEdit, Free, lunaVars
<1>2. PICK drag \in BOOLEAN : panel' = [panel EXCEPT !.dragging = @ \/ drag, !.edits = @ + 1]
  BY DEF EditChannel
<1>3. /\ panel' \in PanelState /\ panel'.edits = panel.edits + 1 /\ panel'.seen = panel.seen
      /\ panel'.streaming <=> panel.streaming
      /\ panel'.changed <=> panel.changed
      /\ panel'.doubt <=> panel.doubt
  <2>1. (panel.dragging \/ drag) \in BOOLEAN
    OBVIOUS
  <2> QED BY <1>2, <2>1 DEF PanelState
<1>4. store.settings \in Nat /\ store.settings <= panel.edits
  BY StoreTypes DEF IInv, EditedBy
<1>5. StoreInv'
  <2>1. PICK e \in Nat \ {0} : e = panel.edits + 1
    OBVIOUS
  <2>2. store' = [store EXCEPT !.settings = e, !.dirty = TRUE] /\ e >= store.settings
    BY <1>1, <1>4, <2>1
  <2> QED BY <1>1, <2>2, EditKeeps DEF IInv
<1>6. EditedBy(panel.edits)'
  <2>1. store'.settings = panel.edits + 1
    BY <1>1, StoreTypes DEF StoreState, IInv
  <2>2. \A p \in Place : disk[p].after \subseteq Nat
    BY DEF IInv, StoreInv, FilesKnown
  <2> QED BY <1>1, <1>3, <2>1, <2>2 DEF IInv, EditedBy
<1>7. LunaKept
  BY <1>1, LunaStutters DEF IInv
<1>8. Steady'
  BY <1>3, <1>7, SteadyKept DEF Quiet
<1> QED BY <1>1, <1>3, <1>5, <1>6, <1>7, <1>8 DEF IInv, LunaKept

\* What a step changes of the panel does not make it quiet, nor the volume known to it.
PanelKept ==
    /\ panel' \in PanelState /\ scenario' = scenario /\ panel'.edits = panel.edits
    /\ Quiet' => Quiet
    /\ panel'.seen \in {panel.seen, Unknown}

\* Such a step keeps the invariant when what it does to the volume and to the store does.
LEMMA PanelKeptKeeps ==
    ASSUME IInv, PanelKept, LunaKept, StoreStep \/ UNCHANGED storeVars
    PROVE  IInv'
<1>1. Steady'
  BY SteadyKept DEF PanelKept
<1>2. panel'.edits >= panel.edits
  BY PanelFields DEF PanelKept
<1> QED BY <1>1, <1>2, Together DEF PanelKept, LunaKept

\* The steps that leave the volume alone.
LEMMA OtherStepKeeps ==
    ASSUME IInv, DragEnds \/ Hide \/ IdleSave \/ LeaveScreen \/ SaveStep \/ Trouble \/ LaunchStep
                 \/ UNCHANGED vars
    PROVE  IInv' /\ UNCHANGED lunaVars
<1> USE PanelFields
<1>1. UNCHANGED lunaVars
  BY DEF DragEnds, Hide, IdleSave, LeaveScreen, SaveStep, Trouble, LaunchStep, vars, lunaVars
<1>2. StoreStep \/ UNCHANGED storeVars
  BY DEF DragEnds, Hide, IdleSave, LeaveScreen, SaveStep, Trouble, LaunchStep, Flush, StoreStep,
         vars, storeVars
<1>3. PanelKept
  BY DEF DragEnds, Hide, IdleSave, LeaveScreen, SaveStep, Trouble, LaunchStep, vars, PanelKept,
         PanelState, Quiet
<1>4. LunaKept
  BY <1>1, LunaStutters DEF IInv
<1> QED BY <1>1, <1>2, <1>3, <1>4, PanelKeptKeeps

\* The steps of the bus, of the loop thread and of the service, and the panel's calls
\* that ask for the volume or tell the loop thread.
LEMMA VolumeStepKeeps ==
    ASSUME IInv, TellLoop \/ Show \/ Poll \/ Service \/ LoopStep \/ ReplyStep \/ Stall
    PROVE  IInv' /\ LunaKept
<1> USE PanelFields
<1>1. UNCHANGED storeVars
  BY DEF TellLoop, Show, Poll, Service, LoopStep, ReplyStep, Stall, storeVars
<1>2. PanelKept
  BY DEF TellLoop, Show, Poll, Service, LoopStep, ReplyStep, Stall, PanelKept, PanelState, Quiet
<1>3. CASE TellLoop
  <2> DEFINE v == Invoked(World)
  <2>1. Sound(World) /\ World.knob = knob
    BY WorldParts DEF IInv, LunaInv
  <2>2. /\ Sound(v) /\ v.knob.level = knob.level /\ v.knob.edits = knob.edits
        /\ knob.news => v.knob.news
        /\ LunaSettled => Settled(v)
    BY <2>1, InvokedSound DEF LunaSettled
  <2>3. Become(v)
    BY <1>3 DEF TellLoop
  <2> HIDE DEF v
  <2>4. LunaKept
    BY <2>2, <2>3, StillKept
  <2> QED BY <1>1, <1>2, <2>4, PanelKeptKeeps
<1>4. CASE Show \/ Poll
  <2>1. LunaKept
    BY <1>4, AskedKept DEF Show, Poll, IInv
  <2> QED BY <1>1, <1>2, <2>1, PanelKeptKeeps
<1>5. CASE Service \/ LoopStep \/ ReplyStep \/ Stall
  <2>1. LunaKept
    BY <1>5, LunaStepKeeps DEF Service, LoopStep, ReplyStep, Stall, IInv
  <2> QED BY <1>1, <1>2, <2>1, PanelKeptKeeps
<1> QED BY <1>3, <1>4, <1>5

\* What the tick sees is the level shown; over a quiet stream, what it saw before.
LEMMA WatchKeeps ==
    ASSUME IInv, Watch
    PROVE  IInv' /\ LunaKept /\ (panel.seen # Unknown => ~Quiet)
<1> USE PanelFields
<1>1. /\ panel' = [panel EXCEPT !.seen = knob.level, !.up = @ \/ panel.seen # Unknown]
      /\ knob.level # panel.seen /\ (panel.seen = Unknown => knob.news)
      /\ UNCHANGED storeVars /\ scenario' = scenario
  BY DEF Watch, storeVars
<1>2. /\ panel' \in PanelState /\ panel'.edits = panel.edits /\ panel'.seen = knob.level
      /\ Quiet' => Quiet
  <2>1. (panel.up \/ panel.seen # Unknown) \in BOOLEAN
    OBVIOUS
  <2> QED BY <1>1, <2>1 DEF PanelState, Quiet
<1>3. LunaKept
  <2>1. CASE panel.seen # Unknown /\ ~panel.up
    BY <2>1, AskedKept DEF Watch, IInv
  <2>2. CASE ~(panel.seen # Unknown /\ ~panel.up)
    BY <2>2, LunaStutters DEF Watch, IInv
  <2> QED BY <2>1, <2>2
<1>4. panel.seen # Unknown => ~Quiet
  BY <1>1 DEF IInv, Steady
<1>5. panel.seen = Unknown => UNCHANGED lunaVars
  BY DEF Watch
<1>6. Steady'
  <2>1. CASE panel.seen # Unknown
    BY <1>2, <1>4, <2>1 DEF Steady
  <2>2. CASE panel.seen = Unknown
    <3>1. knob.news /\ knob' = knob
      BY <1>1, <1>5, <2>2 DEF lunaVars
    <3>2. Quiet' => LunaSettled'
      BY <1>2, <1>3 DEF IInv, Steady, LunaKept
    <3> QED BY <1>2, <3>1, <3>2 DEF Steady
  <2> QED BY <2>1, <2>2
<1>7. panel'.edits >= panel.edits
  BY <1>2
<1> QED BY <1>1, <1>2, <1>3, <1>4, <1>6, <1>7, Together DEF LunaKept

\* A screen that comes up forgets what was seen; with no reading out, no older one can
\* become its baseline.
LEMMA EnterScreenKeeps ==
    ASSUME IInv, EnterScreen
    PROVE  IInv' /\ knob'.level = knob.level /\ panel'.up = panel.up
<1> USE PanelFields
<1>1. /\ knob' = [knob EXCEPT !.news = FALSE]
      /\ panel' = [panel EXCEPT !.seen = Unknown, !.streaming = TRUE, !.changed = FALSE,
                                !.doubt = loop.get # NoCall]
      /\ loop' = loop /\ bus' = bus /\ tv' = tv /\ UNCHANGED storeVars /\ scenario' = scenario
  BY DEF EnterScreen, Rebaseline, storeVars
<1>2. /\ panel' \in PanelState /\ panel'.edits = panel.edits /\ panel'.seen = Unknown
      /\ panel'.doubt = (loop.get # NoCall) /\ panel'.up = panel.up
  <2>1. (loop.get # NoCall) \in BOOLEAN
    OBVIOUS
  <2> QED BY <1>1, <2>1 DEF PanelState
<1> DEFINE w == World
           v == [knob |-> knob', loop |-> loop, bus |-> bus, tv |-> tv]
<1>3. /\ Sound(w) /\ w \in Worlds /\ w.knob \in Knobs
      /\ w.knob = knob /\ w.loop = loop /\ w.bus = bus /\ w.tv = tv
  BY WorldParts, WorldFields DEF IInv, LunaInv, Sound
<1>4. World' = v
  BY <1>1 DEF World
<1> HIDE DEF w
<1>5. /\ knob' \in Knobs /\ knob'.desired = knob.desired /\ knob'.edits = knob.edits
      /\ ~knob'.news /\ knob'.level = knob.level
  BY <1>1, <1>3 DEF Knobs
<1>6. /\ v \in Worlds /\ v.knob = knob' /\ v.loop = w.loop /\ v.bus = w.bus /\ v.tv = w.tv
  BY <1>3, <1>5 DEF Worlds
<1> HIDE DEF v
<1>7. Quieter(w, v)
  BY <1>3, <1>5, <1>6 DEF Quieter
<1>8. Sound(v)
  BY <1>3, <1>6, <1>7, QuieterSound
<1>9. LunaInv'
  BY <1>4, <1>8 DEF LunaInv
<1>10. Quiet' => LunaSettled'
  <2>1. ASSUME Quiet' PROVE Settled(v)
    <3>1. loop.get = NoCall
      BY <1>2, <2>1 DEF Quiet
    <3> QED BY <1>3, <1>5, <1>6, <3>1 DEF Settled
  <2> QED BY <1>4, <2>1 DEF LunaSettled
<1>11. Steady'
  BY <1>2, <1>10 DEF Steady
<1>12. panel'.edits >= panel.edits
  BY <1>2
<1> QED BY <1>1, <1>2, <1>5, <1>9, <1>11, <1>12, Together

\* The remote's keys move the volume, and no reading yet.
LEMMA RemoteKeeps == ASSUME IInv, Remote PROVE IInv' /\ knob' = knob
<1> USE PanelFields
<1>1. PICK level \in Levels : Become([World EXCEPT !.tv.level = level])
  BY DEF Remote
<1>2. /\ panel' = [panel EXCEPT !.happened = @ + 1, !.changed = TRUE]
      /\ UNCHANGED storeVars /\ scenario' = scenario
  BY DEF Remote, storeVars
<1>3. /\ panel' \in PanelState /\ panel'.edits = panel.edits /\ ~Quiet'
  BY <1>2 DEF PanelState, Quiet
<1> DEFINE w == World
           s == [w.tv EXCEPT !.level = level]
           v == [w EXCEPT !.tv = s]
<1>4. Sound(w) /\ w \in Worlds /\ w.knob = knob /\ w.tv \in Services
  BY WorldParts, WorldFields DEF IInv, LunaInv, Sound
<1>5. Become([w EXCEPT !.tv.level = level])
  BY <1>1
<1> HIDE DEF w
<1>6. [w EXCEPT !.tv.level = level] = v
  BY <1>4
<1>7. Become(v)
  BY <1>5, <1>6
<1>8. s \in Services /\ s.heard = w.tv.heard
  BY <1>4 DEF Services
<1> HIDE DEF s
<1>9. v \in Worlds /\ v.knob = w.knob /\ v.loop = w.loop /\ v.bus = w.bus /\ v.tv = s
  BY <1>4, <1>8 DEF Worlds
<1> HIDE DEF v
<1>10. Quieter(w, v)
  BY <1>8, <1>9 DEF Quieter
<1>11. Sound(v)
  BY <1>4, <1>9, <1>10, QuieterSound
<1>12. World' = v /\ knob' = v.knob
  BY <1>7, <1>9, Becomes
<1>13. LunaInv'
  BY <1>11, <1>12 DEF LunaInv
<1>14. Steady' /\ panel'.edits >= panel.edits
  BY <1>3 DEF Steady
<1> QED BY <1>2, <1>3, <1>4, <1>9, <1>12, <1>13, <1>14, Together

\* A service that turns deaf keeps its volume.
LEMMA DeafenKeeps == ASSUME IInv, Deafen PROVE IInv' /\ knob' = knob
<1> USE PanelFields
<1>1. /\ Become([World EXCEPT !.tv.deaf = TRUE])
      /\ panel' = [panel EXCEPT !.happened = @ + 1]
      /\ UNCHANGED storeVars /\ scenario' = scenario
  BY DEF Deafen, storeVars
<1>2. PanelKept
  BY <1>1 DEF PanelKept, PanelState, Quiet
<1> DEFINE w == World
           s == [w.tv EXCEPT !.deaf = TRUE]
           v == [w EXCEPT !.tv = s]
<1>3. Sound(w) /\ w \in Worlds /\ w.knob = knob /\ w.tv \in Services
  BY WorldParts, WorldFields DEF IInv, LunaInv, Sound
<1>4. Become([w EXCEPT !.tv.deaf = TRUE])
  BY <1>1
<1>5. LunaSettled => Settled(w)
  BY DEF LunaSettled
<1> HIDE DEF w
<1>6. [w EXCEPT !.tv.deaf = TRUE] = v
  BY <1>3
<1>7. Become(v)
  BY <1>4, <1>6
<1>8. s \in Services /\ s.heard = w.tv.heard /\ s.level = w.tv.level
  BY <1>3 DEF Services
<1> HIDE DEF s
<1>9. v \in Worlds /\ v.knob = w.knob /\ v.loop = w.loop /\ v.bus = w.bus /\ v.tv = s
  BY <1>3, <1>8 DEF Worlds
<1> HIDE DEF v
<1>10. Quieter(w, v)
  BY <1>8, <1>9 DEF Quieter
<1>11. Sound(v) /\ (Settled(w) => Settled(v))
  <2>1. v.tv.level = w.tv.level /\ v.knob.level = w.knob.level /\ (v.knob.news => w.knob.news)
    BY <1>8, <1>9
  <2> QED BY <1>3, <1>9, <1>10, <2>1, QuieterSound
<1>12. LunaKept
  BY <1>3, <1>5, <1>7, <1>9, <1>11, StillKept
<1>13. knob' = knob
  BY <1>3, <1>7, <1>9, Becomes
<1> QED BY <1>1, <1>2, <1>12, <1>13, PanelKeptKeeps

-----------------------------------------------------------------------------
(* The theorems.                                                           *)

\* Every step keeps the invariant.
LEMMA StepKeeps == ASSUME IInv, [Next]_vars PROVE IInv'
  BY EditMasterKeeps, EditChannelKeeps, OtherStepKeeps, VolumeStepKeeps, WatchKeeps,
     EnterScreenKeeps, RemoteKeeps, DeafenKeeps DEF Next

\* The inductive invariant of the panel, the volume client and the store holds throughout,
\* for any number of levels, places, edits, mishaps and faults.
THEOREM Invariance == Spec => []IInv
<1>1. Init => IInv
  BY InitInv
<1>2. IInv /\ [Next]_vars => IInv'
  BY StepKeeps
<1> QED BY <1>1, <1>2, PTL DEF Spec

\* The panel, the volume client, the bus and the store hold what they may.
THEOREM TypeCorrect == Spec => []TypeOK
  BY Invariance, InvTyped, PTL

\* Whatever the user edits and whenever the process dies or the power fails, a launch never
\* loads settings older than the last ones a save was acknowledged for, though the file is
\* looked for in several places and is written in the first that takes it.
THEOREM SavedSurvives == Spec => []AcknowledgedSurvives
<1>1. IInv => AcknowledgedSurvives
  BY StoreInvSurvives DEF IInv
<1> QED BY <1>1, Invariance, PTL

\* A reading moves the knob only if it was made after everything the user asked for was
\* done, with nothing of the user's on its way: stalled calls that are cancelled, replies
\* that come late and edits between the request and its answer cannot yank it back.
THEOREM NeverYanked == Spec => KnobNotYanked
<1>1. ASSUME IInv, [Next]_vars, knob'.level # knob.level, knob'.edits = knob.edits
      PROVE  /\ knob.desired = Unknown
             /\ \A c \in Waiting(World) : c.kind = "set" => c \in bus.replies
             /\ \E c \in bus.replies : c.kind = "get" /\ c.edit = tv.heard
  <2>1. LunaKept
    <3>1. ~EditMaster
      BY <1>1, EditMasterKeeps
    <3>2. ~(EditChannel \/ DragEnds \/ Hide \/ IdleSave \/ LeaveScreen \/ SaveStep \/ Trouble
            \/ LaunchStep \/ UNCHANGED vars)
      BY <1>1, EditChannelKeeps, OtherStepKeeps DEF lunaVars
    <3>3. ~(EnterScreen \/ Remote \/ Deafen)
      BY <1>1, EnterScreenKeeps, RemoteKeeps, DeafenKeeps
    <3> QED BY <1>1, <3>1, <3>2, <3>3, VolumeStepKeeps, WatchKeeps DEF Next
  <2>2. /\ knob.desired = Unknown /\ NoSets(World)
        /\ \E c \in bus.replies : c.kind = "get" /\ c.edit = tv.heard
    BY <1>1, <2>1 DEF LunaKept
  <2>3. ASSUME NEW c \in Waiting(World), c.kind = "set" PROVE c \in bus.replies
    BY <2>2, <2>3, WorldParts DEF NoSets, Waiting
  <2> QED BY <2>2, <2>3
<1>2. IInv /\ [Next]_vars
      => [knob'.level # knob.level /\ knob'.edits = knob.edits =>
            /\ knob.desired = Unknown
            /\ \A c \in Waiting(World) : c.kind = "set" => c \in bus.replies
            /\ \E c \in bus.replies : c.kind = "get" /\ c.edit = tv.heard]_vars
  BY <1>1
<1> QED BY <1>2, Invariance, PTL DEF Spec, KnobNotYanked

\* The panel raises itself over a stream only if the volume was moved on this screen, or a
\* reading from before the screen was still out: the replies, late or in any order, are no
\* reason.
THEOREM NoPopUp == Spec => NothingPops
<1>1. ASSUME IInv, [Next]_vars, panel'.seen # panel.seen, panel'.up, ~panel.up
      PROVE  panel.changed \/ panel.doubt
  <2>1. Watch
    <3>1. ASSUME EditMaster \/ EditChannel \/ TellLoop \/ DragEnds \/ Show \/ Hide \/ IdleSave
                 \/ Poll \/ LeaveScreen \/ Remote \/ Deafen \/ Service \/ LoopStep \/ ReplyStep
                 \/ Stall \/ SaveStep \/ Trouble \/ LaunchStep \/ UNCHANGED vars
          PROVE  panel'.seen = panel.seen
      <4>1. CASE EditMaster \/ EditChannel
        BY <1>1, <4>1, PanelFields DEF EditMaster, EditChannel, PanelState
      <4>2. CASE TellLoop \/ DragEnds \/ Show \/ Hide \/ IdleSave \/ Poll \/ LeaveScreen
                 \/ Remote \/ Deafen
        BY <1>1, <4>2, PanelFields
           DEF TellLoop, DragEnds, Show, Hide, IdleSave, Poll, LeaveScreen, Remote, Deafen,
               PanelState
      <4>3. CASE Service \/ LoopStep \/ ReplyStep \/ Stall \/ SaveStep \/ Trouble \/ LaunchStep
                 \/ UNCHANGED vars
        BY <1>1, <4>3, PanelFields
           DEF Service, LoopStep, ReplyStep, Stall, SaveStep, Trouble, LaunchStep, vars, PanelState
      <4> QED BY <3>1, <4>1, <4>2, <4>3
    <3>2. CASE EnterScreen
      BY <1>1, <3>2, EnterScreenKeeps
    <3> QED BY <1>1, <3>1, <3>2 DEF Next
  <2>2. panel.streaming
    BY <2>1 DEF Watch
  <2>3. panel.seen # Unknown
    BY <1>1, <2>1, PanelFields DEF Watch, PanelState
  <2> QED BY <1>1, <2>1, <2>2, <2>3, WatchKeeps DEF Quiet
<1>2. IInv /\ [Next]_vars
      => [panel'.seen # panel.seen /\ panel'.up /\ ~panel.up
            => panel.changed \/ panel.doubt]_vars
  BY <1>1
<1> QED BY <1>2, Invariance, PTL DEF Spec, NothingPops
=============================================================================
