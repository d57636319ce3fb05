---------------------------- MODULE MCMediaGate ----------------------------
(* Two setters (the SDL thread and a session teardown), one generation, a
   microphone queue of two, and gate changes up to MaxEpoch. *)
EXTENDS MediaGate

CONSTANTS s1, s2, nobody

MCSetters == {s1, s2}
MCGenerations == {1}
=============================================================================
