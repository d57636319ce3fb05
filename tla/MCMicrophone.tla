---------------------------- MODULE MCMicrophone ----------------------------
(* A session with a camera: two openings of the device and two streams against two
   round trips of the foreground, so that an answer of one stream can meet the gate,
   the device and the stream of the next.  A session with a microphone: two streams,
   and a handoff or a second session in its slot. *)
EXTENDS Microphone

MCChannels == {1}
MCGenerations == 1..MaxGen
MCProfiles == {{"camera"}, {"microphone"}}
=============================================================================
