-------------------------- MODULE MCCameraDevices --------------------------
(* Two processors, two channel numbers and two pending requests: an object of
   an older announcement can be started on a channel number that is in use. *)
EXTENDS CameraDevices

MCChannels == {1, 2}
=============================================================================
