--------------------------- MODULE MCMediaRecorder ---------------------------
(***************************************************************************)
(* Instances of MediaRecorder for TLC: the tracks of the recorded stream.  *)
(***************************************************************************)
EXTENDS MediaRecorder

VideoAndAudio == {"video", "audio"}
OnlyAudio     == {"audio"}
OnlyVideo     == {"video"}
=============================================================================
