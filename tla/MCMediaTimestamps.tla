-------------------------- MODULE MCMediaTimestamps --------------------------
(***************************************************************************)
(* Instances of MediaTimestamps for TLC: the tracks of the stream.         *)
(***************************************************************************)
EXTENDS MediaTimestamps

VideoAndAudio == {"video", "audio"}
OnlyAudio     == {"audio"}
=============================================================================
