---------------------------- MODULE MCMediaTrack ----------------------------
(* An instance of MediaTrack for TLC: sources of both legs. *)
EXTENDS MediaTrack

MCBothLegs == {"audio", "video"}
=============================================================================
