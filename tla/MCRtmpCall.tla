---------------------------- MODULE MCRtmpCall ----------------------------
(* Instances of RtmpCall for TLC: which task invokes what. *)
EXTENDS RtmpCall, TLC

CONSTANTS t1, t2

\* One task plays, one task toggles; both may stop the call.
MCPlayerAndToggler ==
    t1 :> {"set_source", "seek_by", "mute", "unmute"} @@ t2 :> {"pause", "resume", "stop"}

\* One task plays and stops.
MCPlayer == t1 :> {"set_source", "stop"}
=============================================================================
