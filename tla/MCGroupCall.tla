---------------------------- MODULE MCGroupCall ----------------------------
(* Instances of GroupCall for TLC: who may invoke what. *)
EXTENDS GroupCall, TLC

CONSTANTS t1, t2

\* Two callers that both change the source: one owns the call's life, one mutes.
MCTwoOwners ==
    t1 :> {"set_source", "connect", "stop"} @@ t2 :> {"set_source", "mute", "unmute"}

\* One caller toggles pause, the other owns the call's life; both end streamers.
MCPauseBesideOwner ==
    t1 :> {"pause", "resume", "streamer_end"}
        @@ t2 :> {"set_source", "connect", "stop", "streamer_end"}

\* A caller that stops while another sets a source.
MCStopAgainstSource == t1 :> {"set_source", "connect"} @@ t2 :> {"stop"}

MCAudioVideo == {Kinds}
MCAnyLegs == {{"audio"}, {"video"}, Kinds}
=============================================================================
