------------------------------ MODULE MCAvSync ------------------------------
(* Instances of AvSync for TLC: sources, and how long their legs are. *)
EXTENDS AvSync, TLC

MCTwoOne == "audio" :> 2 @@ "video" :> 1
MCAny == {{"audio"}, {"video"}, Legs}
MCBoth == {Legs}
=============================================================================
