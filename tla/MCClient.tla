------------------------------ MODULE MCClient ------------------------------
(* Instances of Client for TLC: which task invokes what. *)
EXTENDS Client, TLC

CONSTANTS t1, t2, t3

\* One task creates and closes; two others stop what it creates, and seek in it.
MCOneCreator ==
    t1 :> {"create_call", "create_rtmp_call", "close"}
        @@ t2 :> {"stop", "seek_by"} @@ t3 :> {"stop", "seek_by"}

\* Two tasks create at once.
MCTwoCreators == t1 :> {"create_call"} @@ t2 :> {"create_call"}
=============================================================================
