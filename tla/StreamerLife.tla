---------------------------- MODULE StreamerLife ----------------------------
(***************************************************************************)
(* What a streamer (media/streamer.rs) promises the call that owns it,     *)
(* whatever its reader, its channel and its pacing do: it runs from its    *)
(* construction until it is stopped, a stop takes its callback away for    *)
(* good, and the end of its pacing task is told to the caller at most      *)
(* once, through a callback that was registered and not taken away.        *)
(*                                                                         *)
(* GroupCall owns streamers in this view; AvSync is how they are made.     *)
(***************************************************************************)

VARIABLES
    live,     \* streamers whose pacing task has not ended
    running,  \* streamers that were not stopped
    armed,    \* streamers with a registered on_end callback
    ending,   \* streamers whose pacing task took the callback and is to call it
    fired     \* streamers whose end was reported

vars == <<live, running, armed, ending, fired>>

Init ==
    /\ running = live
    /\ armed = {} /\ ending = {} /\ fired = {}

\* new_with_barrier: the tasks are spawned, and nobody can have asked for the end yet.
Start ==
    /\ live \subseteq live'
    /\ running' = running \cup (live' \ live)
    /\ (live' \ live) \cap (armed \cup ending) = {}
    /\ UNCHANGED <<armed, ending, fired>>

\* on_end is registered on streamers that run.
Arm ==
    /\ armed \subseteq armed'
    /\ (armed' \ armed) \subseteq running
    /\ (armed' \ armed) \cap ending = {}
    /\ UNCHANGED <<live, running, ending, fired>>

\* stop: what does not run any more has no callback any more.
Stop ==
    /\ running' \subseteq running
    /\ armed' = armed \cap running'
    /\ UNCHANGED <<live, ending, fired>>

\* The pacing task ends and takes its callback, if there is one left.
End ==
    \E s \in live :
        /\ live' = live \ {s}
        /\ armed' = armed \ {s}
        /\ ending' = ending \cup (armed \cap {s})
        /\ UNCHANGED <<running, fired>>

\* ... and calls it.
Report ==
    \E s \in ending :
        /\ ending' = ending \ {s}
        /\ fired' = fired \cup {s}
        /\ UNCHANGED <<live, running, armed>>

Next == Start \/ Arm \/ Stop \/ End \/ Report

Spec == Init /\ [][Next]_vars
=============================================================================
