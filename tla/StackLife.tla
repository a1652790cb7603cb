----------------------------- MODULE StackLife -----------------------------
(***************************************************************************)
(* What the stack of one call (wrtc/native/stack.rs) promises the call:    *)
(* the state it shows becomes Connected only in the step that installs the *)
(* SRTP keys, keys that are installed stay until the transport is closed,  *)
(* and a transport that is closed stays closed.                            *)
(*                                                                         *)
(* GroupCall uses its stack in this view; Transport is how it works.       *)
(***************************************************************************)

VARIABLES
    state,   \* Stack::state
    keyed,   \* the SRTP contexts are there
    closed   \* the transport's closed flag

vars == <<state, keyed, closed>>

Init == state = "Connecting" /\ keyed = FALSE /\ closed = FALSE

\* connect announces itself before it looks at what it was given.
Announce == state' = "Connecting" /\ UNCHANGED <<keyed, closed>>

\* The handshake of a connection completes; of later ones nothing is seen.
Complete == ~keyed /\ keyed' = TRUE /\ state' = "Connected" /\ UNCHANGED closed

\* close: first the flag, then the state, then the keys.
Close ==
    /\ closed' = TRUE
    /\ state' \in {state, "Closed"}
    /\ keyed' \in {keyed, FALSE}

Next == Announce \/ Complete \/ Close

Spec == Init /\ [][Next]_vars
=============================================================================
