---------------------------- MODULE ShellReader ----------------------------
(***************************************************************************)
(* The ffmpeg subprocesses (io/shell_reader.rs).  Each ShellReader has its *)
(* child behind one async mutex, a reap task that waits for the child's    *)
(* exit, and a close that takes the child out and kills it.                *)
(*                                                                         *)
(* Whoever owns a reader constructs it (Launch) and gives it to a task     *)
(* that closes it (HandToClose); the rest happens here.  The pipes of the  *)
(* child and what it writes to them are left out, and so are set_on_exit   *)
(* and wait_for_exit, which nothing in the crate calls.                    *)
(***************************************************************************)
EXTENDS Naturals

CONSTANT Procs   \* the subprocesses of one behaviour, in the order of their launch

VARIABLES
    os,        \* what the operating system knows of each process
    child,     \* readers that still have their child
    holder,    \* who holds the mutex around the child
    reap,      \* where each reap task is
    closing,   \* where each close is
    captured,  \* readers whose exit error was captured
    exited     \* readers that report the exit

shellVars == <<os, child, holder, reap, closing, captured, exited>>

ShellInit ==
    /\ os = [p \in Procs |-> "none"] /\ child = {}
    /\ holder = [p \in Procs |-> "nobody"]
    /\ reap = [p \in Procs |-> "none"] /\ closing = [p \in Procs |-> "no"]
    /\ captured = {} /\ exited = {}

----------------------------------------------------------------------------
(* What the owner does *)

\* ShellReader::new: the process runs and its reap task is spawned.
Launch(p) ==
    /\ os[p] = "none"
    /\ os' = [os EXCEPT ![p] = "running"]
    /\ child' = child \cup {p}
    /\ reap' = [reap EXCEPT ![p] = "lock"]
    /\ UNCHANGED <<holder, closing, captured, exited>>

\* A task is spawned that calls close.
HandToClose(p) ==
    /\ closing' = [closing EXCEPT ![p] = "spawned"]
    /\ UNCHANGED <<os, child, holder, reap, captured, exited>>

----------------------------------------------------------------------------
(* The process and its reap task *)

\* The process ends by itself: end of its input, a refused connection, a crash.
Exits(p) ==
    /\ os[p] = "running"
    /\ os' = [os EXCEPT ![p] = "gone"]
    /\ UNCHANGED <<child, holder, reap, closing, captured, exited>>

\* The mutex is taken for as long as the child lives; a child that close took is not
\* waited for.
ReapLock(p) ==
    /\ reap[p] = "lock"
    /\ holder[p] = "nobody"
    /\ IF p \in child
       THEN /\ holder' = [holder EXCEPT ![p] = "reap"]
            /\ reap' = [reap EXCEPT ![p] = "wait"]
       ELSE /\ reap' = [reap EXCEPT ![p] = "done"]
            /\ UNCHANGED holder
    /\ UNCHANGED <<os, child, closing, captured, exited>>

\* (seeded fault) the exit is awaited for a while, and then taken for granted.
WaitIsOver(p) == TRUE

HasExited(p) == os[p] = "gone"

ReapWait(p) ==
    /\ reap[p] = "wait"
    /\ HasExited(p)
    /\ holder' = [holder EXCEPT ![p] = "nobody"]
    /\ reap' = [reap EXCEPT ![p] = "capture"]
    /\ UNCHANGED <<os, child, closing, captured, exited>>

ReapCapture(p) ==
    /\ reap[p] = "capture"
    /\ captured' = captured \cup {p}
    /\ reap' = [reap EXCEPT ![p] = "store"]
    /\ UNCHANGED <<os, child, holder, closing, exited>>

ReapStore(p) ==
    /\ reap[p] = "store"
    /\ exited' = exited \cup {p}
    /\ reap' = [reap EXCEPT ![p] = "done"]
    /\ UNCHANGED <<os, child, holder, closing, captured>>

----------------------------------------------------------------------------
(* close *)

BeginClose(p) ==
    /\ closing[p] = "spawned"
    /\ closing' = [closing EXCEPT ![p] = "lock"]
    /\ UNCHANGED <<os, child, holder, reap, captured, exited>>

CloseLock(p) ==
    /\ closing[p] = "lock"
    /\ holder[p] = "nobody"
    /\ holder' = [holder EXCEPT ![p] = "close"]
    /\ child' = child \ {p}
    /\ closing' = [closing EXCEPT ![p] = "kill"]
    /\ UNCHANGED <<os, reap, captured, exited>>

\* kill sends the signal and waits for the exit.
KillChild(p) == os' = [os EXCEPT ![p] = "gone"]

CloseKill(p) ==
    /\ closing[p] = "kill"
    /\ KillChild(p)
    /\ closing' = [closing EXCEPT ![p] = "store"]
    /\ UNCHANGED <<child, holder, reap, captured, exited>>

\* (seeded fault) close leaves the report to the reap task.
LeaveToReap(p) == UNCHANGED exited

MarkExited(p) == exited' = exited \cup {p}

CloseStore(p) ==
    /\ closing[p] = "store"
    /\ MarkExited(p)
    /\ holder' = [holder EXCEPT ![p] = "nobody"]
    /\ closing' = [closing EXCEPT ![p] = "done"]
    /\ UNCHANGED <<os, child, reap, captured>>

ReapStep(p) == ReapLock(p) \/ ReapWait(p) \/ ReapCapture(p) \/ ReapStore(p)
CloseStep(p) == BeginClose(p) \/ CloseLock(p) \/ CloseKill(p) \/ CloseStore(p)

ShellStep(p) == Exits(p) \/ ReapStep(p) \/ CloseStep(p)

=============================================================================
