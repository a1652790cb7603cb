------------------------------ MODULE RtmpCall ------------------------------
(***************************************************************************)
(* An RTMP call (instances/rtmp_call.rs): one slot for the ffmpeg that     *)
(* pushes to the RTMP URL, and three flags, each behind its own lock or    *)
(* atomic.  pause takes ffmpeg out of the slot and has it closed, resume   *)
(* launches another, stop takes it out for good; the methods may be called *)
(* by any number of tasks at once.                                         *)
(*                                                                         *)
(* The playback position (started_at, resume_ms) decides what a new ffmpeg *)
(* is told to seek to and nothing of what happens here; it is left out, so *)
(* seek_by either stops the call or does nothing.                          *)
(***************************************************************************)
EXTENDS ShellReader, FiniteSets

CONSTANTS Tasks,   \* the async tasks that hold the call
          OpsOf    \* the methods each of them may invoke

Ops == {"set_source", "pause", "resume", "mute", "unmute", "seek_by", "stop"}

ASSUME RtmpCallAssumption ==
    /\ Procs \subseteq Nat \ {0}
    /\ OpsOf \in [Tasks -> SUBSET Ops]

NoProc == 0

VARIABLES
    closed, paused, muted,   \* the atomics
    cmd,                     \* Mutex<Option<ShellReader>>
    failed,                  \* whether the last resume could not spawn its ffmpeg
    pc, op,                  \* where each task is, and in which method
    mine                     \* the process a task has launched or taken out

callVars == <<closed, paused, muted, cmd, failed, pc, op, mine>>
vars == <<callVars, shellVars>>

Init ==
    /\ ShellInit
    /\ closed = FALSE /\ paused = FALSE /\ muted = FALSE
    /\ cmd = NoProc /\ failed = FALSE
    /\ pc = [t \in Tasks |-> "idle"] /\ op = [t \in Tasks |-> "none"]
    /\ mine = [t \in Tasks |-> NoProc]

----------------------------------------------------------------------------
(* Helpers *)

\* t goes on at label, with process p in its hand.
Goto(t, label, p) ==
    /\ pc' = [pc EXCEPT ![t] = label]
    /\ op' = IF label = "idle" THEN [op EXCEPT ![t] = "none"] ELSE op
    /\ mine' = [mine EXCEPT ![t] = p]

\* The closed check, or stop's swap of the flag, and then the first step of each method.
First(o) ==
    CASE o = "set_source" -> "launch"
      [] o = "stop" -> "take"
      [] o = "seek_by" -> "idle"
      [] OTHER -> "swap"

Begin(t, o) ==
    /\ pc[t] = "idle"
    /\ o \in OpsOf[t]
    /\ ~closed
    /\ pc' = [pc EXCEPT ![t] = First(o)]
    /\ op' = [op EXCEPT ![t] = IF First(o) = "idle" THEN "none" ELSE o]
    /\ UNCHANGED mine

----------------------------------------------------------------------------
(* The methods *)

BeginMethod(t) ==
    /\ \E o \in Ops \ {"stop"} : Begin(t, o)
    /\ UNCHANGED <<closed, paused, muted, cmd, failed, shellVars>>

\* (seeded fault) the call is not marked as closed.
LeaveOpen == UNCHANGED closed

MarkClosed == closed' = TRUE

\* stop; or seek_by to before the beginning, which stops the call.
BeginStop(t) ==
    /\ \/ Begin(t, "stop")
       \/ /\ pc[t] = "idle" /\ "seek_by" \in OpsOf[t] /\ ~closed
          /\ pc' = [pc EXCEPT ![t] = "take"]
          /\ op' = [op EXCEPT ![t] = "stop"]
          /\ UNCHANGED mine
    /\ MarkClosed
    /\ UNCHANGED <<paused, muted, cmd, failed, shellVars>>

\* A toggle that finds its flag set returns Ok(false).
Swap(t) ==
    /\ pc[t] = "swap"
    /\ \/ /\ op[t] = "pause"
          /\ paused' = TRUE
          /\ Goto(t, IF paused THEN "idle" ELSE "take", NoProc)
          /\ UNCHANGED muted
       \/ /\ op[t] = "resume"
          /\ paused' = FALSE
          /\ Goto(t, IF paused THEN "launch" ELSE "idle", NoProc)
          /\ UNCHANGED muted
       \/ /\ op[t] \in {"mute", "unmute"}
          /\ muted' = (op[t] = "mute")
          /\ Goto(t, "idle", NoProc)
          /\ UNCHANGED paused
    /\ UNCHANGED <<closed, cmd, failed, shellVars>>

\* set_source and resume: a new ffmpeg, unless it cannot be spawned.
Start(t) ==
    /\ pc[t] = "launch"
    /\ \/ /\ \E p \in Procs :
                 /\ \A q \in Procs : q < p => os[q] # "none"
                 /\ Launch(p)
                 /\ Goto(t, "install", p)
          /\ UNCHANGED failed
       \/ /\ Goto(t, "idle", NoProc)
          /\ failed' = (failed \/ op[t] = "resume")
          /\ UNCHANGED shellVars
    /\ UNCHANGED <<closed, paused, muted, cmd>>

\* The reader that was in the slot is dropped; its process goes on.
Install(t) ==
    /\ pc[t] = "install"
    /\ cmd' = mine[t]
    /\ failed' = FALSE
    /\ Goto(t, "idle", NoProc)
    /\ UNCHANGED <<closed, paused, muted, shellVars>>

\* (seeded fault) ffmpeg is closed in its slot.
CloseInPlace == UNCHANGED cmd

EmptySlot == cmd' = NoProc

AfterTake(t) ==
    IF cmd # NoProc THEN "hand" ELSE IF op[t] = "stop" THEN "reset" ELSE "idle"

\* pause and stop: cmd.lock().take()
Take(t) ==
    /\ pc[t] = "take"
    /\ EmptySlot
    /\ Goto(t, AfterTake(t), cmd)
    /\ UNCHANGED <<closed, paused, muted, failed, shellVars>>

\* (seeded fault) ffmpeg is dropped, not closed.
DropReader(p) == UNCHANGED shellVars

GiveUp(p) == HandToClose(p)

Hand(t) ==
    /\ pc[t] = "hand"
    /\ GiveUp(mine[t])
    /\ Goto(t, IF op[t] = "stop" THEN "reset" ELSE "idle", NoProc)
    /\ UNCHANGED <<closed, paused, muted, cmd, failed>>

Reset(t) ==
    /\ pc[t] = "reset"
    /\ paused' = FALSE
    /\ muted' = FALSE
    /\ Goto(t, "idle", NoProc)
    /\ UNCHANGED <<closed, cmd, failed, shellVars>>

----------------------------------------------------------------------------
(* The specification *)

TaskStep(t) == Swap(t) \/ Start(t) \/ Install(t) \/ Take(t) \/ Hand(t) \/ Reset(t)

Next ==
    \/ \E t \in Tasks : BeginMethod(t) \/ BeginStop(t) \/ TaskStep(t)
    \/ \E p \in Procs : ShellStep(p) /\ UNCHANGED callVars

Spec == Init /\ [][Next]_vars

\* Methods do not wait for anything; the runtime polls the reap and close tasks.  Nothing
\* makes ffmpeg exit: the input may be endless and the ingest patient.
Fairness ==
    /\ \A t \in Tasks : WF_vars(TaskStep(t))
    /\ \A p \in Procs : WF_vars(ReapStep(p) /\ UNCHANGED callVars)
    /\ \A p \in Procs : WF_vars(CloseStep(p) /\ UNCHANGED callVars)

FairSpec == Spec /\ Fairness

----------------------------------------------------------------------------
(* Properties *)

InHand == {mine[t] : t \in Tasks} \ {NoProc}

\* Every variable has its type, and the tasks that hold a process know which.
TypeOK ==
    /\ os \in [Procs -> {"none", "running", "gone"}]
    /\ child \subseteq Procs /\ captured \subseteq Procs /\ exited \subseteq Procs
    /\ holder \in [Procs -> {"nobody", "reap", "close"}]
    /\ reap \in [Procs -> {"none", "lock", "wait", "capture", "store", "done"}]
    /\ closing \in [Procs -> {"no", "spawned", "lock", "kill", "store", "done"}]
    /\ {closed, paused, muted, failed} \subseteq BOOLEAN
    /\ cmd \in Procs \cup {NoProc}
    /\ pc \in [Tasks -> {"idle", "swap", "launch", "install", "take", "hand", "reset"}]
    /\ op \in [Tasks -> Ops \cup {"none"}]
    /\ mine \in [Tasks -> Procs \cup {NoProc}]
    /\ \A t \in Tasks : mine[t] # NoProc <=> pc[t] \in {"install", "hand"}

\* A reader has one owner: the slot, the task that launched it or took it out, or the task
\* that closes it.  Two owners would be two closes of one ffmpeg, or a call that says it is
\* Connected through one that is being killed (take in pause and stop).
OneOwner ==
    /\ TypeOK
    /\ \A p \in Procs : p = cmd \/ p \in InHand => closing[p] = "no"
    /\ cmd \notin InHand
    /\ \A t, u \in Tasks : mine[t] = mine[u] /\ mine[t] # NoProc => t = u

\* What a call reports is what it does: once it was given a source, a call that is open and
\* not paused has an ffmpeg in its slot, unless a method is on the way or the last resume could
\* not spawn one (pause, resume, set_source and seek_by on one slot and one flag; it takes
\* one task that does the pausing and resuming).
PlayingMeansPushing ==
    /\ ~closed /\ ~paused /\ ~failed
    /\ \E p \in Procs : os[p] # "none"
    /\ \A t \in Tasks : pc[t] \in {"idle", "swap"}
    => cmd # NoProc

\* Readers whose process was launched and that nobody owns any more.
Abandoned == {p \in Procs : os[p] # "none" /\ closing[p] = "no" /\ p # cmd} \ InHand

\* A reader is only ever abandoned by the one that takes its slot: pause and stop give up
\* no ffmpeg that they do not have closed.
AbandonedByReplacement ==
    [][\A p \in Abandoned' \ Abandoned : p = cmd /\ cmd' \in InHand]_vars

\* A reader reports the exit of its process, and its close returns, only when the process is
\* gone (the reap task after wait, close after kill).
ExitedMeansGone == \A p \in Procs : p \in exited \/ closing[p] = "done" => os[p] = "gone"

\* Every exit is noticed, by the reap task or by close, whoever of them got the child.
ExitIsNoticed == \A p \in Procs : os[p] = "gone" ~> p \in exited

\* "Stop tears down RTMP ffmpeg process."
StopTearsDown == \A p \in Procs : closed /\ cmd = p ~> os[p] = "gone"

=============================================================================
