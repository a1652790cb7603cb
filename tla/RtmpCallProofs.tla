--------------------------- MODULE RtmpCallProofs ---------------------------
(***************************************************************************)
(* Proofs about RtmpCall and the ffmpeg subprocesses of ShellReader, for   *)
(* every set of tasks, every assignment of methods to them and any number  *)
(* of subprocesses.                                                        *)
(***************************************************************************)
EXTENDS RtmpCall, TLAPS

\* A process that was not launched is nobody's.
Fresh ==
    \A p \in Procs : os[p] = "none" =>
        closing[p] = "no" /\ reap[p] = "none" /\ p # cmd /\ \A t \in Tasks : mine[t] # p

\* Who waited for a process, or killed it, goes on when it is gone.
AfterExit ==
    \A p \in Procs :
        closing[p] \in {"store", "done"} \/ reap[p] \in {"capture", "store"} \/ p \in exited => os[p] = "gone"

\* OneOwner, task by task.
Owners ==
    /\ \A p \in Procs : closing[p] # "no" => p # cmd /\ \A t \in Tasks : mine[t] # p
    /\ \A t \in Tasks : mine[t] # NoProc => mine[t] # cmd
    /\ \A t, u \in Tasks : mine[t] = mine[u] /\ mine[t] # NoProc => t = u

\* The invariant that is inductive.
IInv == TypeOK /\ Fresh /\ AfterExit /\ Owners

\* What a task that goes on does to the tasks.
LEMMA GotoStep ==
    ASSUME TypeOK, NEW t \in Tasks, NEW l \in {"idle", "launch", "install", "take", "hand", "reset"},
           NEW p \in Procs \cup {NoProc}, Goto(t, l, p), p # NoProc <=> l \in {"install", "hand"}
    PROVE  /\ pc' \in [Tasks -> {"idle", "swap", "launch", "install", "take", "hand", "reset"}]
           /\ op' \in [Tasks -> Ops \cup {"none"}]
           /\ mine' \in [Tasks -> Procs \cup {NoProc}]
           /\ \A u \in Tasks : mine'[u] # NoProc <=> pc'[u] \in {"install", "hand"}
           /\ mine'[t] = p
           /\ \A u \in Tasks \ {t} : mine'[u] = mine[u]
  BY DEF TypeOK, Goto

\* A step of a task, or of a process, keeps the invariant.
LEMMA TaskKeeps ==
    ASSUME IInv, NEW t \in Tasks, BeginMethod(t) \/ BeginStop(t) \/ TaskStep(t)
    PROVE  IInv'
  <1> USE RtmpCallAssumption DEF IInv, NoProc
  <1>1. CASE BeginMethod(t) \/ BeginStop(t)
    <2>1. UNCHANGED <<cmd, mine, paused, muted, failed, shellVars>> /\ closed' \in BOOLEAN
      BY <1>1 DEF BeginMethod, BeginStop, MarkClosed, Begin, TypeOK
    <2>2. /\ pc' \in [Tasks -> {"idle", "swap", "launch", "install", "take", "hand", "reset"}]
          /\ op' \in [Tasks -> Ops \cup {"none"}]
          /\ \A u \in Tasks : pc'[u] \in {"install", "hand"} <=> pc[u] \in {"install", "hand"}
      BY <1>1 DEF BeginMethod, BeginStop, Begin, First, TypeOK, Ops
    <2> QED
      BY <2>1, <2>2 DEF shellVars, TypeOK, Fresh, AfterExit, Owners
  <1>2. CASE Swap(t)
    <2>1. UNCHANGED <<cmd, closed, failed, shellVars>> /\ paused' \in BOOLEAN /\ muted' \in BOOLEAN
      BY <1>2 DEF Swap, TypeOK
    <2>2. \E l \in {"idle", "launch", "take"} : Goto(t, l, NoProc)
      BY <1>2 DEF Swap
    <2>3. mine'[t] = NoProc /\ \A u \in Tasks \ {t} : mine'[u] = mine[u]
      BY <2>2, GotoStep
    <2>4. TypeOK'
      BY <2>1, <2>2, GotoStep DEF TypeOK, shellVars
    <2>5. Fresh' /\ AfterExit'
      BY <2>1, <2>3 DEF shellVars, Fresh, AfterExit
    <2>6. Owners'
      BY <2>1, <2>3 DEF shellVars, Owners
    <2> QED
      BY <2>4, <2>5, <2>6
  <1>3. CASE Start(t)
    <2>1. UNCHANGED <<closed, paused, muted, cmd>> /\ failed' \in BOOLEAN
      BY <1>3 DEF Start, TypeOK
    <2>2. CASE Goto(t, "idle", NoProc) /\ UNCHANGED shellVars
      <3>1. mine'[t] = NoProc /\ \A u \in Tasks \ {t} : mine'[u] = mine[u]
        BY <2>2, GotoStep
      <3>2. TypeOK'
        BY <2>1, <2>2, GotoStep DEF TypeOK, shellVars
      <3> QED
        BY <2>1, <2>2, <3>1, <3>2 DEF shellVars, Fresh, AfterExit, Owners
    <2>3. ASSUME NEW p \in Procs, Launch(p), Goto(t, "install", p) PROVE IInv'
      <3>1. mine'[t] = p /\ \A u \in Tasks \ {t} : mine'[u] = mine[u]
        BY <2>3, GotoStep
      <3>2. TypeOK'
        BY <2>1, <2>3, GotoStep DEF TypeOK, Launch
      <3>3. os[p] = "none" /\ p # cmd /\ closing[p] = "no" /\ \A u \in Tasks : mine[u] # p
        BY <2>3 DEF Launch, Fresh
      <3>4. Fresh' /\ AfterExit'
        BY <2>1, <2>3, <3>1, <3>3 DEF Launch, TypeOK, Fresh, AfterExit
      <3>5. Owners'
        BY <2>1, <2>3, <3>1, <3>3 DEF Launch, TypeOK, Owners
      <3> QED
        BY <3>2, <3>4, <3>5
    <2> QED
      BY <1>3, <2>2, <2>3 DEF Start
  <1>4. CASE Install(t)
    <2>1. UNCHANGED <<closed, paused, muted, shellVars>> /\ failed' \in BOOLEAN /\ cmd' = mine[t]
      BY <1>4 DEF Install
    <2>2. mine[t] \in Procs /\ cmd' \in Procs
      BY <1>4, <2>1 DEF Install, TypeOK
    <2>3. mine'[t] = NoProc /\ \A u \in Tasks \ {t} : mine'[u] = mine[u]
      BY <1>4, GotoStep DEF Install
    <2>4. TypeOK'
      BY <1>4, <2>1, <2>2, GotoStep DEF Install, TypeOK, shellVars
    <2>5. Fresh' /\ AfterExit'
      <3>1. \A p \in Procs : os[p] = "none" => p # mine[t]
        BY DEF Fresh
      <3>2. Fresh'
        BY <2>1, <2>2, <2>3, <3>1 DEF shellVars, Fresh
      <3>3. AfterExit'
        BY <2>1 DEF shellVars, AfterExit
      <3> QED
        BY <3>2, <3>3
    <2>6. ASSUME NEW p \in Procs, closing[p] # "no" PROVE p # mine[t] /\ \A u \in Tasks : mine'[u] # p
      BY <2>3, <2>6 DEF Owners
    <2>7. ASSUME NEW u \in Tasks, mine'[u] # NoProc PROVE mine'[u] # mine[t] /\ u # t
      BY <2>2, <2>3, <2>7 DEF Owners
    <2>8. Owners'
      BY <2>1, <2>3, <2>6, <2>7 DEF shellVars, Owners
    <2> QED
      BY <2>4, <2>5, <2>8
  <1>5. CASE Take(t)
    <2>1. UNCHANGED <<closed, paused, muted, failed, shellVars>> /\ cmd' = NoProc
      BY <1>5 DEF Take, EmptySlot
    <2>2. AfterTake(t) \in {"hand", "reset", "idle"} /\ (AfterTake(t) = "hand" <=> cmd # NoProc)
      BY DEF AfterTake
    <2>3. cmd \in Procs \cup {NoProc}
      BY DEF TypeOK
    <2>4. mine'[t] = cmd /\ \A u \in Tasks \ {t} : mine'[u] = mine[u]
      BY <1>5, <2>2, <2>3, GotoStep DEF Take
    <2>5. TypeOK'
      <3>1. /\ pc' \in [Tasks -> {"idle", "swap", "launch", "install", "take", "hand", "reset"}]
            /\ op' \in [Tasks -> Ops \cup {"none"}]
            /\ mine' \in [Tasks -> Procs \cup {NoProc}]
            /\ \A u \in Tasks : mine'[u] # NoProc <=> pc'[u] \in {"install", "hand"}
        BY <1>5, <2>2, <2>3, GotoStep DEF Take
      <3> QED
        BY <2>1, <3>1 DEF TypeOK, shellVars
    <2>6. Fresh' /\ AfterExit'
      <3>1. ASSUME NEW p \in Procs, os[p] = "none"
            PROVE  closing[p] = "no" /\ reap[p] = "none" /\ p # cmd' /\ \A u \in Tasks : mine'[u] # p
        BY <2>1, <2>4, <3>1 DEF Fresh
      <3>2. Fresh'
        BY <2>1, <3>1 DEF shellVars, Fresh
      <3>3. AfterExit'
        BY <2>1 DEF shellVars, AfterExit
      <3> QED
        BY <3>2, <3>3
    <2>7. ASSUME NEW p \in Procs, closing[p] # "no" PROVE p # cmd /\ \A u \in Tasks : mine'[u] # p
      BY <2>4, <2>7 DEF Owners
    <2>8. ASSUME NEW u \in Tasks, NEW v \in Tasks, mine'[u] = mine'[v], mine'[u] # NoProc PROVE u = v
      BY <2>4, <2>8 DEF Owners
    <2>9. Owners'
      BY <2>1, <2>7, <2>8 DEF shellVars, Owners
    <2> QED
      BY <2>5, <2>6, <2>9
  <1>6. CASE Hand(t)
    <2>1. UNCHANGED <<closed, paused, muted, cmd, failed>> /\ HandToClose(mine[t])
      BY <1>6 DEF Hand, GiveUp
    <2>2. mine[t] \in Procs
      BY <1>6 DEF Hand, TypeOK
    <2>3. mine'[t] = NoProc /\ \A u \in Tasks \ {t} : mine'[u] = mine[u]
      BY <1>6, GotoStep DEF Hand
    <2>4. TypeOK'
      BY <1>6, <2>1, <2>2, GotoStep DEF Hand, HandToClose, TypeOK
    <2>5. Fresh' /\ AfterExit'
      BY <2>1, <2>2, <2>3 DEF HandToClose, TypeOK, Fresh, AfterExit
    <2>6. Owners'
      BY <2>1, <2>2, <2>3 DEF HandToClose, TypeOK, Owners
    <2> QED
      BY <2>4, <2>5, <2>6
  <1>7. CASE Reset(t)
    <2>1. UNCHANGED <<closed, cmd, failed, shellVars>> /\ paused' \in BOOLEAN /\ muted' \in BOOLEAN
      BY <1>7 DEF Reset
    <2>2. mine'[t] = NoProc /\ \A u \in Tasks \ {t} : mine'[u] = mine[u]
      BY <1>7, GotoStep DEF Reset
    <2>3. TypeOK'
      BY <1>7, <2>1, GotoStep DEF Reset, TypeOK, shellVars
    <2> QED
      BY <2>1, <2>2, <2>3 DEF shellVars, Fresh, AfterExit, Owners
  <1> QED
    BY <1>1, <1>2, <1>3, <1>4, <1>5, <1>6, <1>7 DEF TaskStep

LEMMA ProcessKeeps ==
    ASSUME IInv, NEW p \in Procs, ShellStep(p), UNCHANGED callVars
    PROVE  IInv'
  <1> USE DEF IInv, callVars
  <1>1. UNCHANGED callVars /\ (\A q \in Procs : os'[q] = "none" <=> os[q] = "none")
        /\ (\A q \in Procs : closing'[q] = "no" <=> closing[q] = "no")
        /\ (\A q \in Procs : reap'[q] = "none" <=> reap[q] = "none")
    BY DEF ShellStep, Exits, ReapStep, ReapLock, ReapWait, ReapCapture, ReapStore, CloseStep, BeginClose,
           CloseLock, CloseKill, KillChild, CloseStore, MarkExited, TypeOK, Fresh
  <1>2. Fresh' /\ Owners'
    BY <1>1 DEF Fresh, Owners
  <1>3. TypeOK'
    BY DEF ShellStep, Exits, ReapStep, ReapLock, ReapWait, ReapCapture, ReapStore, CloseStep, BeginClose,
           CloseLock, CloseKill, KillChild, CloseStore, MarkExited, TypeOK
  <1>4. AfterExit'
    BY DEF ShellStep, Exits, ReapStep, ReapLock, ReapWait, HasExited, ReapCapture, ReapStore, CloseStep,
           BeginClose, CloseLock, CloseKill, KillChild, CloseStore, MarkExited, TypeOK, AfterExit
  <1> QED
    BY <1>2, <1>3, <1>4

\* The invariant holds in every behaviour.
THEOREM Invariance == Spec => []IInv
  <1>1. Init => IInv
    <2> SUFFICES ASSUME Init PROVE IInv
      OBVIOUS
    <2>1. TypeOK
      BY RtmpCallAssumption DEF Init, ShellInit, TypeOK, NoProc
    <2>2. Fresh /\ AfterExit /\ Owners
      BY RtmpCallAssumption DEF Init, ShellInit, Fresh, AfterExit, Owners, NoProc
    <2> QED
      BY <2>1, <2>2 DEF IInv
  <1>2. IInv /\ [Next]_vars => IInv'
    <2> SUFFICES ASSUME IInv, [Next]_vars PROVE IInv'
      OBVIOUS
    <2>1. CASE UNCHANGED vars
      BY <2>1 DEF vars, callVars, shellVars, IInv, TypeOK, Fresh, AfterExit, Owners
    <2> QED
      BY <2>1, TaskKeeps, ProcessKeeps DEF Next
  <1> QED
    BY <1>1, <1>2, PTL DEF Spec

\* A reader has one owner, whatever the methods that are called at once (take in pause and
\* stop, the slot in set_source and resume).
THEOREM ReadersHaveOneOwner == Spec => []OneOwner
  <1>1. IInv => OneOwner
    BY RtmpCallAssumption DEF IInv, TypeOK, Owners, OneOwner, InHand, NoProc
  <1> QED
    BY <1>1, Invariance, PTL

\* A reader that reports the exit, and a close that returned, left no process behind.
THEOREM ExitIsTrue == Spec => []ExitedMeansGone
  <1>1. IInv => ExitedMeansGone
    BY DEF IInv, AfterExit, ExitedMeansGone
  <1> QED
    BY <1>1, Invariance, PTL

\* pause and stop give up no ffmpeg that they do not have closed: only the replacement in
\* set_source and resume drops a reader whose process goes on.
THEOREM OnlyReplacementAbandons == Spec => AbandonedByReplacement
  <1>1. IInv /\ [Next]_vars => [\A p \in Abandoned' \ Abandoned : p = cmd /\ cmd' \in InHand]_vars
    <2> SUFFICES ASSUME IInv, Next, NEW p \in Abandoned', p \notin Abandoned
                 PROVE  p = cmd /\ cmd' \in InHand
      OBVIOUS
    <2> USE RtmpCallAssumption DEF NoProc
    <2>1. p \in Procs /\ os'[p] # "none" /\ closing'[p] = "no" /\ p # cmd' /\ \A t \in Tasks : mine'[t] # p
      BY DEF Abandoned, InHand
    <2>2. os[p] = "none" \/ closing[p] # "no" \/ p = cmd \/ \E t \in Tasks : mine[t] = p
      BY <2>1 DEF Abandoned, InHand
    <2>3. ASSUME NEW t \in Tasks, Install(t) PROVE p = cmd /\ cmd' \in InHand
      <3>1. cmd' = mine[t] /\ UNCHANGED shellVars /\ mine[t] \in Procs
        BY <2>3 DEF Install, IInv, TypeOK
      <3>2. \A u \in Tasks \ {t} : mine'[u] = mine[u]
        BY <2>3, GotoStep DEF Install, IInv
      <3>3. cmd' \in InHand
        BY <3>1 DEF InHand
      <3>4. p = cmd
        BY <2>1, <2>2, <3>1, <3>2 DEF shellVars
      <3> QED
        BY <3>3, <3>4
    <2>4. ASSUME NEW t \in Tasks, BeginMethod(t) \/ BeginStop(t) PROVE FALSE
      <3>1. UNCHANGED <<cmd, mine, shellVars>>
        BY <2>4 DEF BeginMethod, BeginStop, Begin
      <3> QED
        BY <2>1, <2>2, <3>1 DEF shellVars
    <2>5. ASSUME NEW t \in Tasks, Swap(t) \/ Reset(t) PROVE FALSE
      <3>1. UNCHANGED <<cmd, shellVars>> /\ mine[t] = NoProc
        BY <2>5 DEF Swap, Reset, IInv, TypeOK
      <3>2. \A u \in Tasks \ {t} : mine'[u] = mine[u]
        BY <2>5 DEF Swap, Reset, Goto, IInv, TypeOK
      <3> QED
        BY <2>1, <2>2, <3>1, <3>2 DEF shellVars
    <2>6. ASSUME NEW t \in Tasks, Start(t) PROVE FALSE
      <3>1. cmd' = cmd /\ mine[t] = NoProc /\ \A u \in Tasks \ {t} : mine'[u] = mine[u]
        BY <2>6 DEF Start, Goto, IInv, TypeOK
      <3>2. \/ os' = os /\ closing' = closing
            \/ \E q \in Procs : Launch(q) /\ mine'[t] = q
        BY <2>6 DEF Start, Goto, shellVars, IInv, TypeOK
      <3>3. ASSUME NEW q \in Procs, Launch(q), mine'[t] = q PROVE FALSE
        <4>1. p # q
          BY <2>1, <3>3
        <4>2. os'[p] = os[p] /\ closing' = closing
          BY <3>3, <4>1, <2>1 DEF Launch, IInv, TypeOK
        <4> QED
          BY <2>1, <2>2, <3>1, <4>2
      <3> QED
        BY <2>1, <2>2, <3>1, <3>2, <3>3
    <2>7. ASSUME NEW t \in Tasks, Take(t) PROVE FALSE
      <3>1. UNCHANGED shellVars /\ mine'[t] = cmd /\ mine[t] = NoProc /\ \A u \in Tasks \ {t} : mine'[u] = mine[u]
        BY <2>7 DEF Take, Goto, IInv, TypeOK
      <3> QED
        BY <2>1, <2>2, <3>1 DEF shellVars
    <2>8. ASSUME NEW t \in Tasks, Hand(t) PROVE FALSE
      <3>1. cmd' = cmd /\ HandToClose(mine[t]) /\ \A u \in Tasks \ {t} : mine'[u] = mine[u]
        BY <2>8 DEF Hand, GiveUp, Goto, IInv, TypeOK
      <3>2. p # mine[t]
        BY <2>1, <3>1 DEF HandToClose, IInv, TypeOK
      <3>3. os' = os /\ closing'[p] = closing[p]
        BY <3>1, <3>2, <2>1 DEF HandToClose, IInv, TypeOK
      <3> QED
        BY <2>1, <2>2, <3>1, <3>2, <3>3
    <2>9. ASSUME NEW q \in Procs, ShellStep(q), UNCHANGED callVars PROVE FALSE
      <3>1. (os'[p] = "none" <=> os[p] = "none") /\ (closing'[p] = "no" <=> closing[p] = "no")
        BY <2>1, <2>9 DEF ShellStep, Exits, ReapStep, ReapLock, ReapWait, ReapCapture, ReapStore, CloseStep,
           BeginClose, CloseLock, CloseKill, KillChild, CloseStore, MarkExited, IInv, TypeOK, Fresh
      <3> QED
        BY <2>1, <2>2, <2>9, <3>1 DEF callVars
    <2> QED
      BY <2>3, <2>4, <2>5, <2>6, <2>7, <2>8, <2>9 DEF Next, TaskStep
  <1> QED
    BY <1>1, Invariance, PTL DEF Spec, AbandonedByReplacement

----------------------------------------------------------------------------
(* What a call reports is what it does.                                     *)

\* Where a task is follows from the method it is in; stop closed the call.
InMethod(t) ==
    \/ op[t] = "none" /\ pc[t] = "idle"
    \/ op[t] = "stop" /\ pc[t] \in {"take", "hand", "reset"} /\ closed
    \/ /\ op[t] \in OpsOf[t]
       /\ \/ op[t] = "set_source" /\ pc[t] \in {"launch", "install"}
          \/ op[t] = "pause" /\ pc[t] \in {"swap", "take", "hand"}
          \/ op[t] = "resume" /\ pc[t] \in {"swap", "launch", "install"}
          \/ op[t] \in {"mute", "unmute"} /\ pc[t] = "swap"

\* One task does the pausing and resuming.
OnePauser ==
    \A t, u \in Tasks :
        OpsOf[t] \cap {"pause", "resume"} # {} /\ OpsOf[u] \cap {"pause", "resume"} # {} => t = u

\* A reader is on its way into the slot.
Coming(t) == pc[t] = "install" \/ (pc[t] = "launch" /\ op[t] = "resume")

\* PlayingMeansPushing as an inductive invariant: whoever empties the slot of an open call has
\* paused it, and whoever ends the pause brings the next reader.
Pushing ==
    /\ \A t \in Tasks : InMethod(t)
    /\ ~closed =>
        /\ \A t \in Tasks : op[t] = "pause" /\ pc[t] \in {"take", "hand"} => paused
        /\ ~paused /\ ~failed /\ (\E p \in Procs : os[p] # "none") =>
               cmd # NoProc \/ \E t \in Tasks : Coming(t)

\* Nobody but the pauser sets the flag.
LEMMA OnePauses ==
    ASSUME OnePauser, Pushing, NEW t \in Tasks, op[t] \in {"pause", "resume"}
    PROVE  \A u \in Tasks \ {t} : op[u] \notin {"pause", "resume"}
  <1>1. \A u \in Tasks : op[u] \in {"pause", "resume"} => op[u] \in OpsOf[u]
    BY DEF Pushing, InMethod
  <1> QED
    BY <1>1 DEF OnePauser

\* Every step of every task keeps it.
LEMMA PushingStep ==
    ASSUME OnePauser, IInv, Pushing, NEW t \in Tasks, BeginMethod(t) \/ BeginStop(t) \/ TaskStep(t)
    PROVE  Pushing'
  <1> USE DEF IInv, TypeOK
  <1>0. /\ InMethod(t)
        /\ \A u \in Tasks \ {t} : pc'[u] = pc[u] /\ op'[u] = op[u]
    BY DEF Pushing, BeginMethod, BeginStop, Begin, TaskStep, Swap, Start, Install, Take, Hand, Reset, Goto
  <1>1. closed => closed'
    BY DEF BeginMethod, BeginStop, MarkClosed, TaskStep, Swap, Start, Install, Take, Hand, Reset
  <1>2. \A u \in Tasks \ {t} : InMethod(u)'
    BY <1>0, <1>1 DEF Pushing, InMethod
  <1>3. InMethod(t)'
    <2>1. CASE BeginMethod(t)
      BY <2>1 DEF BeginMethod, Begin, First, Ops, InMethod
    <2>2. CASE BeginStop(t)
      BY <2>2 DEF BeginStop, Begin, First, MarkClosed, InMethod
    <2>3. CASE Swap(t)
      BY <1>0, <2>3 DEF Swap, Goto, InMethod
    <2>4. CASE Start(t) \/ Install(t)
      BY <1>0, <2>4 DEF Start, Install, Goto, InMethod
    <2>5. CASE Take(t) \/ Hand(t) \/ Reset(t)
      BY <1>0, <2>5 DEF Take, AfterTake, Hand, Reset, Goto, InMethod
    <2> QED
      BY <2>1, <2>2, <2>3, <2>4, <2>5 DEF TaskStep
  <1>4. ASSUME ~closed', NEW u \in Tasks, op'[u] = "pause", pc'[u] \in {"take", "hand"}
        PROVE  paused'
    <2>1. CASE u # t
      <3>1. op[u] = "pause" /\ pc[u] \in {"take", "hand"} /\ paused
        BY <1>0, <1>1, <1>4, <2>1 DEF Pushing
      <3>2. op[t] \notin {"pause", "resume"}
        BY <2>1, <3>1, OnePauses
      <3> QED
        BY <1>0, <1>1, <1>4, <3>1, <3>2
           DEF BeginMethod, BeginStop, TaskStep, Swap, Start, Install, Take, Hand, Reset, InMethod
    <2>2. CASE u = t /\ Swap(t)
      BY <1>0, <1>4, <2>2 DEF Swap, Goto, InMethod
    <2>3. CASE u = t /\ Take(t)
      BY <1>0, <1>1, <1>4, <2>3 DEF Take, Goto, Pushing, InMethod
    <2>4. CASE u = t /\ (BeginMethod(t) \/ BeginStop(t))
      BY <1>4, <2>4 DEF BeginMethod, BeginStop, Begin, First, Ops
    <2>5. CASE u = t /\ (Start(t) \/ Install(t) \/ Hand(t) \/ Reset(t))
      BY <1>4, <2>5 DEF Start, Install, Hand, Reset, Goto
    <2> QED
      BY <2>1, <2>2, <2>3, <2>4, <2>5 DEF TaskStep
  <1>5. ASSUME ~closed', ~paused', ~failed', \E p \in Procs : os'[p] # "none", cmd' = NoProc
        PROVE  \E u \in Tasks : Coming(u)'
    <2>0. ~closed /\ (\A u \in Tasks \ {t} : Coming(u) => Coming(u)')
      BY <1>0, <1>1, <1>5 DEF Coming
    <2>1. ASSUME UNCHANGED <<paused, failed, cmd, os>>, ~Coming(t) PROVE \E u \in Tasks : Coming(u)'
      BY <1>5, <2>0, <2>1 DEF Pushing
    <2>2. CASE BeginMethod(t) \/ BeginStop(t)
      BY <2>1, <2>2 DEF BeginMethod, BeginStop, Begin, Coming, shellVars
    <2>3. CASE Swap(t)
      <3>1. UNCHANGED <<failed, cmd, os>> /\ ~Coming(t)
        BY <2>3 DEF Swap, Coming, shellVars
      <3>2. CASE paused' = paused
        BY <2>1, <3>1, <3>2
      <3>3. CASE paused' # paused
        <4>1. op[t] = "resume" /\ paused
          BY <1>5, <2>3, <3>3 DEF Swap
        <4>2. op'[t] = "resume" /\ pc'[t] = "launch"
          BY <2>3, <4>1 DEF Swap, Goto
        <4> QED
          BY <4>2 DEF Coming
      <3> QED
        BY <3>2, <3>3
    <2>4. CASE Start(t)
      <3>1. CASE pc'[t] = "install"
        BY <3>1 DEF Coming
      <3>2. CASE pc'[t] # "install"
        <4>1. UNCHANGED <<paused, cmd, os>> /\ failed' = (failed \/ op[t] = "resume") /\ pc[t] = "launch"
          BY <2>4, <3>2 DEF Start, Goto, shellVars
        <4>2. failed' = failed /\ ~Coming(t)
          BY <1>5, <4>1 DEF Coming
        <4> QED
          BY <2>1, <4>1, <4>2
      <3> QED
        BY <3>1, <3>2
    <2>5. CASE Install(t)
      BY <1>5, <2>5 DEF Install
    <2>6. CASE Take(t)
      BY <1>0, <1>5, <2>0, <2>6 DEF Take, Pushing, InMethod
    <2>7. CASE Hand(t)
      <3>1. UNCHANGED <<paused, failed, cmd, os>> /\ pc[t] = "hand"
        BY <2>7 DEF Hand, GiveUp, HandToClose
      <3> QED
        BY <2>1, <3>1 DEF Coming
    <2>8. CASE Reset(t)
      BY <1>0, <2>0, <2>8 DEF Reset, InMethod
    <2> QED
      BY <2>2, <2>3, <2>4, <2>5, <2>6, <2>7, <2>8 DEF TaskStep
  <1> QED
    BY <1>2, <1>3, <1>4, <1>5 DEF Pushing

\* When one task does the pausing and resuming, a call that is open and not paused pushes,
\* whatever the others set, seek and stop meanwhile (a pause and a resume of two tasks can
\* leave the slot empty and the flag clear: the take of the one after the install of the other).
THEOREM PlayingPushes == ASSUME OnePauser PROVE Spec => []PlayingMeansPushing
  <1>1. Init => Pushing
    <2> SUFFICES ASSUME Init PROVE Pushing
      OBVIOUS
    <2>1. \A t \in Tasks : pc[t] = "idle" /\ op[t] = "none"
      BY DEF Init
    <2>2. \A p \in Procs : os[p] = "none"
      BY DEF Init, ShellInit
    <2> QED
      BY <2>1, <2>2 DEF Pushing, InMethod
  <1>2. IInv /\ Pushing /\ [Next]_vars => Pushing'
    <2> SUFFICES ASSUME IInv, Pushing, [Next]_vars PROVE Pushing'
      OBVIOUS
    <2>1. ASSUME NEW p \in Procs, ShellStep(p), UNCHANGED callVars PROVE Pushing'
      <3>1. \A q \in Procs : os'[q] # "none" => os[q] # "none"
        BY <2>1 DEF IInv, TypeOK, ShellStep, Exits, ReapStep, ReapLock, ReapWait, ReapCapture, ReapStore,
                    CloseStep, BeginClose, CloseLock, CloseKill, KillChild, CloseStore, Fresh
      <3> QED
        BY <2>1, <3>1 DEF callVars, Pushing, InMethod, Coming
    <2>2. CASE UNCHANGED vars
      BY <2>2 DEF vars, callVars, shellVars, Pushing, InMethod, Coming
    <2> QED
      BY <2>1, <2>2, PushingStep DEF Next
  <1>3. Pushing => PlayingMeansPushing
    BY DEF Pushing, PlayingMeansPushing, Coming
  <1> QED
    BY <1>1, <1>2, <1>3, Invariance, PTL DEF Spec
=============================================================================
