-------------------------- MODULE GroupCallProofs --------------------------
(***************************************************************************)
(* Proofs about GroupCall, for every set of tasks, every assignment of     *)
(* methods to them and any number of sources.                              *)
(***************************************************************************)
EXTENDS GroupCall, TLAPS

\* Every step keeps every variable in its type, whoever takes it.
LEMMA TypeStep == Types /\ [Next]_vars => Types'
  <1> SUFFICES ASSUME Types, [Next]_vars
               PROVE  Types'
    OBVIOUS
  <1> USE GroupCallAssumption DEF Types, FlagsOK, StackOK, LocksOK, StreamersOK, TasksOK, flagVars, lockVars, streamVars, stackVars, taskVars, Goto, Begin,
                 PCs, ConnStates, Kinds, OpNames, Toggles, Streamers, NoStreamer
  <1>1. ASSUME NEW t \in Tasks, BeginToggle(t) PROVE Types'
    BY <1>1 DEF BeginToggle
  <1>2. ASSUME NEW t \in Tasks, BeginSetSource(t) PROVE Types'
    <2>1. FlagsOK'
      BY <1>2 DEF BeginSetSource
    <2>2. StackOK'
      BY <1>2 DEF BeginSetSource
    <2>3. LocksOK'
      BY <1>2 DEF BeginSetSource
    <2>4. StreamersOK'
      BY <1>2 DEF BeginSetSource
    <2>5. TasksOK'
      BY <1>2 DEF BeginSetSource
    <2> QED
      BY <2>1, <2>2, <2>3, <2>4, <2>5
  <1>3. ASSUME NEW t \in Tasks, BeginStop(t) PROVE Types'
    BY <1>3 DEF BeginStop
  <1>4. ASSUME NEW t \in Tasks, BeginConnect(t) PROVE Types'
    BY <1>4 DEF BeginConnect
  <1>5. ASSUME NEW t \in Tasks, BeginStreamerEnd(t) PROVE Types'
    BY <1>5 DEF BeginStreamerEnd
  <1>6. ASSUME NEW t \in Tasks, Swap(t) PROVE Types'
    <2>1. FlagsOK'
      BY <1>6 DEF Swap
    <2>2. StackOK'
      BY <1>6 DEF Swap
    <2>3. LocksOK'
      BY <1>6 DEF Swap
    <2>4. StreamersOK'
      BY <1>6 DEF Swap
    <2>5. TasksOK'
      BY <1>6 DEF Swap
    <2> QED
      BY <2>1, <2>2, <2>3, <2>4, <2>5
  <1>7. ASSUME NEW t \in Tasks, Peek(t) PROVE Types'
    BY <1>7 DEF Peek
  <1>8. ASSUME NEW t \in Tasks, ToggleAudio(t) PROVE Types'
    BY <1>8 DEF ToggleAudio, ToggleLeg, HoldStreamers, ReleaseStreamers, InSlots
  <1>9. ASSUME NEW t \in Tasks, ToggleVideo(t) PROVE Types'
    BY <1>9 DEF ToggleVideo, ToggleLeg, HoldStreamers, ReleaseStreamers, InSlots
  <1>10. ASSUME NEW t \in Tasks, Snapshot(t) PROVE Types'
    BY <1>10 DEF Snapshot, CurrentState, MediaStates
  <1>11. ASSUME NEW t \in Tasks, Report(t) PROVE Types'
    BY <1>11 DEF Report, NoMedia, MediaStates
  <1>12. ASSUME NEW t \in Tasks, Gate(t) PROVE Types'
    BY <1>12 DEF Gate
  <1>13. ASSUME NEW t \in Tasks, GateWait(t) PROVE Types'
    BY <1>13 DEF GateWait
  <1>14. ASSUME NEW t \in Tasks, Recheck(t) PROVE Types'
    BY <1>14 DEF Recheck
  <1>15. ASSUME NEW t \in Tasks, SwitchOn(t) PROVE Types'
    BY <1>15 DEF SwitchOn
  <1>16. ASSUME NEW t \in Tasks, LockAudio(t) PROVE Types'
    BY <1>16 DEF LockAudio, Lock
  <1>17. ASSUME NEW t \in Tasks, LockVideo(t) PROVE Types'
    BY <1>17 DEF LockVideo, Lock
  <1>18. ASSUME NEW t \in Tasks, Replace(t) PROVE Types'
    <2>1. FlagsOK'
      BY <1>18 DEF Replace, StopStreamers, InSlots, ReplacedKinds
    <2>2. StackOK'
      BY <1>18 DEF Replace, StopStreamers, InSlots, ReplacedKinds
    <2>3. LocksOK'
      BY <1>18 DEF Replace, StopStreamers, InSlots, ReplacedKinds
    <2>4. StreamersOK'
      BY <1>18 DEF Replace, StopStreamers, InSlots, ReplacedKinds
    <2>5. TasksOK'
      BY <1>18 DEF Replace, StopStreamers, InSlots, ReplacedKinds
    <2> QED
      BY <2>1, <2>2, <2>3, <2>4, <2>5
  <1>19. ASSUME NEW t \in Tasks, Spawn(t) PROVE Types'
    BY <1>19 DEF Spawn, NextLeg, Pending
  <1>20. ASSUME NEW t \in Tasks, Install(t) PROVE Types'
    <2>1. FlagsOK'
      BY <1>20 DEF Install, NextLeg, Pending
    <2>2. StackOK'
      BY <1>20 DEF Install, NextLeg, Pending
    <2>3. LocksOK'
      BY <1>20 DEF Install, NextLeg, Pending
    <2>4. StreamersOK'
      BY <1>20 DEF Install, NextLeg, Pending
    <2>5. TasksOK'
      BY <1>20 DEF Install, NextLeg, Pending
    <2> QED
      BY <2>1, <2>2, <2>3, <2>4, <2>5
  <1>21. ASSUME NEW t \in Tasks, Unlock(t) PROVE Types'
    BY <1>21 DEF Unlock
  <1>22. ASSUME NEW t \in Tasks, SwitchOff(t) PROVE Types'
    <2>1. FlagsOK'
      BY <1>22 DEF SwitchOff
    <2>2. StackOK'
      BY <1>22 DEF SwitchOff
    <2>3. LocksOK'
      BY <1>22 DEF SwitchOff
    <2>4. StreamersOK'
      BY <1>22 DEF SwitchOff
    <2>5. TasksOK'
      BY <1>22 DEF SwitchOff
    <2> QED
      BY <2>1, <2>2, <2>3, <2>4, <2>5
  <1>23. ASSUME NEW t \in Tasks, Upgrade(t) PROVE Types'
    BY <1>23 DEF Upgrade
  <1>24. ASSUME NEW t \in Tasks, StopAudio(t) PROVE Types'
    BY <1>24 DEF StopAudio, TakeAndStop, StopStreamers, InSlots
  <1>25. ASSUME NEW t \in Tasks, StopVideo(t) PROVE Types'
    BY <1>25 DEF StopVideo, TakeAndStop, StopStreamers, InSlots
  <1>26. ASSUME NEW t \in Tasks, Reset(t) PROVE Types'
    <2>1. FlagsOK'
      BY <1>26 DEF Reset
    <2>2. StackOK'
      BY <1>26 DEF Reset
    <2>3. LocksOK'
      BY <1>26 DEF Reset
    <2>4. StreamersOK'
      BY <1>26 DEF Reset
    <2>5. TasksOK'
      BY <1>26 DEF Reset
    <2> QED
      BY <2>1, <2>2, <2>3, <2>4, <2>5
  <1>27. ASSUME NEW t \in Tasks, Dial(t) PROVE Types'
    <2>1. FlagsOK'
      BY <1>27 DEF Dial
    <2>2. StackOK'
      BY <1>27 DEF Dial
    <2>3. LocksOK'
      BY <1>27 DEF Dial
    <2>4. StreamersOK'
      BY <1>27 DEF Dial
    <2>5. TasksOK'
      BY <1>27 DEF Dial
    <2> QED
      BY <2>1, <2>2, <2>3, <2>4, <2>5
  <1>28. ASSUME NEW t \in Tasks, Dialed(t) PROVE Types'
    BY <1>28 DEF Dialed
  <1>29. ASSUME NEW t \in Tasks, StoreConnected(t) PROVE Types'
    BY <1>29 DEF StoreConnected
  <1>30. ASSUME NEW t \in Tasks, EndOnce(t) PROVE Types'
    BY <1>30 DEF EndOnce
  <1>31. ASSUME NEW t \in Tasks, EndAudio(t) PROVE Types'
    BY <1>31 DEF EndAudio, StopStreamers, InSlots, EndFirst
  <1>32. ASSUME NEW t \in Tasks, EndVideo(t) PROVE Types'
    BY <1>32 DEF EndVideo, StopStreamers, InSlots, EndFirst, EndSecond
  <1>33. CASE Handshake
    BY <1>33 DEF Handshake, InstallKeys
  <1>34. CASE WorkerExit
    <2>1. FlagsOK' /\ LocksOK' /\ StreamersOK'
      BY <1>34 DEF WorkerExit
    <2>2. StackOK' /\ TasksOK'
      BY <1>34 DEF WorkerExit
    <2> QED
      BY <2>1, <2>2
  <1>35. CASE StackClose
    BY <1>35 DEF StackClose
  <1>36. CASE StoreClosed
    BY <1>36 DEF StoreClosed
  <1>37. ASSUME NEW s \in live \cup ending, PacingEnds(s) PROVE Types'
    BY <1>37 DEF PacingEnds
  <1>38. ASSUME NEW s \in live \cup ending, EndReported(s) PROVE Types'
    BY <1>38 DEF EndReported
  <1>39. CASE UNCHANGED vars
    BY <1>39 DEF vars
  <1> QED
    BY <1>1, <1>2, <1>3, <1>4, <1>5, <1>6, <1>7, <1>8, <1>9, <1>10, <1>11, <1>12, <1>13, <1>14, <1>15, <1>16, <1>17, <1>18, <1>19, <1>20, <1>21, <1>22, <1>23, <1>24, <1>25, <1>26, <1>27, <1>28, <1>29, <1>30, <1>31, <1>32, <1>33, <1>34, <1>35, <1>36, <1>37, <1>38, <1>39
       DEF Next, Invoke, TaskStep, ToggleStep, SetSourceStep, StopStep, ConnectStep,
           StreamerEndStep, StackStep, StreamerStep

----------------------------------------------------------------------------
(* The relational part of the inductive invariant.                          *)

Reach == CallbacksOK /\ LockDiscipline /\ Numbering /\ Construction /\ NoOrphanStreamer

\* A task that is not constructing a streamer may go anywhere outside the replacement
\* of a source, as long as it leaves mutexes, slots and callbacks alone.
LEMMA QuietStep ==
    ASSUME Types, Reach, NEW t \in Tasks,
           UNCHANGED <<holder, slot, gen, live, running, armed, ending>>,
           pc[t] # "install",
           pc'[t] \notin {"lock_video", "replace", "build", "install", "end_video"},
           \A u \in Tasks \ {t} : pc'[u] = pc[u] /\ want'[u] = want[u]
    PROVE  Reach'
  <1>1. CallbacksOK' /\ Numbering'
    BY DEF Reach, CallbacksOK, Numbering
  <1>2. LockDiscipline'
    BY DEF Reach, LockDiscipline
  <1>3. \A u \in Tasks \ {t} : Pending(u)' = Pending(u) /\ NextLeg(u)' = NextLeg(u)
    BY DEF Pending, NextLeg
  <1>4. Construction'
    BY <1>3 DEF Reach, Construction
  <1>5. NoOrphanStreamer'
    BY <1>3 DEF Reach, NoOrphanStreamer
  <1> QED
    BY <1>1, <1>2, <1>4, <1>5 DEF Reach

\* Reach survives every step that is not part of the replacement of a source.
LEMMA QuietActions ==
    ASSUME Types, Reach, NEW t \in Tasks,
           \/ Invoke(t) \/ ToggleStep(t) \/ ConnectStep(t) \/ EndOnce(t) \/ Reset(t)
           \/ Gate(t) \/ GateWait(t) \/ Recheck(t) \/ SwitchOn(t) \/ SwitchOff(t) \/ Upgrade(t)
    PROVE  Reach'
  <1> DEFINE Quiet ==
        /\ UNCHANGED <<holder, slot, gen, live, running, armed, ending>>
        /\ pc[t] # "install"
        /\ pc'[t] \notin {"lock_video", "replace", "build", "install", "end_video"}
        /\ \A u \in Tasks \ {t} : pc'[u] = pc[u] /\ want'[u] = want[u]
  <1> SUFFICES Quiet
    BY QuietStep
  <1> USE DEF Types, TasksOK, flagVars, lockVars, streamVars, stackVars
  <1>1. CASE BeginToggle(t)
    BY <1>1 DEF BeginToggle, Begin
  <1>2. CASE BeginSetSource(t)
    BY <1>2 DEF BeginSetSource, Begin
  <1>3. CASE BeginStop(t)
    BY <1>3 DEF BeginStop, Begin
  <1>4. CASE BeginConnect(t)
    BY <1>4 DEF BeginConnect, Begin
  <1>5. CASE BeginStreamerEnd(t)
    BY <1>5 DEF BeginStreamerEnd, Begin
  <1>6. CASE Swap(t)
    BY <1>6 DEF Swap, Goto
  <1>7. CASE Peek(t)
    BY <1>7 DEF Peek, Goto
  <1>8. CASE Snapshot(t)
    BY <1>8 DEF Snapshot, Goto
  <1>9. CASE Report(t)
    BY <1>9 DEF Report, Goto
  <1>10. CASE Gate(t)
    BY <1>10 DEF Gate, Goto
  <1>11. CASE GateWait(t)
    BY <1>11 DEF GateWait, Goto
  <1>12. CASE Recheck(t)
    BY <1>12 DEF Recheck, Goto
  <1>13. CASE SwitchOn(t)
    BY <1>13 DEF SwitchOn, Goto
  <1>14. CASE SwitchOff(t)
    BY <1>14 DEF SwitchOff, Goto
  <1>15. CASE Upgrade(t)
    BY <1>15 DEF Upgrade, Goto
  <1>16. CASE Reset(t)
    BY <1>16 DEF Reset, Goto
  <1>17. CASE Dial(t)
    BY <1>17 DEF Dial, Goto
  <1>18. CASE Dialed(t)
    BY <1>18 DEF Dialed, Goto
  <1>19. CASE StoreConnected(t)
    BY <1>19 DEF StoreConnected, Goto
  <1>20. CASE EndOnce(t)
    BY <1>20 DEF EndOnce, Goto
  <1>21. CASE ToggleAudio(t)
    BY <1>21 DEF ToggleAudio, ToggleLeg, HoldStreamers, ReleaseStreamers, Goto
  <1>22. CASE ToggleVideo(t)
    BY <1>22 DEF ToggleVideo, ToggleLeg, HoldStreamers, ReleaseStreamers, Goto
  <1> QED
    BY <1>1, <1>2, <1>3, <1>4, <1>5, <1>6, <1>7, <1>8, <1>9, <1>10, <1>11, <1>12, <1>13, <1>14, <1>15, <1>16, <1>17, <1>18, <1>19, <1>20, <1>21, <1>22
       DEF Invoke, ToggleStep, ConnectStep

\* The steps of set_source between its two mutexes.  The task at work owns both, so no
\* other task is at one of these places.
LEMMA LockedStep ==
    ASSUME Types, Reach, NEW t \in Tasks,
           LockAudio(t) \/ LockVideo(t) \/ Unlock(t)
    PROVE  Reach'
  <1> USE DEF Types, TasksOK, LocksOK, streamVars, Kinds, Lock, Goto
  <1>0. \A u \in Tasks : NoTask # u
    BY GroupCallAssumption
  <1>1. CallbacksOK' /\ Numbering'
    BY DEF Reach, CallbacksOK, Numbering, LockAudio, LockVideo, Unlock
  <1>2. \A u \in Tasks \ {t} : pc'[u] = pc[u] /\ want'[u] = want[u]
    BY DEF LockAudio, LockVideo, Unlock
  <1>3. pc[t] # "install" /\ pc'[t] \notin {"build", "install"}
    BY DEF LockAudio, LockVideo, Unlock
  <1>4. UNCHANGED <<slot, gen, live, running, armed, ending>>
    BY DEF LockAudio, LockVideo, Unlock
  <1>5. LockDiscipline'
    <2>1. CASE LockAudio(t)
      <3>1. \A u \in Tasks : pc[u] \notin {"lock_video", "replace", "build", "install", "end_video"}
        BY <1>0, <2>1 DEF Reach, LockDiscipline, LockAudio, Free, EndFirst
      <3>2. holder'["audio"] = t /\ pc'[t] = "lock_video"
        BY <2>1 DEF LockAudio
      <3> QED
        BY <1>2, <3>1, <3>2 DEF LockDiscipline
    <2>2. CASE LockVideo(t)
      BY <1>0, <2>2 DEF Reach, LockDiscipline, LockVideo, Free, EndFirst
    <2>3. CASE Unlock(t)
      BY <1>0, <2>3 DEF Reach, LockDiscipline, Unlock, EndFirst
    <2> QED
      BY <2>1, <2>2, <2>3
  <1>6. \A u \in Tasks \ {t} : Pending(u)' = Pending(u) /\ NextLeg(u)' = NextLeg(u)
    BY <1>2, <1>4 DEF Pending, NextLeg
  <1>7. Construction'
    BY <1>2, <1>3, <1>4, <1>6 DEF Reach, Construction
  <1>8. NoOrphanStreamer'
    BY <1>2, <1>3, <1>4, <1>6 DEF Reach, NoOrphanStreamer
  <1> QED
    BY <1>1, <1>5, <1>7, <1>8 DEF Reach

\* The old source leaves its slots and stops: nothing runs any more.
LEMMA ReplaceStep ==
    ASSUME Types, Reach, NEW t \in Tasks, Replace(t)
    PROVE  Reach'
  <1> USE DEF Types, TasksOK, LocksOK, StreamersOK, streamVars, Kinds
  <1>1. \A u \in Tasks \ {t} : pc[u] \notin {"lock_video", "replace", "build", "install"}
    BY DEF Reach, LockDiscipline, Replace
  <1>2. \A u \in Tasks \ {t} : pc'[u] = pc[u] /\ want'[u] = want[u]
    BY DEF Replace, Goto
  <1>3. pc[t] = "replace" /\ pc'[t] = "build"
    BY DEF Replace, Goto
  <1>4. running = InSlots(Kinds) \cap running
    <2> SUFFICES ASSUME NEW s \in running
                 PROVE  s \in InSlots(Kinds)
      OBVIOUS
    <2>1. slot[s[1]] = s[2]
      BY <1>1, <1>3 DEF Reach, NoOrphanStreamer
    <2>2. s \in Kinds \X Nat /\ s[2] # NoStreamer
      BY DEF Reach, Numbering, Streamers, NoStreamer
    <2>3. s = <<s[1], slot[s[1]]>> /\ s[1] \in Kinds
      BY <2>1, <2>2
    <2> QED
      BY <2>1, <2>2, <2>3 DEF InSlots
  <1>5. running' = {} /\ armed' = {}
    BY <1>4 DEF Replace, StopStreamers, ReplacedKinds, Reach, CallbacksOK
  <1>6. ending' = ending /\ live' = live /\ gen' = gen + 1 /\ holder' = holder
    BY DEF Replace
  <1>7. CallbacksOK' /\ NoOrphanStreamer'
    BY <1>5 DEF CallbacksOK, NoOrphanStreamer
  <1>8. Numbering'
    <2>1. \A s \in live \cup ending : s[2] \in Nat /\ 0 < s[2] /\ s[2] <= gen
      BY DEF Reach, Numbering, Streamers
    <2> QED
      BY <1>5, <1>6, <2>1 DEF Numbering
  <1>9. LockDiscipline'
    BY <1>1, <1>2, <1>3, <1>6 DEF Reach, LockDiscipline
  <1>10. \A k \in Kinds : <<k, gen + 1>> \notin live \cup ending
    BY DEF Reach, Numbering
  <1>11. Construction'
    <2>1. \A u \in Tasks : pc'[u] \in {"build", "install"} => u = t
      BY <1>1, <1>2
    <2>2. Pending(t)' \subseteq Kinds
      BY DEF Pending, Replace, Goto
    <2>3. 0 < gen' /\ \A k \in Pending(t)' : <<k, gen'>> \notin armed' \cup ending' \cup live'
      BY <1>5, <1>6, <1>10, <2>2
    <2> QED
      BY <1>3, <2>1, <2>3 DEF Construction
  <1> QED
    BY <1>7, <1>8, <1>9, <1>11 DEF Reach

\* A new streamer runs before it is installed; set_source owns both mutexes.
LEMMA SpawnStep ==
    ASSUME Types, Reach, NEW t \in Tasks, Spawn(t)
    PROVE  Reach'
  <1> USE DEF Types, TasksOK, LocksOK, StreamersOK, flagVars, lockVars, Kinds
  <1>1. \A u \in Tasks \ {t} : pc[u] \notin {"lock_video", "replace", "build", "install"}
    BY DEF Reach, LockDiscipline, Spawn
  <1>2. \A u \in Tasks \ {t} : pc'[u] = pc[u]
    BY DEF Spawn, Goto
  <1>3. /\ pc[t] = "build" /\ pc'[t] = "install"
        /\ UNCHANGED <<want, slot, gen, holder, armed, ending>>
        /\ running' = running \cup {<<NextLeg(t), gen>>}
        /\ live' = live \cup {<<NextLeg(t), gen>>}
    BY DEF Spawn, Goto
  <1>4. \A u \in Tasks : Pending(u)' = Pending(u) /\ NextLeg(u)' = NextLeg(u)
    BY <1>3 DEF Pending, NextLeg
  <1>5. CallbacksOK'
    BY <1>3 DEF Reach, CallbacksOK
  <1>6. LockDiscipline'
    BY <1>1, <1>2, <1>3 DEF Reach, LockDiscipline
  <1>7. 0 < gen /\ \A k \in Pending(t) : <<k, gen>> \notin armed \cup ending \cup live
    BY <1>3 DEF Reach, Construction
  <1>8. Numbering'
    BY <1>3, <1>7 DEF Reach, Numbering
  <1>9. Construction'
    <2>1. \A u \in Tasks : pc'[u] \in {"build", "install"} => u = t
      BY <1>1, <1>2
    <2>2. Pending(t)' # {} /\ <<NextLeg(t)', gen'>> \in running'
      BY <1>3, <1>4 DEF Spawn
    <2> QED
      BY <1>3, <1>4, <1>7, <2>1, <2>2 DEF Construction
  <1>10. NoOrphanStreamer'
    <2> SUFFICES ASSUME NEW s \in running'
                 PROVE  \/ slot'[s[1]] = s[2]
                        \/ \E u \in Tasks : pc'[u] = "install" /\ s = <<NextLeg(u)', gen'>>
      BY DEF NoOrphanStreamer
    <2>1. CASE s \in running
      BY <1>1, <1>3, <2>1 DEF Reach, NoOrphanStreamer
    <2>2. CASE s = <<NextLeg(t), gen>>
      BY <1>3, <1>4, <2>2
    <2> QED
      BY <1>3, <2>1, <2>2
  <1> QED
    BY <1>5, <1>6, <1>8, <1>9, <1>10 DEF Reach

\* The streamer under construction moves into its slot and gets its callback.
LEMMA InstallStep ==
    ASSUME Types, Reach, NEW t \in Tasks, Install(t)
    PROVE  Reach'
  <1> USE DEF Types, TasksOK, LocksOK, StreamersOK, flagVars, Kinds
  <1> DEFINE k == NextLeg(t)
             s == <<k, gen>>
  <1>1. \A u \in Tasks \ {t} : pc[u] \notin {"lock_video", "replace", "build", "install"}
    BY DEF Reach, LockDiscipline, Install
  <1>2. \A u \in Tasks \ {t} : pc'[u] = pc[u]
    BY DEF Install, Goto
  <1>3. /\ pc[t] = "install" /\ pc'[t] = "build"
        /\ UNCHANGED <<want, gen, holder, live, running, ending>>
        /\ slot' = [slot EXCEPT ![k] = gen]
        /\ armed' \in {armed, armed \cup {s}}
    BY DEF Install, Goto
  <1>4. k \in Pending(t) /\ s \in running
    BY <1>3 DEF Reach, Construction, NextLeg, Pending
  <1>5. 0 < gen /\ \A j \in Pending(t) : <<j, gen>> \notin armed \cup ending
    BY <1>3 DEF Reach, Construction
  <1>6. k \in Kinds /\ slot[k] = 0
    BY <1>4 DEF Pending, NoStreamer
  <1>7. CallbacksOK'
    BY <1>3, <1>4, <1>5 DEF Reach, CallbacksOK
  <1>8. LockDiscipline'
    BY <1>1, <1>2, <1>3 DEF Reach, LockDiscipline
  <1>9. Numbering'
    <2>1. armed' \subseteq running'
      BY <1>7 DEF CallbacksOK
    <2> QED
      BY <1>3, <2>1 DEF Reach, Numbering
  <1>10. Construction'
    <2>1. \A u \in Tasks : pc'[u] \in {"build", "install"} => u = t
      BY <1>1, <1>2
    <2>2. Pending(t)' \subseteq Pending(t) \ {k}
      BY <1>3, <1>5, <1>6 DEF Pending, NoStreamer
    <2>3. \A j \in Pending(t)' : <<j, gen>> \notin armed' \cup ending'
      BY <1>3, <1>5, <2>2
    <2>4. \A j \in Pending(t)' : <<j, gen>> \notin live'
      BY <1>3, <2>2 DEF Reach, Construction
    <2> QED
      BY <1>3, <1>5, <2>1, <2>3, <2>4 DEF Construction
  <1>11. NoOrphanStreamer'
    <2> SUFFICES ASSUME NEW r \in running
                 PROVE  slot'[r[1]] = r[2]
      BY <1>3 DEF NoOrphanStreamer
    <2>1. r \in Streamers /\ 0 < r[2]
      BY DEF Reach, Numbering
    <2>2. CASE slot[r[1]] = r[2]
      <3>1. r[1] # k
        BY <1>6, <2>1, <2>2 DEF Streamers
      <3> QED
        BY <1>3, <2>2, <3>1
    <2>3. CASE r = s
      BY <1>3, <1>6, <2>3
    <2> QED
      BY <1>1, <2>2, <2>3 DEF Reach, NoOrphanStreamer
  <1> QED
    BY <1>7, <1>8, <1>9, <1>10, <1>11 DEF Reach

\* A streamer that is stopped is in a slot, so nothing under construction is touched.
\* K is the kind whose mutex is free or owned by the task that stops.
LEMMA StopKeeps ==
    ASSUME Types, Reach, NEW t \in Tasks, NEW K \in Kinds,
           StopStreamers(InSlots({K})),
           pc[t] \notin {"build", "install"},
           pc'[t] \notin {"lock_video", "replace", "build", "install"},
           \A u \in Tasks \ {t} : pc'[u] = pc[u] /\ want'[u] = want[u],
           \A u \in Tasks : pc[u] \notin {"build", "install"},
           slot' \in {slot, [slot EXCEPT ![K] = NoStreamer]},
           UNCHANGED <<gen, live, ending>>
    PROVE  CallbacksOK' /\ Numbering' /\ Construction' /\ NoOrphanStreamer'
  <1> USE DEF Types, TasksOK, LocksOK, StreamersOK, Kinds, StopStreamers
  <1>1. CallbacksOK' /\ Numbering'
    BY DEF Reach, CallbacksOK, Numbering
  <1>2. Construction'
    BY DEF Construction
  <1>3. NoOrphanStreamer'
    <2> SUFFICES ASSUME NEW s \in running'
                 PROVE  slot'[s[1]] = s[2]
      BY DEF NoOrphanStreamer
    <2>1. s \in running /\ s \notin InSlots({K}) /\ slot[s[1]] = s[2]
      BY DEF Reach, NoOrphanStreamer
    <2>2. s \in Streamers /\ s = <<s[1], s[2]>> /\ s[2] # NoStreamer
      BY <2>1 DEF Reach, Numbering, Streamers, NoStreamer
    <2>3. s[1] # K
      BY <2>1, <2>2 DEF InSlots
    <2> QED
      BY <2>1, <2>2, <2>3 DEF Streamers
  <1> QED
    BY <1>1, <1>2, <1>3

\* stop takes one slot after the other; handle_streamer_end stops what is in them.
LEMMA StoppingStep ==
    ASSUME Types, Reach, NEW t \in Tasks,
           StopAudio(t) \/ StopVideo(t) \/ EndAudio(t) \/ EndVideo(t)
    PROVE  Reach'
  <1> USE DEF Types, TasksOK, LocksOK, Kinds, flagVars, Goto, TakeAndStop, Free, EndFirst, EndSecond
  <1>0. \A u \in Tasks : NoTask # u
    BY GroupCallAssumption
  <1>1. PICK K \in Kinds : Free(K) /\ StopStreamers(InSlots({K}))
                            /\ slot' \in {slot, [slot EXCEPT ![K] = NoStreamer]}
    BY DEF StopAudio, StopVideo, EndAudio, EndVideo
  <1>2. \A u \in Tasks : pc[u] \notin {"build", "install"}
    BY <1>0, <1>1 DEF Reach, LockDiscipline
  <1>3. UNCHANGED <<gen, live, ending>>
    BY DEF StopAudio, StopVideo, EndAudio, EndVideo
  <1>4. \A u \in Tasks \ {t} : pc'[u] = pc[u] /\ want'[u] = want[u]
    BY DEF StopAudio, StopVideo, EndAudio, EndVideo
  <1>5. pc'[t] \notin {"lock_video", "replace", "build", "install"}
    BY DEF StopAudio, StopVideo, EndAudio, EndVideo
  <1>6. CallbacksOK' /\ Numbering' /\ Construction' /\ NoOrphanStreamer'
    BY <1>1, <1>2, <1>3, <1>4, <1>5, StopKeeps
  <1>7. LockDiscipline'
    <2>1. CASE StopAudio(t) \/ StopVideo(t)
      BY <1>4, <1>5, <2>1 DEF Reach, LockDiscipline, StopAudio, StopVideo
    <2>2. CASE EndAudio(t)
      BY <1>0, <1>4, <2>2 DEF Reach, LockDiscipline, EndAudio
    <2>3. CASE EndVideo(t)
      BY <1>0, <1>4, <2>3 DEF Reach, LockDiscipline, EndVideo
    <2> QED
      BY <2>1, <2>2, <2>3
  <1> QED
    BY <1>6, <1>7 DEF Reach

\* The pacing task takes its callback before it calls it.
LEMMA PacingStep ==
    ASSUME Types, Reach, NEW s, PacingEnds(s) \/ EndReported(s)
    PROVE  Reach'
  <1> USE DEF flagVars, lockVars, stackVars, taskVars
  <1>1. /\ UNCHANGED <<holder, slot, gen, running, pc, want>>
        /\ live' \subseteq live
        /\ armed' \subseteq armed
        /\ armed' \cup ending' \subseteq armed \cup ending
        /\ armed' \cap ending' = {}
    BY DEF PacingEnds, EndReported, Reach, CallbacksOK
  <1>2. CallbacksOK' /\ Numbering' /\ LockDiscipline'
    BY <1>1 DEF Reach, CallbacksOK, Numbering, LockDiscipline
  <1>3. \A u \in Tasks : Pending(u)' = Pending(u) /\ NextLeg(u)' = NextLeg(u)
    BY <1>1 DEF Pending, NextLeg
  <1>4. Construction' /\ NoOrphanStreamer'
    BY <1>1, <1>3 DEF Reach, Construction, NoOrphanStreamer
  <1> QED
    BY <1>2, <1>4 DEF Reach

----------------------------------------------------------------------------
(* The theorems *)

\* A call that was just constructed (new_with_events) satisfies the inductive invariant.
LEMMA Initially == Init => IInv
  <1> SUFFICES ASSUME Init PROVE IInv
    OBVIOUS
  <1>1. Types
    BY GroupCallAssumption
       DEF Init, Types, FlagsOK, StackOK, LocksOK, StreamersOK, TasksOK, ConnStates, Kinds,
           Streamers, NoStreamer, PCs, MediaStates, NoMedia
  <1>2. Reach
    BY DEF Init, Reach, CallbacksOK, LockDiscipline, Numbering, Construction, NoOrphanStreamer
  <1> QED
    BY <1>1, <1>2 DEF IInv, TypeOK, Reach

\* Every step of every task, of the stack and of the pacing tasks preserves it.
LEMMA Inductive == IInv /\ [Next]_vars => IInv'
  <1> SUFFICES ASSUME IInv, [Next]_vars PROVE IInv'
    OBVIOUS
  <1>1. Types /\ Reach
    BY DEF IInv, TypeOK, Reach
  <1>2. Types'
    BY <1>1, TypeStep
  <1>3. Reach'
    <2>1. ASSUME NEW t \in Tasks, Invoke(t) \/ TaskStep(t)
          PROVE  Reach'
      BY <1>1, <2>1, QuietActions, LockedStep, ReplaceStep, SpawnStep, InstallStep, StoppingStep
         DEF TaskStep, SetSourceStep, StopStep, StreamerEndStep
    <2>2. CASE StreamerStep
      BY <1>1, <2>2, PacingStep DEF StreamerStep
    <2>3. CASE StackStep \/ UNCHANGED vars
      <3>1. UNCHANGED <<lockVars, streamVars, taskVars>>
        BY <2>3 DEF StackStep, Handshake, InstallKeys, WorkerExit, StackClose, StoreClosed, vars
      <3>2. \A u \in Tasks : Pending(u)' = Pending(u) /\ NextLeg(u)' = NextLeg(u)
        BY <3>1 DEF Pending, NextLeg, lockVars, taskVars
      <3> QED
        BY <1>1, <3>1, <3>2
           DEF Reach, CallbacksOK, LockDiscipline, Numbering, Construction, NoOrphanStreamer,
               lockVars, streamVars, taskVars
    <2> QED
      BY <2>1, <2>2, <2>3 DEF Next
  <1> QED
    BY <1>2, <1>3 DEF IInv, TypeOK, Reach

\* The inductive invariant holds in every behaviour.
THEOREM Invariance == Spec => []IInv
  BY Initially, Inductive, PTL DEF Spec

\* However many tasks use the call at once, every variable keeps its type and a
\* callback belongs to a streamer that was not stopped (Streamer::stop).
THEOREM TypeCorrectness == Spec => []TypeOK
  <1>1. IInv => TypeOK
    BY DEF IInv
  <1> QED
    BY <1>1, Invariance, PTL

\* However many tasks use the call at once, and whatever they call, every running
\* streamer can be reached through its slot (set_source and stop).
THEOREM NoOrphans == Spec => []NoOrphanStreamer
  <1>1. IInv => NoOrphanStreamer
    BY DEF IInv
  <1> QED
    BY <1>1, Invariance, PTL

\* Every step of the call is a step of its streamers as StreamerLife describes them, or
\* changes nothing about them (the steps of set_source, stop, handle_streamer_end and of
\* the pacing tasks are the ones that do).
LEMMA LifeStep ==
    ASSUME IInv, [Next]_vars
    PROVE  [Life!Next]_(Life!vars)
  <1> USE DEF flagVars, lockVars, streamVars, stackVars, taskVars, Life!vars
  <1>0. Types /\ Reach
    BY DEF IInv, TypeOK, Reach
  <1>1. ASSUME NEW t \in Tasks, Invoke(t) PROVE UNCHANGED Life!vars
    BY <1>1 DEF Invoke, BeginToggle, BeginSetSource, BeginStop, BeginConnect, BeginStreamerEnd
  <1>2. ASSUME NEW t \in Tasks, ToggleStep(t) \/ ConnectStep(t) PROVE UNCHANGED Life!vars
    BY <1>2 DEF ToggleStep, ConnectStep, Swap, Peek, ToggleAudio, ToggleVideo, ToggleLeg,
                Snapshot, Report, Dial, Dialed, StoreConnected
  <1>3. ASSUME NEW t \in Tasks,
               \/ Gate(t) \/ GateWait(t) \/ Recheck(t) \/ SwitchOn(t) \/ LockAudio(t)
               \/ LockVideo(t) \/ Unlock(t) \/ SwitchOff(t) \/ Upgrade(t) \/ Reset(t) \/ EndOnce(t)
        PROVE  UNCHANGED Life!vars
    BY <1>3 DEF Gate, GateWait, Recheck, SwitchOn, LockAudio, LockVideo, Lock, Unlock,
                SwitchOff, Upgrade, Reset, EndOnce
  <1>4. ASSUME NEW S, StopStreamers(S), UNCHANGED <<live, ending, fired>>
        PROVE  Life!Stop
    BY <1>0, <1>4 DEF Reach, CallbacksOK, StopStreamers, Life!Stop
  <1>5. ASSUME NEW t \in Tasks,
               Replace(t) \/ StopAudio(t) \/ StopVideo(t) \/ EndAudio(t) \/ EndVideo(t)
        PROVE  Life!Stop
    BY <1>4, <1>5 DEF Replace, StopAudio, StopVideo, TakeAndStop, EndAudio, EndVideo
  <1>6. ASSUME NEW t \in Tasks, Spawn(t) PROVE Life!Start
    <2>1. NextLeg(t) \in Pending(t)
      BY <1>0, <1>6 DEF Spawn, NextLeg, Pending, Types, TasksOK, Kinds
    <2>2. <<NextLeg(t), gen>> \notin armed \cup ending \cup live
      BY <1>0, <1>6, <2>1 DEF Spawn, Reach, Construction
    <2>3. /\ live' = live \cup {<<NextLeg(t), gen>>}
          /\ running' = running \cup {<<NextLeg(t), gen>>}
          /\ UNCHANGED <<armed, ending, fired>>
      BY <1>6 DEF Spawn
    <2> QED
      BY <2>2, <2>3 DEF Life!Start
  <1>7. ASSUME NEW t \in Tasks, Install(t) PROVE Life!Arm
    <2> DEFINE s == <<NextLeg(t), gen>>
    <2>1. s \in running /\ s \notin ending
      BY <1>0, <1>7 DEF Install, Reach, Construction, Types, TasksOK, Kinds, NextLeg, Pending
    <2>2. armed' \in {armed, armed \cup {s}} /\ UNCHANGED <<live, running, ending, fired>>
      BY <1>7 DEF Install
    <2> QED
      BY <2>1, <2>2 DEF Life!Arm
  <1>8. ASSUME NEW s, s \in live, PacingEnds(s) PROVE Life!End
    BY <1>8 DEF PacingEnds, Life!End
  <1>9. ASSUME NEW s, EndReported(s) PROVE Life!Report
    BY <1>9 DEF EndReported, Life!Report
  <1>10. CASE StackStep \/ UNCHANGED vars
    BY <1>10 DEF StackStep, Handshake, InstallKeys, WorkerExit, StackClose, StoreClosed, vars
  <1>11. CASE StreamerStep
    BY <1>8, <1>9, <1>11 DEF StreamerStep, PacingEnds, Life!Next
  <1>12. ASSUME NEW t \in Tasks, Invoke(t) \/ TaskStep(t)
         PROVE  [Life!Next]_(Life!vars)
    BY <1>1, <1>2, <1>3, <1>5, <1>6, <1>7, <1>12
       DEF TaskStep, SetSourceStep, StopStep, StreamerEndStep, Life!Next
  <1> QED
    BY <1>10, <1>11, <1>12 DEF Next

\* The call implements StreamerLife for any number of tasks and any mix of methods: no
\* streamer is restarted, every stop takes the callback, an end is reported at most once.
THEOREM StreamersLive == Spec => ImplementsLife
  <1>1. Init => Life!Init
    BY DEF Init, Life!Init
  <1> QED
    BY <1>1, LifeStep, Invariance, PTL DEF Spec, ImplementsLife, Life!Spec

\* A streamer that was stopped before its callback was taken never reports its end
\* (Streamer::stop, whoever calls it).
THEOREM StoppedStreamersAreSilent == Spec => NoEndAfterStop
  <1>1. IInv /\ [Next]_vars => [ending' \ ending \subseteq running]_vars
    <2> SUFFICES ASSUME IInv, [Next]_vars PROVE ending' \ ending \subseteq running
      OBVIOUS
    <2>1. armed \subseteq running
      BY DEF IInv, TypeOK, CallbacksOK
    <2>2. [Life!Next]_(Life!vars)
      BY LifeStep
    <2>3. ending' \subseteq ending \cup armed
      BY <2>2 DEF Life!Next, Life!vars, Life!Start, Life!Arm, Life!Stop, Life!End, Life!Report
    <2> QED
      BY <2>1, <2>3
  <1> QED
    BY <1>1, Invariance, PTL DEF Spec, NoEndAfterStop

\* Only StackClose takes keys away, and it leaves the transport closed.
LEMMA KeysStay ==
    ASSUME Types, [Next]_vars, keyed \/ transport_closed
    PROVE  keyed' \/ transport_closed'
  <1> USE DEF flagVars, lockVars, streamVars, stackVars, taskVars
  <1>1. ASSUME NEW t \in Tasks, Invoke(t) \/ ToggleStep(t) \/ StreamerEndStep(t)
        PROVE  UNCHANGED <<keyed, transport_closed>>
    BY <1>1 DEF Invoke, BeginToggle, BeginSetSource, BeginStop, BeginConnect, BeginStreamerEnd,
                ToggleStep, Swap, Peek, ToggleAudio, ToggleVideo, ToggleLeg, Snapshot, Report,
                StreamerEndStep, EndOnce, EndAudio, EndVideo
  <1>2. ASSUME NEW t \in Tasks, SetSourceStep(t) \/ StopStep(t) \/ ConnectStep(t)
        PROVE  UNCHANGED <<keyed, transport_closed>>
    BY <1>2 DEF SetSourceStep, Gate, GateWait, Recheck, SwitchOn, LockAudio, LockVideo, Lock,
                Replace, Spawn, Install, Unlock, SwitchOff, Upgrade,
                StopStep, StopAudio, StopVideo, TakeAndStop, Reset,
                ConnectStep, Dial, Dialed, StoreConnected
  <1>3. CASE StackStep \/ StreamerStep \/ UNCHANGED vars
    BY <1>3 DEF StackStep, Handshake, InstallKeys, WorkerExit, StackClose, StoreClosed,
                StreamerStep, PacingEnds, EndReported, vars
  <1> QED
    BY <1>1, <1>2, <1>3 DEF Next, TaskStep

\* Before any handshake nobody gets past the gate.
LEMMA GateStep == Types /\ GateInv /\ [Next]_vars => GateInv'
  <1> SUFFICES ASSUME Types, [Next]_vars,
                      gen = 0, "Connected" \notin {stack_state, net_state},
                      \A t \in Tasks : ~PastGate(t)
               PROVE  GateInv'
    BY KeysStay DEF GateInv
  <1> DEFINE Before(t) ==
        /\ gen' = 0
        /\ "Connected" \notin {stack_state', net_state'}
        /\ ~PastGate(t)'
        /\ \A u \in Tasks \ {t} : pc'[u] = pc[u] /\ op'[u] = op[u]
  <1> USE DEF flagVars, lockVars, streamVars, stackVars, taskVars, Types, TasksOK
  <1>1. ASSUME NEW t \in Tasks, Before(t) PROVE GateInv'
    BY <1>1 DEF GateInv, PastGate
  <1>2. ASSUME NEW t \in Tasks, Invoke(t) PROVE Before(t)
    BY <1>2 DEF Invoke, BeginToggle, BeginSetSource, BeginStop, BeginConnect, BeginStreamerEnd,
                Begin, PastGate, Toggles
  <1>3. ASSUME NEW t \in Tasks, ToggleStep(t) PROVE Before(t)
    <2>1. CASE Swap(t) \/ Snapshot(t) \/ Report(t)
      BY <2>1 DEF Swap, Snapshot, Report, Goto, PastGate
    <2>2. CASE Peek(t)
      BY <2>2 DEF Peek, Goto, PastGate
    <2>3. CASE ToggleAudio(t) \/ ToggleVideo(t)
      BY <2>3 DEF ToggleAudio, ToggleVideo, ToggleLeg, Goto, PastGate
    <2> QED
      BY <1>3, <2>1, <2>2, <2>3 DEF ToggleStep
  <1>4. ASSUME NEW t \in Tasks, SetSourceStep(t) PROVE Before(t)
    <2>1. CASE Gate(t) \/ GateWait(t) \/ Recheck(t)
      BY <2>1 DEF Gate, GateWait, Recheck, MayProceed, Goto, PastGate
    <2>2. CASE SwitchOn(t) \/ LockAudio(t) \/ LockVideo(t) \/ Replace(t)
      BY <2>2 DEF SwitchOn, LockAudio, LockVideo, Lock, Replace, PastGate
    <2>3. CASE Spawn(t) \/ Install(t) \/ Unlock(t) \/ SwitchOff(t) \/ Upgrade(t)
      BY <2>3 DEF Spawn, Install, Unlock, SwitchOff, Upgrade, Goto, PastGate
    <2> QED
      BY <1>4, <2>1, <2>2, <2>3 DEF SetSourceStep
  <1>5. ASSUME NEW t \in Tasks, StopStep(t) \/ StreamerEndStep(t) PROVE Before(t)
    BY <1>5 DEF StopStep, StopAudio, StopVideo, TakeAndStop, Reset,
                StreamerEndStep, EndOnce, EndAudio, EndVideo, Goto, PastGate
  <1>6. ASSUME NEW t \in Tasks, ConnectStep(t) PROVE Before(t)
    <2>1. CASE Dial(t)
      BY <2>1 DEF Dial, Goto, PastGate
    <2>2. CASE Dialed(t)
      BY <2>2 DEF Dialed, Goto, PastGate
    <2> QED
      BY <1>6, <2>1, <2>2 DEF ConnectStep, StoreConnected, PastGate
  <1>7. CASE StackStep
    BY <1>7 DEF StackStep, Handshake, InstallKeys, WorkerExit, StackClose, StoreClosed, GateInv, PastGate
  <1>8. CASE StreamerStep \/ UNCHANGED vars
    BY <1>8 DEF StreamerStep, PacingEnds, EndReported, vars, GateInv, PastGate
  <1> QED
    BY <1>1, <1>2, <1>3, <1>4, <1>5, <1>6, <1>7, <1>8 DEF Next, TaskStep

\* No source is installed on a call whose stack never completed a handshake, however
\* connect, its timeouts, close and any number of set_sources interleave.
THEOREM Gated == Spec => []GateHolds
  <1>1. Init => GateInv
    BY DEF Init, GateInv, PastGate
  <1>2. GateInv => GateHolds
    BY DEF GateInv, GateHolds
  <1>3. IInv => Types
    BY DEF IInv, TypeOK
  <1> QED
    BY <1>1, <1>2, <1>3, GateStep, Invariance, PTL DEF Spec

\* What the call does to its stack is what StackLife lets anybody do: connects announce
\* themselves, the handshake installs keys once, close is for good.
THEOREM StackKept == Spec => ImplementsStack
  <1> USE DEF flagVars, lockVars, streamVars, stackVars, taskVars, Net!vars
  <1>1. Init => Net!Init
    BY DEF Init, Net!Init
  <1>2. [Next]_vars => [Net!Next]_(Net!vars)
    <2> SUFFICES ASSUME [Next]_vars PROVE [Net!Next]_(Net!vars)
      OBVIOUS
    <2>1. ASSUME NEW t \in Tasks, Invoke(t) \/ ToggleStep(t) \/ StreamerEndStep(t)
          PROVE  UNCHANGED Net!vars
      BY <2>1 DEF Invoke, BeginToggle, BeginSetSource, BeginStop, BeginConnect, BeginStreamerEnd,
                  ToggleStep, Swap, Peek, ToggleAudio, ToggleVideo, ToggleLeg, Snapshot, Report,
                  StreamerEndStep, EndOnce, EndAudio, EndVideo
    <2>2. ASSUME NEW t \in Tasks, SetSourceStep(t) \/ StopStep(t)
          PROVE  UNCHANGED Net!vars
      BY <2>2 DEF SetSourceStep, Gate, GateWait, Recheck, SwitchOn, LockAudio, LockVideo, Lock,
                  Replace, Spawn, Install, Unlock, SwitchOff, Upgrade,
                  StopStep, StopAudio, StopVideo, TakeAndStop, Reset
    <2>3. ASSUME NEW t \in Tasks, ConnectStep(t)
          PROVE  Net!Announce \/ UNCHANGED Net!vars
      BY <2>3 DEF ConnectStep, Dial, Dialed, StoreConnected, Net!Announce
    <2>4. CASE StackStep
      BY <2>4 DEF StackStep, Handshake, InstallKeys, WorkerExit, StackClose, StoreClosed,
                  Net!Next, Net!Complete, Net!Close
    <2>5. CASE StreamerStep \/ UNCHANGED vars
      BY <2>5 DEF StreamerStep, PacingEnds, EndReported, vars
    <2> QED
      BY <2>1, <2>2, <2>3, <2>4, <2>5 DEF Next, TaskStep, Net!Next
  <1> QED
    BY <1>1, <1>2, PTL DEF Spec, ImplementsStack, Net!Spec

----------------------------------------------------------------------------
(* One source, one end.                                                     *)

\* Streamers whose end was, or may still be, reported.
Telling == armed \cup ending \cup fired

\* Generations are not reused, and while a source is built the leg that is not to report
\* has no callback: OneEndPerSource as an inductive invariant.
EndsInv ==
    /\ \A g \in Nat : <<"audio", g>> \notin Telling \/ <<"video", g>> \notin Telling
    /\ \A s \in fired : s[2] <= gen
    /\ \A t \in Tasks : pc[t] \in {"build", "install"} =>
           \/ "audio" \in want[t] /\ <<"video", gen>> \notin Telling
           \/ "audio" \notin want[t] /\ <<"audio", gen>> \notin Telling

\* A step that registers no callback and begins no source.
LEMMA EndsStay ==
    ASSUME IInv, EndsInv, gen' = gen, Telling' \subseteq Telling, fired' \subseteq fired \cup ending,
           \A u \in Tasks : pc'[u] \in {"build", "install"} =>
               pc[u] \in {"build", "install"} /\ want'[u] = want[u]
    PROVE  EndsInv'
  <1>1. \A s \in fired' : s[2] <= gen'
    BY DEF EndsInv, IInv, Numbering
  <1> QED
    BY <1>1 DEF EndsInv

\* Only Install registers a callback, and only Replace begins a source.
LEMMA EndsStep == IInv /\ EndsInv /\ [Next]_vars => EndsInv'
  <1> SUFFICES ASSUME IInv, EndsInv, [Next]_vars PROVE EndsInv'
    OBVIOUS
  <1> USE DEF flagVars, lockVars, streamVars, stackVars, taskVars
  <1>0. Types /\ Reach
    BY DEF IInv, TypeOK, Reach
  <1> DEFINE Quiet(t) ==
        /\ UNCHANGED <<gen, ending, fired>>
        /\ armed' \subseteq armed
        /\ pc'[t] \in {"build", "install"} => pc[t] \in {"build", "install"} /\ want'[t] = want[t]
        /\ \A u \in Tasks \ {t} : pc'[u] = pc[u] /\ want'[u] = want[u]
  <1>1. ASSUME NEW t \in Tasks, Quiet(t) PROVE EndsInv'
    BY <1>1, EndsStay DEF Telling
  <1>2. ASSUME NEW t \in Tasks, Invoke(t) PROVE Quiet(t)
    BY <1>0, <1>2 DEF Types, TasksOK, Invoke, BeginToggle, BeginSetSource, BeginStop, BeginConnect,
                      BeginStreamerEnd, Begin
  <1>3. ASSUME NEW t \in Tasks, ToggleStep(t) \/ StopStep(t) \/ ConnectStep(t) \/ StreamerEndStep(t)
        PROVE  Quiet(t)
    <2> USE <1>0 DEF Types, TasksOK, Goto
    <2>1. CASE Swap(t) \/ Peek(t) \/ Snapshot(t) \/ Report(t)
      BY <2>1 DEF Swap, Peek, Snapshot, Report
    <2>2. CASE ToggleAudio(t) \/ ToggleVideo(t)
      BY <2>2 DEF ToggleAudio, ToggleVideo, ToggleLeg
    <2>3. CASE StopStep(t)
      BY <2>3 DEF StopStep, StopAudio, StopVideo, TakeAndStop, StopStreamers, Reset
    <2>4. CASE ConnectStep(t)
      BY <2>4 DEF ConnectStep, Dial, Dialed, StoreConnected
    <2>5. CASE StreamerEndStep(t)
      BY <2>5 DEF StreamerEndStep, EndOnce, EndAudio, EndVideo, StopStreamers
    <2> QED
      BY <1>3, <2>1, <2>2, <2>3, <2>4, <2>5 DEF ToggleStep
  <1>4. ASSUME NEW t \in Tasks,
               \/ Gate(t) \/ GateWait(t) \/ Recheck(t) \/ SwitchOn(t) \/ LockAudio(t) \/ LockVideo(t)
               \/ Spawn(t) \/ Unlock(t) \/ SwitchOff(t) \/ Upgrade(t)
        PROVE  Quiet(t)
    <2> USE <1>0 DEF Types, TasksOK, Goto
    <2>1. CASE Gate(t) \/ GateWait(t) \/ Recheck(t) \/ SwitchOn(t)
      BY <2>1 DEF Gate, GateWait, Recheck, SwitchOn
    <2>2. CASE LockAudio(t) \/ LockVideo(t)
      BY <2>2 DEF LockAudio, LockVideo, Lock
    <2>3. CASE Spawn(t) \/ Unlock(t) \/ SwitchOff(t) \/ Upgrade(t)
      BY <2>3 DEF Spawn, Unlock, SwitchOff, Upgrade
    <2> QED
      BY <1>4, <2>1, <2>2, <2>3
  <1>5. ASSUME NEW t \in Tasks, Replace(t) PROVE EndsInv'
    <2>1. \A u \in Tasks \ {t} : pc[u] \notin {"build", "install"} /\ pc'[u] = pc[u]
      BY <1>0, <1>5 DEF Reach, LockDiscipline, Replace, Goto, Types, TasksOK
    <2>2. gen' = gen + 1 /\ Telling' \subseteq Telling /\ fired' = fired
      BY <1>5 DEF Replace, StopStreamers, Telling
    <2>3. \A s \in Telling : s \in Streamers /\ s[2] <= gen
      BY <1>0 DEF Telling, EndsInv, Reach, Numbering, Types, StreamersOK
    <2>4. \A k \in Kinds : <<k, gen + 1>> \notin Telling'
      BY <1>0, <2>2, <2>3 DEF Types, LocksOK, Streamers
    <2>5. \A s \in fired' : s[2] <= gen'
      BY <1>0, <2>2, <2>3 DEF Telling, Types, LocksOK, Streamers
    <2>6. \A g \in Nat : <<"audio", g>> \notin Telling' \/ <<"video", g>> \notin Telling'
      BY <2>2 DEF EndsInv
    <2> QED
      BY <2>1, <2>2, <2>4, <2>5, <2>6 DEF EndsInv, Kinds
  <1>6. ASSUME NEW t \in Tasks, Install(t) PROVE EndsInv'
    <2>1. \A u \in Tasks \ {t} : pc[u] \notin {"build", "install"} /\ pc'[u] = pc[u]
      BY <1>0, <1>6 DEF Reach, LockDiscipline, Install, Goto, Types, TasksOK
    <2>2. /\ pc[t] = "install"
          /\ UNCHANGED <<gen, ending, fired>> /\ want'[t] = want[t]
          /\ armed' = IF ReportsEnd(NextLeg(t), want[t]) THEN armed \cup {<<NextLeg(t), gen>>} ELSE armed
      BY <1>6 DEF Install, Goto
    <2>3. NextLeg(t) \in want[t] /\ NextLeg(t) \in Kinds
      <3>1. Pending(t) # {} /\ Pending(t) \subseteq want[t] /\ want[t] \subseteq Kinds
        BY <1>0, <2>2 DEF Reach, Construction, Pending, Types, TasksOK
      <3> QED
        BY <3>1 DEF NextLeg, Kinds
    <2>4. CASE ~ReportsEnd(NextLeg(t), want[t])
      <3>1. Telling' = Telling
        BY <2>2, <2>4 DEF Telling
      <3> QED
        BY <2>1, <2>2, <3>1, EndsStay
    <2>5. CASE NextLeg(t) = "audio"
      <3>1. Telling' \subseteq Telling \cup {<<"audio", gen>>}
        BY <2>2, <2>5 DEF Telling
      <3>2. "audio" \in want[t] /\ <<"video", gen>> \notin Telling'
        BY <2>2, <2>3, <2>5, <3>1 DEF EndsInv
      <3> QED
        BY <2>1, <2>2, <3>1, <3>2 DEF EndsInv
    <2>6. CASE NextLeg(t) = "video" /\ "audio" \notin want[t]
      <3>1. Telling' \subseteq Telling \cup {<<"video", gen>>}
        BY <2>2, <2>6 DEF Telling
      <3>2. <<"audio", gen>> \notin Telling'
        BY <2>2, <2>6, <3>1 DEF EndsInv
      <3> QED
        BY <2>1, <2>2, <2>6, <3>1, <3>2 DEF EndsInv
    <2> QED
      BY <2>3, <2>4, <2>5, <2>6 DEF ReportsEnd, Kinds
  <1>7. CASE StackStep \/ UNCHANGED vars
    <2>1. UNCHANGED <<gen, armed, ending, fired, pc, want>>
      BY <1>7 DEF StackStep, Handshake, InstallKeys, WorkerExit, StackClose, StoreClosed, vars
    <2> QED
      BY <2>1, EndsStay DEF Telling
  <1>8. CASE StreamerStep
    <2>1. /\ UNCHANGED <<gen, pc, want>>
          /\ fired' \subseteq fired \cup ending
          /\ armed' \cup ending' \cup fired' \subseteq armed \cup ending \cup fired
      BY <1>8 DEF StreamerStep, PacingEnds, EndReported
    <2> QED
      BY <2>1, EndsStay DEF Telling
  <1> QED
    BY <1>1, <1>2, <1>3, <1>4, <1>5, <1>6, <1>7, <1>8 DEF Next, TaskStep, SetSourceStep

\* A source of two legs reports one end, however its streamers end, whoever replaces the
\* source meanwhile and whatever set_source was given (ReportsEnd in set_source).
THEOREM SourcesEndOnce == Spec => []OneEndPerSource
  <1>1. Init => EndsInv
    BY DEF Init, EndsInv, Telling
  <1>2. IInv /\ EndsInv => OneEndPerSource
    <2> SUFFICES ASSUME IInv, EndsInv, NEW g \in 1 .. gen
                 PROVE  ~({<<"audio", g>>, <<"video", g>>} \subseteq ending \cup fired)
      BY DEF OneEndPerSource
    <2>1. g \in Nat
      BY DEF IInv, TypeOK, Types, LocksOK
    <2> QED
      BY <2>1 DEF EndsInv, Telling
  <1> QED
    BY <1>1, <1>2, EndsStep, Invariance, PTL DEF Spec

----------------------------------------------------------------------------
(* Where a task is follows from the method it is in.                        *)

TogglePlaces == {"swap", "peek", "audio", "video", "snap", "report"}
SourcePlaces == {"gate", "wait", "recheck", "switch", "peek", "lock_audio", "lock_video",
                 "replace", "build", "install", "finish", "upgrade"}
StopPlaces == {"stop_audio", "stop_video", "reset"}
OtherPlaces == {"dial", "dialing", "connected_cb", "connected_store",
                "once", "end_audio", "end_video"}

\* The method of a task is one it may invoke, and the task is inside it; stop closed the call.
InMethod(t) ==
    \/ op[t] = "none" /\ pc[t] = "idle"
    \/ /\ op[t] \in OpsOf[t]
       /\ \/ op[t] \in {"pause", "resume"} /\ pc[t] \in TogglePlaces
          \/ op[t] \in {"mute", "unmute"} /\ pc[t] \in TogglePlaces \ {"video"}
          \/ op[t] = "set_source" /\ pc[t] \in SourcePlaces
          \/ op[t] = "stop" /\ pc[t] \in StopPlaces /\ closed
          \/ op[t] \in {"connect", "streamer_end"} /\ pc[t] \in OtherPlaces

Methods == \A t \in Tasks : InMethod(t)

\* What a step of t does to the methods of the tasks.
StepOf(t) ==
    /\ InMethod(t)'
    /\ closed => closed'
    /\ \A u \in Tasks \ {t} : pc'[u] = pc[u] /\ op'[u] = op[u]

\* The other tasks stay where they are.
LEMMA MethodsStay ==
    ASSUME Types, Methods, NEW t \in Tasks, StepOf(t)
    PROVE  Methods'
  BY DEF Methods, InMethod, StepOf

\* A task invokes its methods and goes through them.
LEMMA TaskMoves ==
    ASSUME Types, Methods, NEW t \in Tasks, Invoke(t) \/ TaskStep(t)
    PROVE  StepOf(t)
  <1> USE DEF Types, TasksOK, flagVars, lockVars, streamVars, stackVars, Goto,
              TogglePlaces, SourcePlaces, StopPlaces, OtherPlaces
  <1>0. InMethod(t)
    BY DEF Methods
  <1>1. CASE Invoke(t)
    <2>1. CASE BeginToggle(t)
      BY <2>1 DEF BeginToggle, Begin, Toggles, StepOf, InMethod
    <2>2. CASE BeginSetSource(t)
      BY <2>2 DEF BeginSetSource, Begin, StepOf, InMethod
    <2>3. CASE BeginStop(t)
      BY <2>3 DEF BeginStop, Begin, StepOf, InMethod
    <2>4. CASE BeginConnect(t) \/ BeginStreamerEnd(t)
      BY <2>4 DEF BeginConnect, BeginStreamerEnd, Begin, StepOf, InMethod
    <2> QED
      BY <1>1, <2>1, <2>2, <2>3, <2>4 DEF Invoke
  <1>2. CASE ToggleStep(t)
    <2>1. CASE Swap(t)
      BY <1>0, <2>1 DEF Swap, StepOf, InMethod
    <2>2. CASE Peek(t)
      BY <1>0, <2>2 DEF Peek, StepOf, InMethod
    <2>3. CASE ToggleAudio(t) \/ ToggleVideo(t)
      BY <1>0, <2>3 DEF ToggleAudio, ToggleVideo, ToggleLeg, StepOf, InMethod
    <2>4. CASE Snapshot(t) \/ Report(t)
      BY <1>0, <2>4 DEF Snapshot, Report, StepOf, InMethod
    <2> QED
      BY <1>2, <2>1, <2>2, <2>3, <2>4 DEF ToggleStep
  <1>3. CASE SetSourceStep(t)
    <2>1. CASE Gate(t) \/ GateWait(t) \/ Recheck(t) \/ SwitchOn(t)
      BY <1>0, <2>1 DEF Gate, GateWait, Recheck, SwitchOn, StepOf, InMethod
    <2>2. CASE LockAudio(t) \/ LockVideo(t)
      BY <1>0, <2>2 DEF LockAudio, LockVideo, Lock, StepOf, InMethod
    <2>3. CASE Replace(t) \/ Spawn(t) \/ Install(t)
      BY <1>0, <2>3 DEF Replace, Spawn, Install, StepOf, InMethod
    <2>4. CASE Unlock(t) \/ SwitchOff(t) \/ Upgrade(t)
      BY <1>0, <2>4 DEF Unlock, SwitchOff, Upgrade, StepOf, InMethod
    <2> QED
      BY <1>3, <2>1, <2>2, <2>3, <2>4 DEF SetSourceStep
  <1>4. CASE StopStep(t)
    BY <1>0, <1>4 DEF StopStep, StopAudio, StopVideo, TakeAndStop, Reset, StepOf, InMethod
  <1>5. CASE ConnectStep(t)
    <2>1. CASE Dial(t)
      BY <1>0, <2>1 DEF Dial, StepOf, InMethod
    <2>2. CASE Dialed(t) \/ StoreConnected(t)
      BY <1>0, <2>2 DEF Dialed, StoreConnected, StepOf, InMethod
    <2> QED
      BY <1>5, <2>1, <2>2 DEF ConnectStep
  <1>6. CASE StreamerEndStep(t)
    BY <1>0, <1>6 DEF StreamerEndStep, EndOnce, EndAudio, EndVideo, StepOf, InMethod
  <1> QED
    BY <1>1, <1>2, <1>3, <1>4, <1>5, <1>6 DEF TaskStep

\* The stack and the pacing tasks are not the tasks.
LEMMA WorldMoves ==
    ASSUME StackStep \/ StreamerStep \/ UNCHANGED vars
    PROVE  UNCHANGED <<flagVars, lockVars, held, taskVars, reported>>
  BY DEF StackStep, Handshake, InstallKeys, WorkerExit, StackClose, StoreClosed, StreamerStep,
         PacingEnds, EndReported, vars, flagVars, lockVars, streamVars, stackVars, taskVars

\* Every step keeps every task inside its method.
LEMMA MethodsStep == Types /\ Methods /\ [Next]_vars => Methods'
  <1> SUFFICES ASSUME Types, Methods, [Next]_vars PROVE Methods'
    OBVIOUS
  <1>1. CASE StackStep \/ StreamerStep \/ UNCHANGED vars
    BY <1>1, WorldMoves DEF Methods, InMethod, flagVars, taskVars
  <1>2. ASSUME NEW t \in Tasks, Invoke(t) \/ TaskStep(t) PROVE Methods'
    BY <1>2, TaskMoves, MethodsStay
  <1> QED
    BY <1>1, <1>2 DEF Next

\* Nobody has called anything yet.
LEMMA MethodsInit == Init => Methods
  BY DEF Init, Methods, InMethod

----------------------------------------------------------------------------
(* stop against set_source.                                                 *)

\* The task that stops the call is the one that sets its sources.
OneOwnerOfSources ==
    \A t, u \in Tasks : "stop" \in OpsOf[t] /\ "set_source" \in OpsOf[u] => t = u

\* Once closed, no source is on its way in, and stop empties one slot after the other.
Emptying ==
    closed =>
        /\ \A t \in Tasks : op[t] # "set_source"
        /\ slot["audio"] = NoStreamer \/ \E t \in Tasks : pc[t] = "stop_audio"
        /\ slot["video"] = NoStreamer \/ \E t \in Tasks : pc[t] \in {"stop_audio", "stop_video"}

\* What stop has emptied stays empty.
LEMMA EmptyingStep ==
    ASSUME OneOwnerOfSources, Types, Methods, Emptying, [Next]_vars
    PROVE  Emptying'
  <1> USE DEF Types, TasksOK, LocksOK, flagVars, lockVars, streamVars, stackVars, Kinds
  <1>1. CASE StackStep \/ StreamerStep \/ UNCHANGED vars
    BY <1>1, WorldMoves DEF Emptying, taskVars
  <1>2. ASSUME NEW t \in Tasks, Invoke(t) \/ TaskStep(t) PROVE Emptying'
    <2>1. StepOf(t) /\ InMethod(t)
      BY <1>2, TaskMoves DEF Methods
    <2>2. CASE BeginStop(t)
      <3>1. pc'[t] = "stop_audio" /\ op'[t] = "stop" /\ "stop" \in OpsOf[t]
        BY <2>2 DEF BeginStop, Begin
      <3>2. \A u \in Tasks \ {t} : op'[u] # "set_source"
        BY <2>1, <3>1 DEF StepOf, Methods, InMethod, OneOwnerOfSources
      <3> QED
        BY <3>1, <3>2 DEF Emptying
    <2>3. CASE StopAudio(t) \/ StopVideo(t)
      <3>1. /\ closed' = closed /\ op[t] # "set_source" /\ op'[t] = op[t]
            /\ \/ pc[t] = "stop_audio" /\ pc'[t] = "stop_video" /\ slot' = [slot EXCEPT !["audio"] = NoStreamer]
               \/ pc[t] = "stop_video" /\ pc'[t] = "reset" /\ slot' = [slot EXCEPT !["video"] = NoStreamer]
        BY <2>1, <2>3 DEF StopAudio, StopVideo, TakeAndStop, Goto, InMethod, StopPlaces, TogglePlaces,
                          SourcePlaces, OtherPlaces
      <3>2. CASE ~closed
        BY <3>1, <3>2 DEF Emptying
      <3>3. CASE closed /\ pc[t] = "stop_audio"
        <4>1. slot'["audio"] = NoStreamer /\ pc'[t] = "stop_video"
          BY <3>1, <3>3
        <4> QED
          BY <2>1, <3>1, <3>3, <4>1 DEF StepOf, Emptying
      <3>4. CASE closed /\ pc[t] = "stop_video"
        <4>1. slot'["video"] = NoStreamer /\ slot'["audio"] = slot["audio"]
          BY <3>1, <3>4
        <4>2. slot'["audio"] = NoStreamer \/ \E u \in Tasks : pc'[u] = "stop_audio"
          BY <2>1, <3>4, <4>1 DEF StepOf, Emptying
        <4> QED
          BY <2>1, <3>1, <3>4, <4>1, <4>2 DEF StepOf, Emptying
      <3> QED
        BY <3>1, <3>2, <3>3, <3>4
    <2>4. CASE Invoke(t) /\ ~BeginStop(t)
      <3>1. closed' = FALSE
        BY <2>4 DEF Invoke, BeginToggle, BeginSetSource, BeginConnect, BeginStreamerEnd, Begin
      <3> QED
        BY <3>1 DEF Emptying
    <2>5. CASE SetSourceStep(t)
      <3>1. closed' = closed /\ op[t] = "set_source"
        BY <2>1, <2>5 DEF SetSourceStep, Gate, GateWait, Recheck, SwitchOn, LockAudio, LockVideo, Lock,
                  Replace, Spawn, Install, Unlock, SwitchOff, Upgrade, InMethod, StopPlaces, TogglePlaces,
                  SourcePlaces, OtherPlaces
      <3> QED
        BY <3>1 DEF Emptying
    <2>6. CASE ToggleStep(t) \/ ConnectStep(t) \/ StreamerEndStep(t) \/ Reset(t)
      <3>1. /\ closed' = closed /\ slot' = slot /\ op'[t] \in {op[t], "none"}
            /\ pc[t] \notin {"stop_audio", "stop_video"}
        <4> USE DEF Goto
        <4>1. CASE Swap(t) \/ Peek(t) \/ Snapshot(t) \/ Report(t)
          BY <4>1 DEF Swap, Peek, Snapshot, Report
        <4>2. CASE ToggleAudio(t) \/ ToggleVideo(t)
          BY <4>2 DEF ToggleAudio, ToggleVideo, ToggleLeg
        <4>3. CASE ConnectStep(t) \/ Reset(t)
          BY <4>3 DEF ConnectStep, Dial, Dialed, StoreConnected, Reset
        <4>4. CASE StreamerEndStep(t)
          BY <4>4 DEF StreamerEndStep, EndOnce, EndAudio, EndVideo
        <4> QED
          BY <2>6, <4>1, <4>2, <4>3, <4>4 DEF ToggleStep
      <3> QED
        BY <2>1, <3>1 DEF StepOf, Emptying
    <2> QED
      BY <1>2, <2>2, <2>3, <2>4, <2>5, <2>6 DEF TaskStep, StopStep
  <1> QED
    BY <1>1, <1>2 DEF Next

\* When the task that stops the call is the one that sets its sources, stop leaves no
\* streamer running, whatever the other tasks toggle, connect and end meanwhile.
THEOREM StopStopsAll == ASSUME OneOwnerOfSources PROVE Spec => []StopLeavesNothing
  <1>1. Init => Emptying
    BY DEF Init, Emptying
  <1>2. IInv /\ Emptying => StopLeavesNothing
    <2> SUFFICES ASSUME IInv, Emptying, closed, AllReturned, NEW s \in running PROVE FALSE
      BY DEF StopLeavesNothing
    <2>1. slot[s[1]] = s[2]
      BY DEF AllReturned, IInv, NoOrphanStreamer
    <2>2. s[1] \in Kinds /\ 0 < s[2]
      BY DEF IInv, Numbering, TypeOK, Types, StreamersOK, Streamers
    <2> QED
      BY <2>1, <2>2 DEF Emptying, AllReturned, Kinds, NoStreamer
  <1>3. IInv => Types
    BY DEF IInv, TypeOK
  <1> QED
    BY <1>1, <1>2, <1>3, EmptyingStep, MethodsStep, MethodsInit, Invariance, PTL DEF Spec

----------------------------------------------------------------------------
(* The report of a toggle.                                                  *)

\* One task does the toggling.
OneToggler ==
    \A t, u \in Tasks : OpsOf[t] \cap Toggles # {} /\ OpsOf[u] \cap Toggles # {} => t = u

Tells(m) == m.muted = muted /\ m.paused = (muted \/ paused)

\* A report on its way is up to date, and so is the last one unless another is to come.
Reporting ==
    ~closed =>
        /\ \A t \in Tasks : pc[t] = "report" => Tells(snap[t])
        /\ (\A t \in Tasks : op[t] \in Toggles => pc[t] = "swap") => Tells(reported)

\* A step that leaves flags and reports alone, and is not one of the toggler's after its swap.
LEMMA ReportingStays ==
    ASSUME Reporting, NEW t \in Tasks, closed => closed', UNCHANGED <<muted, paused, snap, reported>>,
           pc'[t] # "report",
           op[t] \in Toggles /\ pc[t] # "swap" => op'[t] \in Toggles /\ pc'[t] # "swap",
           \A u \in Tasks \ {t} : pc'[u] = pc[u] /\ op'[u] = op[u]
    PROVE  Reporting'
  BY DEF Reporting, Tells

\* The toggler reports what it set, and nobody else sets or reports anything.
LEMMA ReportingStep ==
    ASSUME OneToggler, Types, Methods, Reporting, [Next]_vars
    PROVE  Reporting'
  <1> USE DEF Types, TasksOK, FlagsOK, flagVars, lockVars, streamVars, stackVars, Goto
  <1>1. CASE StackStep \/ StreamerStep \/ UNCHANGED vars
    BY <1>1, WorldMoves DEF Reporting, Tells, taskVars
  <1>2. ASSUME NEW t \in Tasks, Invoke(t) \/ TaskStep(t) PROVE Reporting'
    <2>1. StepOf(t) /\ InMethod(t)
      BY <1>2, TaskMoves DEF Methods
    <2>2. \A u \in Tasks \ {t} : pc'[u] = pc[u] /\ op'[u] = op[u] /\ InMethod(u)
      BY <2>1 DEF StepOf, Methods
    <2>3. CASE Invoke(t)
      <3>1. UNCHANGED <<muted, paused, snap, reported>> /\ pc'[t] # "report" /\ op[t] = "none" /\ ~closed
        BY <2>1, <2>3 DEF Invoke, BeginToggle, BeginSetSource, BeginStop, BeginConnect, BeginStreamerEnd, Begin,
                          InMethod, TogglePlaces, SourcePlaces, StopPlaces, OtherPlaces
      <3> QED
        BY <2>2, <3>1, ReportingStays DEF Toggles
    <2>4. CASE Swap(t)
      <3>1. op[t] \in Toggles /\ op[t] \in OpsOf[t] /\ pc[t] = "swap" /\ closed' = closed
        BY <2>1, <2>4 DEF Swap, InMethod, Toggles, SourcePlaces, StopPlaces, OtherPlaces
      <3>2. \A u \in Tasks \ {t} : op[u] \notin Toggles
        BY <2>2, <3>1 DEF OneToggler, InMethod, Toggles
      <3>3. \A u \in Tasks : pc'[u] # "report"
        BY <2>2, <2>4, <3>2 DEF Swap, InMethod, Toggles, SourcePlaces, StopPlaces, OtherPlaces
      <3>4. CASE pc'[t] = "peek"
        <4>1. op'[t] \in Toggles
          BY <2>4, <3>1, <3>4 DEF Swap
        <4> QED
          BY <3>3, <3>4, <4>1 DEF Reporting
      <3>5. CASE pc'[t] = "idle"
        <4>1. UNCHANGED <<muted, paused, reported>>
          BY <2>4, <3>1, <3>5 DEF Swap, Toggles
        <4> QED
          BY <2>2, <3>1, <3>2, <3>3, <4>1 DEF Reporting, Tells
      <3> QED
        BY <2>4, <3>4, <3>5 DEF Swap
    <2>5. CASE Peek(t) \/ ToggleAudio(t) \/ ToggleVideo(t)
      <3>1. UNCHANGED <<muted, paused, snap, reported, closed>> /\ pc'[t] \notin {"report", "swap"} /\ op'[t] = op[t]
        BY <2>5 DEF Peek, ToggleAudio, ToggleVideo, ToggleLeg
      <3> QED
        BY <2>2, <3>1, ReportingStays
    <2>6. CASE Snapshot(t)
      <3>1. /\ UNCHANGED <<muted, paused, reported, closed>> /\ op'[t] = op[t] /\ pc'[t] = "report"
            /\ pc[t] = "snap" /\ snap' = [snap EXCEPT ![t] = CurrentState]
        BY <2>6 DEF Snapshot
      <3>2. op[t] \in Toggles
        BY <2>1, <3>1 DEF InMethod, Toggles, SourcePlaces, StopPlaces, OtherPlaces
      <3>3. Tells(snap[t])'
        BY <3>1 DEF Tells, CurrentState
      <3>4. \A u \in Tasks \ {t} : snap'[u] = snap[u]
        BY <3>1
      <3>5. ASSUME ~closed', NEW u \in Tasks, pc'[u] = "report" PROVE Tells(snap[u])'
        <4>1. CASE u # t
          BY <2>2, <3>1, <3>4, <3>5, <4>1 DEF Reporting, Tells
        <4> QED
          BY <3>3, <4>1
      <3> QED
        BY <3>1, <3>2, <3>5 DEF Reporting
    <2>7. CASE Report(t)
      <3>1. /\ UNCHANGED <<muted, paused, closed>> /\ op'[t] = "none" /\ pc'[t] = "idle"
            /\ pc[t] = "report" /\ snap' = [snap EXCEPT ![t] = NoMedia] /\ reported' = snap[t]
        BY <2>7 DEF Report
      <3>2. \A u \in Tasks \ {t} : snap'[u] = snap[u]
        BY <3>1
      <3>3. ~closed' => Tells(reported)'
        BY <3>1 DEF Reporting, Tells
      <3>4. ASSUME ~closed', NEW u \in Tasks, pc'[u] = "report" PROVE Tells(snap[u])'
        BY <2>2, <3>1, <3>2, <3>4 DEF Reporting, Tells
      <3> QED
        BY <3>3, <3>4 DEF Reporting
    <2>8. CASE Reset(t)
      <3>1. closed'
        BY <2>1, <2>8 DEF Reset, InMethod, StepOf, TogglePlaces, SourcePlaces, OtherPlaces
      <3> QED
        BY <3>1 DEF Reporting
    <2>9. CASE SetSourceStep(t) \/ ConnectStep(t) \/ StreamerEndStep(t) \/ StopAudio(t) \/ StopVideo(t)
      <3>1. UNCHANGED <<muted, paused, snap, reported, closed>> /\ pc'[t] # "report"
        <4>1. CASE ConnectStep(t)
          BY <4>1 DEF ConnectStep, Dial, Dialed, StoreConnected
        <4>2. CASE StreamerEndStep(t)
          BY <4>2 DEF StreamerEndStep, EndOnce, EndAudio, EndVideo
        <4>3. CASE StopAudio(t) \/ StopVideo(t)
          BY <4>3 DEF StopAudio, StopVideo, TakeAndStop
        <4>4. CASE SetSourceStep(t)
          BY <4>4 DEF SetSourceStep, Gate, GateWait, Recheck, SwitchOn, LockAudio, LockVideo, Lock,
                  Replace, Spawn, Install, Unlock, SwitchOff, Upgrade
        <4> QED
          BY <2>9, <4>1, <4>2, <4>3, <4>4
      <3>2. op[t] \notin Toggles
        BY <2>1, <2>9 DEF InMethod, Toggles, TogglePlaces, SourcePlaces, StopPlaces, OtherPlaces,
                  ConnectStep, Dial, Dialed, StoreConnected, StreamerEndStep, EndOnce, EndAudio, EndVideo,
                  StopAudio, StopVideo, TakeAndStop,
                  SetSourceStep, Gate, GateWait, Recheck, SwitchOn, LockAudio, LockVideo, Lock,
                  Replace, Spawn, Install, Unlock, SwitchOff, Upgrade
      <3> QED
        BY <2>2, <3>1, <3>2, ReportingStays
    <2> QED
      BY <1>2, <2>3, <2>4, <2>5, <2>6, <2>7, <2>8, <2>9 DEF TaskStep, ToggleStep, StopStep
  <1> QED
    BY <1>1, <1>2 DEF Next

\* When one task does the toggling, what it reported last is the flags as they are, whatever
\* the others set, connect and end meanwhile (with two togglers the later report may be the
\* earlier state).
THEOREM LastReportIsTrue == ASSUME OneToggler PROVE Spec => []ReportedIsCurrent
  <1>1. Init => Reporting
    <2> SUFFICES ASSUME Init PROVE Reporting
      OBVIOUS
    <2>1. \A t \in Tasks : pc[t] # "report"
      BY DEF Init
    <2>2. Tells(reported)
      BY DEF Init, NoMedia, Tells
    <2> QED
      BY <2>1, <2>2 DEF Reporting
  <1>2. Reporting => ReportedIsCurrent
    BY DEF Reporting, ReportedIsCurrent, Tells
  <1>3. IInv => Types
    BY DEF IInv, TypeOK
  <1> QED
    BY <1>1, <1>2, <1>3, ReportingStep, MethodsStep, MethodsInit, Invariance, PTL DEF Spec

----------------------------------------------------------------------------
(* The legs under the flags.                                                *)

\* What is under construction was never held.
Unheld ==
    /\ \A k \in Kinds : slot[k] <= gen
    /\ \A s \in held : s[2] <= gen
    /\ \A t \in Tasks : pc[t] \in {"build", "install"} =>
           \A k \in Pending(t) : <<k, gen>> \notin held

\* Only what is in a slot is held or released, and a builder owns the slots.
LEMMA UnheldStays ==
    ASSUME Types, Unheld, gen' = gen,
           \A k \in Kinds : slot'[k] \in {slot[k], NoStreamer},
           held' \subseteq held \cup InSlots(Kinds),
           \A u \in Tasks : pc'[u] \in {"build", "install"} =>
               pc[u] \in {"build", "install"} /\ want'[u] = want[u] /\ UNCHANGED slot
    PROVE  Unheld'
  <1> USE DEF Types, LocksOK, TasksOK, NoStreamer
  <1>1. \A k \in Kinds : slot'[k] <= gen'
    BY DEF Unheld
  <1>2. \A s \in InSlots(Kinds) : s[2] <= gen
    BY DEF Unheld, InSlots
  <1>3. \A s \in held' : s[2] <= gen'
    BY <1>2 DEF Unheld
  <1>4. ASSUME NEW u \in Tasks, pc'[u] \in {"build", "install"}, NEW k \in Pending(u)'
        PROVE  <<k, gen'>> \notin held'
    <2>1. k \in Pending(u) /\ k \in Kinds /\ slot[k] = NoStreamer
      BY <1>4 DEF Pending
    <2>2. <<k, gen>> \notin InSlots(Kinds) \/ gen = NoStreamer
      BY <2>1 DEF InSlots
    <2>3. <<k, gen>> \notin InSlots(Kinds)
      BY <2>1, <2>2 DEF InSlots
    <2> QED
      BY <1>4, <2>1, <2>3 DEF Unheld
  <1> QED
    BY <1>1, <1>3, <1>4 DEF Unheld

\* Every step keeps what is under construction unheld.
LEMMA UnheldStep == IInv /\ Unheld /\ [Next]_vars => Unheld'
  <1> SUFFICES ASSUME IInv, Unheld, [Next]_vars PROVE Unheld'
    OBVIOUS
  <1>0. Types /\ Reach
    BY DEF IInv, TypeOK, Reach
  <1> USE DEF flagVars, lockVars, streamVars, stackVars, taskVars, Types, TasksOK, LocksOK, Goto
  <1>1. CASE StackStep \/ StreamerStep \/ UNCHANGED vars
    <2>1. UNCHANGED <<gen, slot, held, pc, want>>
      BY <1>1, WorldMoves
    <2> QED
      BY <1>0, <2>1, UnheldStays
  <1> DEFINE Quiet(t) ==
        /\ UNCHANGED <<gen, slot, held>>
        /\ pc'[t] \in {"build", "install"} => pc[t] \in {"build", "install"} /\ want'[t] = want[t]
        /\ \A u \in Tasks \ {t} : pc'[u] = pc[u] /\ want'[u] = want[u]
  <1>2. ASSUME NEW t \in Tasks, Quiet(t) PROVE Unheld'
    BY <1>0, <1>2, UnheldStays
  <1>3. ASSUME NEW t \in Tasks, Invoke(t) PROVE Quiet(t)
    BY <1>0, <1>3 DEF Invoke, BeginToggle, BeginSetSource, BeginStop, BeginConnect, BeginStreamerEnd, Begin
  <1>4. ASSUME NEW t \in Tasks,
               Swap(t) \/ Peek(t) \/ Snapshot(t) \/ Report(t) \/ Reset(t) \/ ConnectStep(t) \/ StreamerEndStep(t)
        PROVE  Quiet(t)
    <2>1. CASE Swap(t) \/ Peek(t) \/ Snapshot(t) \/ Report(t) \/ Reset(t)
      BY <1>0, <2>1 DEF Swap, Peek, Snapshot, Report, Reset
    <2>2. CASE ConnectStep(t)
      BY <1>0, <2>2 DEF ConnectStep, Dial, Dialed, StoreConnected
    <2>3. CASE StreamerEndStep(t)
      BY <1>0, <2>3 DEF StreamerEndStep, EndOnce, EndAudio, EndVideo
    <2> QED
      BY <1>4, <2>1, <2>2, <2>3
  <1>5. ASSUME NEW t \in Tasks,
               \/ Gate(t) \/ GateWait(t) \/ Recheck(t) \/ SwitchOn(t) \/ LockAudio(t) \/ LockVideo(t)
               \/ Spawn(t) \/ Unlock(t) \/ SwitchOff(t) \/ Upgrade(t)
        PROVE  Quiet(t)
    <2>1. CASE Gate(t) \/ GateWait(t) \/ Recheck(t) \/ SwitchOn(t)
      BY <1>0, <2>1 DEF Gate, GateWait, Recheck, SwitchOn
    <2>2. CASE LockAudio(t) \/ LockVideo(t)
      BY <1>0, <2>2 DEF LockAudio, LockVideo, Lock
    <2>3. CASE Spawn(t) \/ Unlock(t) \/ SwitchOff(t) \/ Upgrade(t)
      BY <1>0, <2>3 DEF Spawn, Unlock, SwitchOff, Upgrade
    <2> QED
      BY <1>5, <2>1, <2>2, <2>3
  <1>6. ASSUME NEW t \in Tasks, ToggleAudio(t) \/ ToggleVideo(t) PROVE Unheld'
    <2>1. UNCHANGED <<gen, slot, want>> /\ pc'[t] \notin {"build", "install"}
          /\ \A u \in Tasks \ {t} : pc'[u] = pc[u]
      BY <1>0, <1>6 DEF ToggleAudio, ToggleVideo, ToggleLeg
    <2>2. held' \subseteq held \cup InSlots(Kinds)
      BY <1>6 DEF ToggleAudio, ToggleVideo, ToggleLeg, HoldStreamers, ReleaseStreamers, InSlots, Kinds
    <2> QED
      BY <1>0, <2>1, <2>2, UnheldStays
  <1>7. ASSUME NEW t \in Tasks, StopAudio(t) \/ StopVideo(t) PROVE Unheld'
    <2>1. PICK K \in Kinds : Free(K) /\ slot' = [slot EXCEPT ![K] = NoStreamer]
      BY <1>7 DEF StopAudio, StopVideo, TakeAndStop, Kinds
    <2>2. \A u \in Tasks : pc[u] \notin {"build", "install"}
      <3>1. \A u \in Tasks : NoTask # u
        BY GroupCallAssumption
      <3> QED
        BY <1>0, <2>1, <3>1 DEF Reach, LockDiscipline, Free, Kinds
    <2>3. UNCHANGED <<gen, held>> /\ \A u \in Tasks : pc'[u] \notin {"build", "install"}
      BY <1>0, <1>7, <2>2 DEF StopAudio, StopVideo, TakeAndStop
    <2> QED
      BY <1>0, <2>1, <2>3, UnheldStays
  <1>8. ASSUME NEW t \in Tasks, Replace(t) PROVE Unheld'
    <2>1. gen' = gen + 1 /\ held' = held /\ \A k \in Kinds : slot'[k] = 0
      BY <1>8 DEF Replace, NoStreamer
    <2>2. held \subseteq Streamers /\ gen \in Nat
      BY <1>0 DEF StreamersOK
    <2>3. \A s \in held' : s[2] <= gen' /\ s[2] # gen'
      BY <2>1, <2>2 DEF Unheld, Streamers
    <2>4. \A k \in Kinds : slot'[k] <= gen'
      BY <2>1, <2>2
    <2>5. \A k : <<k, gen'>> \notin held'
      BY <2>3
    <2> QED
      BY <2>3, <2>4, <2>5 DEF Unheld
  <1>9. ASSUME NEW t \in Tasks, Install(t) PROVE Unheld'
    <2> DEFINE s == <<NextLeg(t), gen>>
    <2>1. /\ pc[t] = "install" /\ UNCHANGED <<gen, want>> /\ slot' = [slot EXCEPT ![NextLeg(t)] = gen]
          /\ held' \in {held, held \cup {s}}
      BY <1>9 DEF Install
    <2>2. \A u \in Tasks \ {t} : pc'[u] = pc[u] /\ pc[u] \notin {"build", "install"}
      BY <1>0, <1>9 DEF Reach, LockDiscipline, Install
    <2>3. 0 < gen /\ gen \in Nat /\ NextLeg(t) \in Kinds
      BY <1>0, <2>1 DEF Reach, Construction, NextLeg, Kinds
    <2>4. \A k \in Kinds : slot'[k] <= gen'
      BY <1>0, <2>1, <2>3 DEF Unheld
    <2>5. \A r \in held' : r[2] <= gen'
      BY <2>1, <2>3 DEF Unheld
    <2>6. Pending(t)' \subseteq Pending(t) \ {NextLeg(t)}
      BY <1>0, <2>1, <2>3 DEF Pending, NoStreamer
    <2>7. \A k \in Pending(t)' : <<k, gen'>> \notin held'
      BY <2>1, <2>6 DEF Unheld
    <2> QED
      BY <2>2, <2>4, <2>5, <2>7 DEF Unheld
  <1> QED
    BY <1>1, <1>2, <1>3, <1>4, <1>5, <1>6, <1>7, <1>8, <1>9
       DEF Next, TaskStep, ToggleStep, SetSourceStep, StopStep

----------------------------------------------------------------------------
(* Flags and legs under one toggler.                                        *)

Pausing == {"pause", "resume"}

\* One task does the toggling, and of one flag only.
OneSwitch ==
    /\ OneToggler
    /\ \A t \in Tasks : OpsOf[t] \cap Toggles \subseteq Pausing \/ OpsOf[t] \cap Pausing = {}

\* Task t has swapped its flag, and the leg of kind k does not follow yet.
Owes(t, k) ==
    \/ op[t] \in Pausing /\ pc[t] \in {"peek", "audio"}
    \/ op[t] \in Pausing /\ pc[t] = "video" /\ k = "video"
    \/ op[t] \in {"mute", "unmute"} /\ pc[t] \in {"peek", "audio"} /\ k = "audio"

\* A flag is set by the methods that set it, and stays as its toggle left it until the legs follow.
FlagsSwapped ==
    ~closed =>
        /\ muted => \E t \in Tasks : "mute" \in OpsOf[t]
        /\ paused => \E t \in Tasks : "pause" \in OpsOf[t]
        /\ \A t \in Tasks : pc[t] \in {"peek", "audio", "video"} =>
               /\ op[t] \in Pausing => paused = (op[t] = "pause")
               /\ op[t] \in {"mute", "unmute"} => muted = (op[t] = "mute")

\* LegsObeyFlags as an inductive invariant: a leg obeys, or its toggle is still on the way.
Obeying ==
    ~closed =>
        \A k \in Kinds :
            \/ slot[k] = NoStreamer
            \/ \E t \in Tasks : Owes(t, k)
            \/ <<k, slot[k]>> \in held <=> ShouldBeHeld(k)

\* Steps that change no flag.
LEMMA FlagsStay ==
    ASSUME FlagsSwapped, NEW t \in Tasks, closed => closed', UNCHANGED <<muted, paused>>,
           pc'[t] \in {"peek", "audio", "video"} /\ op'[t] \in Toggles =>
               pc[t] \in {"peek", "audio", "video"} /\ op'[t] = op[t],
           \A u \in Tasks \ {t} : pc'[u] = pc[u] /\ op'[u] = op[u]
    PROVE  FlagsSwapped'
  BY DEF FlagsSwapped, Pausing, Toggles

\* Steps that change no flag and no leg, and that leave what is owed.
LEMMA ObeyingStays ==
    ASSUME Obeying, NEW t \in Tasks, closed => closed', UNCHANGED <<muted, paused, held>>,
           \A k \in Kinds : slot'[k] \in {slot[k], NoStreamer},
           \A k \in Kinds : Owes(t, k) => Owes(t, k)',
           \A u \in Tasks \ {t} : pc'[u] = pc[u] /\ op'[u] = op[u]
    PROVE  Obeying'
  <1>1. \A u \in Tasks, k \in Kinds : Owes(u, k) => Owes(u, k)'
    BY DEF Owes
  <1>2. ASSUME NEW k \in Kinds, slot'[k] = slot[k]
        PROVE  <<k, slot[k]>> \in held <=> ShouldBeHeld(k) => (<<k, slot[k]>> \in held <=> ShouldBeHeld(k))'
    BY <1>2 DEF ShouldBeHeld
  <1> QED
    BY <1>1, <1>2 DEF Obeying, ShouldBeHeld

\* Flags and legs together.
Follow == FlagsSwapped /\ Obeying

\* The others' places are not a toggle's.
LEMMA OneAtWork ==
    ASSUME OneSwitch, Methods, NEW t \in Tasks, op[t] \in Toggles
    PROVE  /\ op[t] \in OpsOf[t]
           /\ \A u \in Tasks \ {t} : op[u] \notin Toggles /\ \A k : ~Owes(u, k)
           /\ op[t] \in Pausing => \A u \in Tasks : {"mute", "unmute"} \cap OpsOf[u] = {}
           /\ op[t] \in {"mute", "unmute"} => \A u \in Tasks : Pausing \cap OpsOf[u] = {}
  <1>1. op[t] \in OpsOf[t]
    BY DEF Methods, InMethod, Toggles
  <1>2. \A u \in Tasks \ {t} : OpsOf[u] \cap Toggles = {}
    BY <1>1 DEF OneSwitch, OneToggler
  <1>3. \A u \in Tasks \ {t} : op[u] \notin Toggles
    BY <1>2 DEF Methods, InMethod, Toggles
  <1>4. \A u \in Tasks \ {t} : \A k : ~Owes(u, k)
    BY <1>3 DEF Owes, Toggles, Pausing
  <1>5. OpsOf[t] \cap Toggles \subseteq Pausing \/ OpsOf[t] \cap Pausing = {}
    BY DEF OneSwitch
  <1> QED
    BY <1>1, <1>2, <1>3, <1>4, <1>5 DEF Toggles, Pausing

\* The leg that a toggle has reached obeys the flags; the other one is not touched.
LEMMA LegStep ==
    ASSUME OneSwitch, IInv, Methods, FlagsSwapped, ~closed, NEW t \in Tasks, NEW k \in Kinds,
           pc[t] \in {"audio", "video"}, k = "audio" \/ op[t] \in Pausing, ToggleLeg(t, k)
    PROVE  /\ slot[k] # NoStreamer => (<<k, slot[k]>> \in held' <=> ShouldBeHeld(k))
           /\ \A j \in Kinds \ {k} : <<j, slot[j]>> \in held' <=> <<j, slot[j]>> \in held
  <1>1. op[t] \in Toggles
    BY DEF Methods, InMethod, SourcePlaces, StopPlaces, OtherPlaces, Toggles
  <1>2. <<k, slot[k]>> \in InSlots({k}) <=> slot[k] # NoStreamer
    BY DEF InSlots
  <1>3. \A j \in Kinds \ {k} : <<j, slot[j]>> \notin InSlots({k})
    BY DEF InSlots
  <1>4. held' = IF op[t] \in {"pause", "mute"} THEN held \cup InSlots({k}) ELSE held \ InSlots({k})
    BY DEF ToggleLeg, HoldStreamers, ReleaseStreamers
  <1>5. op[t] \in Pausing => ~muted /\ paused = (op[t] = "pause")
    BY <1>1, OneAtWork DEF FlagsSwapped
  <1>6. op[t] \in {"mute", "unmute"} => ~paused /\ muted = (op[t] = "mute")
    BY <1>1, OneAtWork DEF FlagsSwapped, Pausing
  <1>7. muted \in BOOLEAN /\ paused \in BOOLEAN
    BY DEF IInv, TypeOK, Types, FlagsOK
  <1>8. slot[k] # NoStreamer => (<<k, slot[k]>> \in held' <=> op[t] \in {"pause", "mute"})
    BY <1>2, <1>4
  <1>9. ShouldBeHeld(k) <=> op[t] \in {"pause", "mute"}
    BY <1>1, <1>5, <1>6, <1>7 DEF ShouldBeHeld, Kinds, Toggles, Pausing
  <1>10. \A j \in Kinds \ {k} : <<j, slot[j]>> \in held' <=> <<j, slot[j]>> \in held
    BY <1>3, <1>4
  <1> QED
    BY <1>8, <1>9, <1>10

\* Every step of a task that is not one of the toggle's, nor of set_source's that changes a slot.
LEMMA IdleLegs ==
    ASSUME Types, Methods, Follow, NEW t \in Tasks,
           \/ Invoke(t) \/ ConnectStep(t) \/ StreamerEndStep(t) \/ StopAudio(t) \/ StopVideo(t)
           \/ Gate(t) \/ GateWait(t) \/ Recheck(t) \/ SwitchOn(t) \/ LockAudio(t) \/ LockVideo(t)
           \/ Replace(t) \/ Spawn(t) \/ Unlock(t) \/ SwitchOff(t) \/ Upgrade(t)
           \/ Peek(t) \/ Snapshot(t) \/ Report(t)
    PROVE  Follow'
  <1> USE DEF Types, TasksOK, LocksOK, flagVars, lockVars, streamVars, stackVars, Goto
  <1> DEFINE Quiet ==
        /\ closed => closed'
        /\ UNCHANGED <<muted, paused, held>>
        /\ \A k \in Kinds : slot'[k] \in {slot[k], NoStreamer}
        /\ pc'[t] \in {"peek", "audio", "video"} /\ op'[t] \in Toggles =>
               pc[t] \in {"peek", "audio", "video"} /\ op'[t] = op[t]
        /\ \A k \in Kinds : Owes(t, k) => Owes(t, k)'
        /\ \A u \in Tasks \ {t} : pc'[u] = pc[u] /\ op'[u] = op[u]
  <1> SUFFICES Quiet
    BY FlagsStay, ObeyingStays DEF Follow
  <1>0. InMethod(t)
    BY DEF Methods
  <1> USE DEF Toggles, Pausing, Owes
  <1>1. CASE Invoke(t)
    BY <1>1 DEF Invoke, BeginToggle, BeginSetSource, BeginStop, BeginConnect, BeginStreamerEnd, Begin
  <1>2. CASE Peek(t)
    BY <1>2 DEF Peek
  <1>3. CASE Snapshot(t) \/ Report(t)
    BY <1>3 DEF Snapshot, Report
  <1>4. CASE ConnectStep(t)
    BY <1>4 DEF ConnectStep, Dial, Dialed, StoreConnected
  <1>5. CASE StreamerEndStep(t)
    BY <1>5 DEF StreamerEndStep, EndOnce, EndAudio, EndVideo
  <1>6. CASE StopAudio(t) \/ StopVideo(t)
    BY <1>6 DEF StopAudio, StopVideo, TakeAndStop
  <1>7. CASE Gate(t) \/ GateWait(t) \/ Recheck(t) \/ LockAudio(t) \/ LockVideo(t)
    BY <1>7 DEF Gate, GateWait, Recheck, LockAudio, LockVideo, Lock
  <1>8. CASE SwitchOn(t)
    BY <1>0, <1>8 DEF SwitchOn, InMethod, TogglePlaces, StopPlaces, OtherPlaces
  <1>9. CASE Replace(t) \/ Spawn(t) \/ Unlock(t) \/ SwitchOff(t) \/ Upgrade(t)
    BY <1>9 DEF Replace, Spawn, Unlock, SwitchOff, Upgrade
  <1> QED
    BY <1>1, <1>2, <1>3, <1>4, <1>5, <1>6, <1>7, <1>8, <1>9

\* The toggler's swap and its two legs.
LEMMA SwitchLegs ==
    ASSUME OneSwitch, IInv, Methods, Follow, NEW t \in Tasks, Swap(t) \/ ToggleAudio(t) \/ ToggleVideo(t)
    PROVE  Follow'
  <1> USE DEF Types, TasksOK, FlagsOK, flagVars, lockVars, streamVars, stackVars
  <1>0. Types
    BY DEF IInv, TypeOK
  <1>1. InMethod(t) /\ op[t] \in Toggles /\ closed' = closed
    BY DEF Methods, InMethod, Swap, ToggleAudio, ToggleVideo, ToggleLeg, SourcePlaces, StopPlaces, OtherPlaces, Toggles
  <1>2. \A u \in Tasks \ {t} : pc'[u] = pc[u] /\ op'[u] = op[u]
    BY <1>0 DEF Swap, ToggleAudio, ToggleVideo, Goto
  <1>3. /\ op[t] \in OpsOf[t]
        /\ \A u \in Tasks \ {t} : op[u] \notin Toggles /\ \A k : ~Owes(u, k)
    BY <1>1, OneAtWork
  <1>4. SUFFICES ASSUME ~closed PROVE Follow'
    BY <1>1 DEF Follow, FlagsSwapped, Obeying
  <1>5. CASE Swap(t)
    <2>1. pc[t] = "swap" /\ pc'[t] \in {"peek", "idle"} /\ UNCHANGED <<slot, held>>
      BY <1>0, <1>5 DEF Swap, Goto
    <2>2. CASE op[t] \in Pausing
      <3>1. paused' = (op[t] = "pause") /\ muted' = muted
        BY <1>5, <2>2 DEF Swap, Pausing
      <3>2. pc'[t] = "idle" => paused' = paused
        BY <1>0, <1>5, <2>2, <3>1 DEF Swap, Goto, Pausing
      <3>3. pc'[t] = "peek" => op'[t] = op[t]
        BY <1>0, <1>5 DEF Swap, Goto
      <3>4. FlagsSwapped'
        <4>1. paused' => \E u \in Tasks : "pause" \in OpsOf[u]
          BY <1>3, <3>1
        <4>2. muted' => \E u \in Tasks : "mute" \in OpsOf[u]
          BY <1>4, <3>1 DEF Follow, FlagsSwapped
        <4>3. \A u \in Tasks : pc'[u] \in {"peek", "audio", "video"} /\ op'[u] \in Toggles => u = t /\ op'[t] = op[t]
          BY <1>2, <1>3, <2>1, <3>3
        <4> QED
          BY <2>2, <3>1, <4>1, <4>2, <4>3 DEF FlagsSwapped, Toggles, Pausing
      <3>5. CASE pc'[t] = "peek"
        <4>1. \A k \in Kinds : Owes(t, k)'
          BY <2>2, <3>3, <3>5 DEF Owes
        <4> QED
          BY <3>4, <4>1 DEF Follow, Obeying
      <3>6. CASE pc'[t] = "idle"
        <4>1. \A k \in Kinds : ~Owes(t, k)
          BY <2>1 DEF Owes
        <4> QED
          BY <1>1, <1>2, <2>1, <3>1, <3>2, <3>4, <3>6, <4>1, ObeyingStays DEF Follow
      <3> QED
        BY <2>1, <3>5, <3>6
    <2>3. CASE op[t] \in {"mute", "unmute"}
      <3>1. muted' = (op[t] = "mute") /\ paused' = paused
        BY <1>5, <2>3 DEF Swap
      <3>2. pc'[t] = "idle" => muted' = muted
        BY <1>0, <1>5, <2>3, <3>1 DEF Swap, Goto
      <3>3. pc'[t] = "peek" => op'[t] = op[t]
        BY <1>0, <1>5 DEF Swap, Goto
      <3>4. FlagsSwapped'
        <4>1. muted' => \E u \in Tasks : "mute" \in OpsOf[u]
          BY <1>3, <2>3, <3>1
        <4>2. paused' => \E u \in Tasks : "pause" \in OpsOf[u]
          BY <1>4, <3>1 DEF Follow, FlagsSwapped
        <4>3. \A u \in Tasks : pc'[u] \in {"peek", "audio", "video"} /\ op'[u] \in Toggles => u = t /\ op'[t] = op[t]
          BY <1>2, <1>3, <2>1, <3>3
        <4> QED
          BY <2>3, <3>1, <4>1, <4>2, <4>3 DEF FlagsSwapped, Toggles, Pausing
      <3>5. CASE pc'[t] = "peek"
        <4>1. Owes(t, "audio")'
          BY <2>3, <3>3, <3>5 DEF Owes
        <4>2. \A k : ~Owes(t, k)
          BY <2>1 DEF Owes
        <4>3. slot["video"] = NoStreamer \/ (<<"video", slot["video"]>> \in held <=> ShouldBeHeld("video"))
          BY <1>3, <1>4, <4>2 DEF Follow, Obeying, Kinds
        <4>4. slot'["video"] = NoStreamer \/ (<<"video", slot["video"]>> \in held <=> ShouldBeHeld("video"))'
          BY <2>1, <3>1, <4>3 DEF ShouldBeHeld
        <4> QED
          BY <3>4, <4>1, <4>4 DEF Follow, Obeying, Kinds
      <3>6. CASE pc'[t] = "idle"
        <4>1. \A k \in Kinds : ~Owes(t, k)
          BY <2>1 DEF Owes
        <4> QED
          BY <1>1, <1>2, <2>1, <3>1, <3>2, <3>4, <3>6, <4>1, ObeyingStays DEF Follow
      <3> QED
        BY <2>1, <3>5, <3>6
    <2> QED
      BY <1>1, <2>2, <2>3 DEF Toggles, Pausing
  <1>6. ASSUME NEW k \in Kinds, pc[t] = k, ToggleLeg(t, k), k = "audio" \/ op[t] \in Pausing,
               Goto(t, IF k = "audio" /\ op[t] \in Pausing THEN "video" ELSE "snap")
        PROVE  Follow'
    <2>1. /\ UNCHANGED <<slot, muted, paused>> /\ op' = op
          /\ pc'[t] = IF k = "audio" /\ op[t] \in Pausing THEN "video" ELSE "snap"
      BY <1>0, <1>6 DEF ToggleLeg, Goto
    <2>2. slot[k] # NoStreamer => (<<k, slot[k]>> \in held' <=> ShouldBeHeld(k))
      BY <1>4, <1>6, LegStep DEF Follow, Kinds
    <2>3. \A j \in Kinds \ {k} : <<j, slot[j]>> \in held' <=> <<j, slot[j]>> \in held
      BY <1>4, <1>6, LegStep DEF Follow, Kinds
    <2>4. FlagsSwapped'
      BY <1>1, <1>2, <1>6, <2>1, FlagsStay DEF Follow, Kinds
    <2>5. ASSUME NEW j \in Kinds, slot[j] # NoStreamer, ~Owes(t, j)'
          PROVE  (<<j, slot[j]>> \in held <=> ShouldBeHeld(j))'
      <3>1. CASE j = k
        BY <2>1, <2>2, <2>5, <3>1 DEF ShouldBeHeld
      <3>2. CASE j # k
        <4>1. ~Owes(t, j)
          BY <1>6, <2>1, <2>5, <3>2 DEF Owes, Kinds
        <4>2. <<j, slot[j]>> \in held <=> ShouldBeHeld(j)
          BY <1>3, <1>4, <2>5, <4>1 DEF Follow, Obeying
        <4> QED
          BY <2>1, <2>3, <3>2, <4>2 DEF ShouldBeHeld
      <3> QED
        BY <3>1, <3>2
    <2>6. Obeying'
      BY <2>1, <2>5 DEF Obeying
    <2> QED
      BY <2>4, <2>6 DEF Follow
  <1>7. CASE ToggleAudio(t)
    BY <1>6, <1>7 DEF ToggleAudio, Kinds, Pausing
  <1>8. CASE ToggleVideo(t)
    <2>1. op[t] \in Pausing
      BY <1>1, <1>8 DEF ToggleVideo, InMethod, Pausing, SourcePlaces, StopPlaces, OtherPlaces
    <2> QED
      BY <1>6, <1>8, <2>1 DEF ToggleVideo, Kinds
  <1> QED
    BY <1>5, <1>7, <1>8

\* A leg that is installed starts out as the flags say.
LEMMA InstallObeys ==
    ASSUME IInv, Unheld, Follow, NEW t \in Tasks, Install(t)
    PROVE  Follow'
  <1> USE DEF flagVars
  <1>0. Types /\ Reach
    BY DEF IInv, TypeOK, Reach
  <1>1. /\ pc[t] = "install" /\ pc'[t] = "build" /\ op' = op /\ UNCHANGED <<closed, muted, paused>>
        /\ \A u \in Tasks \ {t} : pc'[u] = pc[u]
    BY <1>0 DEF Install, Goto, Types, TasksOK
  <1>2. PICK k \in Kinds : k = NextLeg(t) /\ k \in Pending(t)
    <2>1. Pending(t) # {} /\ Pending(t) \subseteq Kinds
      BY <1>0, <1>1 DEF Reach, Construction, Pending, Types, TasksOK
    <2> QED
      BY <2>1 DEF NextLeg, Kinds
  <1>3. slot' = [slot EXCEPT ![k] = gen] /\ held' = IF StartsHeld(k) THEN held \cup {<<k, gen>>} ELSE held
    BY <1>2 DEF Install
  <1>4. slot'[k] = gen /\ (\A j \in Kinds \ {k} : slot'[j] = slot[j]) /\ <<k, gen>> \notin held
    BY <1>0, <1>1, <1>2, <1>3 DEF Unheld, Types, LocksOK
  <1>5. FlagsSwapped'
    BY <1>1, FlagsStay DEF Follow
  <1>6. \A u \in Tasks, j \in Kinds : Owes(u, j) => Owes(u, j)'
    BY <1>1 DEF Owes
  <1>7. (<<k, gen>> \in held <=> ShouldBeHeld(k))'
    <2>1. <<k, gen>> \in held' <=> StartsHeld(k)
      BY <1>3, <1>4
    <2>2. gen' = gen
      BY DEF Install
    <2>3. StartsHeld(k) <=> paused' \/ (k = "audio" /\ muted')
      BY <1>1 DEF StartsHeld
    <2> QED
      BY <1>1, <2>1, <2>2, <2>3 DEF ShouldBeHeld, Kinds
  <1>8. ASSUME NEW j \in Kinds, j # k
        PROVE  (<<j, slot[j]>> \in held <=> ShouldBeHeld(j)) => (<<j, slot[j]>> \in held <=> ShouldBeHeld(j))'
    BY <1>1, <1>3, <1>4, <1>8 DEF ShouldBeHeld
  <1>9. (<<k, slot[k]>> \in held <=> ShouldBeHeld(k))'
    BY <1>4, <1>7 DEF Install
  <1>10. Obeying'
    <2> SUFFICES ASSUME ~closed', NEW j \in Kinds, slot'[j] # NoStreamer, ~\E u \in Tasks : Owes(u, j)'
                 PROVE  (<<j, slot[j]>> \in held <=> ShouldBeHeld(j))'
      BY DEF Obeying
    <2>1. CASE j = k
      BY <1>9, <2>1
    <2>2. CASE j # k
      <3>1. <<j, slot[j]>> \in held <=> ShouldBeHeld(j)
        BY <1>1, <1>4, <1>6, <2>2 DEF Follow, Obeying
      <3> QED
        BY <1>8, <2>2, <3>1
    <2> QED
      BY <2>1, <2>2
  <1> QED
    BY <1>5, <1>10 DEF Follow

\* Every step keeps the legs and the flags together.
LEMMA FollowStep ==
    ASSUME OneSwitch, IInv, Methods, Unheld, Follow, [Next]_vars
    PROVE  Follow'
  <1>0. Types
    BY DEF IInv, TypeOK
  <1>1. CASE StackStep \/ StreamerStep \/ UNCHANGED vars
    BY <1>1, WorldMoves DEF Follow, FlagsSwapped, Obeying, Owes, ShouldBeHeld, flagVars, lockVars, taskVars
  <1>2. ASSUME NEW t \in Tasks, Reset(t) PROVE Follow'
    <2>1. closed'
      BY <1>2 DEF Reset, Methods, InMethod, TogglePlaces, SourcePlaces, OtherPlaces
    <2> QED
      BY <2>1 DEF Follow, FlagsSwapped, Obeying
  <1> QED
    BY <1>0, <1>1, <1>2, IdleLegs, SwitchLegs, InstallObeys DEF Next, TaskStep, ToggleStep, SetSourceStep, StopStep

\* When one task does the toggling, and of one flag, the legs are held as the flags say
\* whenever it is not at work: a source installed in the middle of a toggle starts out as the
\* toggle will leave it.  (With both flags a resume lets muted audio flow; with two togglers
\* the legs may follow in the other order.)
THEOREM LegsFollowFlags == ASSUME OneSwitch PROVE Spec => []LegsObeyFlags
  <1>1. Init => Follow /\ Unheld
    <2> SUFFICES ASSUME Init PROVE Follow /\ Unheld
      OBVIOUS
    <2>1. FlagsSwapped /\ Unheld
      BY DEF Init, FlagsSwapped, Unheld, NoStreamer
    <2>2. Obeying
      BY DEF Init, Obeying
    <2> QED
      BY <2>1, <2>2 DEF Follow
  <1>2. Follow => LegsObeyFlags
    BY DEF Follow, Obeying, LegsObeyFlags, TogglesSettled, Owes, Pausing, Toggles
  <1>3. IInv => Types
    BY DEF IInv, TypeOK
  <1> QED
    BY <1>1, <1>2, <1>3, UnheldStep, FollowStep, MethodsStep, MethodsInit, Invariance, PTL DEF Spec
=============================================================================
