----------------------------- MODULE GroupCall -----------------------------
(***************************************************************************)
(* One WebRTC group call (instances/group_call.rs) under concurrent use.   *)
(*                                                                         *)
(* The client hands out the call as an Arc<dyn Call>, so any number of     *)
(* async tasks may be inside its methods at once.  The flags of the call   *)
(* are separate atomics; only the two streamer slots are behind mutexes.   *)
(* A method is therefore cut here at every atomic access and every lock    *)
(* operation that another task can tell apart, and a task's program        *)
(* counter is the next cut.                                                *)
(*                                                                         *)
(* The parts next to the call are seen through what the call can tell of   *)
(* them: a Streamer through its `running` and `paused` flags, its on_end   *)
(* callback and whether its pacing task is still there; the Stack through  *)
(* its connection state, its keys and its one-shot handshake.  The call is *)
(* wired the way Client::create_call wires it: no dispatcher, and          *)
(* on_upgrade is reported by the client after the method returns.  The     *)
(* flags had_audio and had_video only choose which ends                    *)
(* handle_streamer_end tells the caller of, and are left out.              *)
(***************************************************************************)
EXTENDS Naturals, FiniteSets

CONSTANTS Tasks,    \* the async tasks that hold the call
          NoTask,   \* the owner of a free mutex
          OpsOf,    \* the methods each task may invoke
          Sources,  \* the sets of legs a caller passes to set_source
          MaxGen    \* bound: how many sources are installed in one behaviour

Kinds == {"audio", "video"}

Toggles == {"pause", "resume", "mute", "unmute"}

OpNames == Toggles \cup {"set_source", "connect", "stop", "streamer_end"}

ASSUME GroupCallAssumption ==
    /\ NoTask \notin Tasks
    /\ OpsOf \in [Tasks -> SUBSET OpNames]
    /\ Sources \subseteq SUBSET Kinds
    /\ MaxGen \in Nat

\* The g-th source that is installed has at most one streamer per leg.
Streamers == Kinds \X Nat
NoStreamer == 0

ConnStates == {"Connecting", "Connected", "Closed"}

MediaStates == [muted : BOOLEAN, paused : BOOLEAN, video_stopped : BOOLEAN]

PCs == {"idle", "swap", "peek", "audio", "video", "snap", "report",
        "gate", "wait", "recheck", "switch", "lock_audio", "lock_video",
        "replace", "build", "install", "finish", "upgrade",
        "dial", "dialing", "connected_cb", "connected_store",
        "stop_audio", "stop_video", "reset",
        "once", "end_audio", "end_video"}

VARIABLES
    \* the atomics of GroupCall
    closed, switching, connect_called, paused, muted, ended_once, net_state,
    \* its two Mutex<Option<Arc<Streamer>>>: who owns them, and what is in them
    holder, slot, gen,
    \* the streamers
    live,      \* streamers whose pacing task has not ended
    running,   \* streamers with running = true
    held,      \* streamers with paused = true
    armed,     \* streamers whose on_end callback is registered
    ending,    \* streamers whose pacing task took the callback and is to call it
    fired,     \* streamers whose end the caller was told of
    \* the stack
    stack_state, keyed, worker, transport_closed, closing,
    \* the tasks
    pc, op, want, snap,
    \* the MediaState the client reported last through on_upgrade
    reported

flagVars == <<closed, switching, connect_called, paused, muted, ended_once>>
lockVars == <<holder, slot, gen>>
streamVars == <<live, running, held, armed, ending, fired>>
stackVars == <<stack_state, keyed, worker, transport_closed, closing>>
taskVars == <<pc, op, want, snap>>
vars == <<flagVars, net_state, lockVars, streamVars, stackVars, taskVars, reported>>

----------------------------------------------------------------------------
(* Helpers *)

Free(k) == holder[k] = NoTask

\* The streamers in the slots of the kinds in K.
InSlots(K) == {<<k, slot[k]>> : k \in {j \in K : slot[j] # NoStreamer}}

\* (seeded faults) a stop that leaves the callback, and one that leaves the task running.
StopKeepsCallback(S) == running' = running \ S /\ UNCHANGED armed
StopOnlyDisarms(S) == armed' = armed \ S /\ UNCHANGED running

\* Streamer::stop: the callback is dropped, then running is cleared.
StopStreamers(S) ==
    /\ armed' = armed \ S
    /\ running' = running \ S

\* Streamer::pause and Streamer::resume.
HoldStreamers(S) == held' = held \cup S
ReleaseStreamers(S) == held' = held \ S

\* (seeded fault) silent only when muted and paused.
SilentWhenBoth ==
    [muted |-> muted, paused |-> muted /\ paused,
     video_stopped |-> slot["video"] = NoStreamer]

\* current_state: the video slot is read under its mutex.
CurrentState ==
    [muted |-> muted, paused |-> muted \/ paused,
     video_stopped |-> slot["video"] = NoStreamer]

\* The state of a call that nothing was done to yet.
NoMedia == [muted |-> FALSE, paused |-> FALSE, video_stopped |-> TRUE]

\* A task goes on; when its method returns, the method's locals are gone.
Goto(t, label) ==
    /\ pc' = [pc EXCEPT ![t] = label]
    /\ op' = IF label = "idle" THEN [op EXCEPT ![t] = "none"] ELSE op
    /\ want' = IF label = "idle" THEN [want EXCEPT ![t] = {}] ELSE want

\* A method is entered, with S as the legs it is given, and passes its closed check.
Begin(t, o, S, label) ==
    /\ pc[t] = "idle"
    /\ o \in OpsOf[t]
    /\ ~closed
    /\ pc' = [pc EXCEPT ![t] = label]
    /\ op' = [op EXCEPT ![t] = o]
    /\ want' = [want EXCEPT ![t] = S]

Init ==
    /\ closed = FALSE /\ switching = FALSE /\ connect_called = FALSE
    /\ paused = FALSE /\ muted = FALSE /\ ended_once = FALSE
    /\ net_state = "Connecting"
    /\ holder = [k \in Kinds |-> NoTask]
    /\ slot = [k \in Kinds |-> NoStreamer]
    /\ gen = 0
    /\ live = {} /\ running = {} /\ held = {}
    /\ armed = {} /\ ending = {} /\ fired = {}
    /\ stack_state = "Connecting" /\ keyed = FALSE /\ worker = FALSE
    /\ transport_closed = FALSE /\ closing = "no"
    /\ pc = [t \in Tasks |-> "idle"]
    /\ op = [t \in Tasks |-> "none"]
    /\ want = [t \in Tasks |-> {}]
    /\ snap = [t \in Tasks |-> NoMedia]
    /\ reported = NoMedia

----------------------------------------------------------------------------
(* pause, resume, mute, unmute.  The flag is swapped first; the streamers  *)
(* follow, one mutex after the other; then the client reports the state    *)
(* it finds.                                                               *)

BeginToggle(t) ==
    /\ \E o \in Toggles : Begin(t, o, {}, "swap")
    /\ UNCHANGED <<flagVars, net_state, lockVars, streamVars, stackVars, snap, reported>>

\* A swap that finds the flag already at its target returns Ok(false).
Swap(t) ==
    /\ pc[t] = "swap"
    /\ IF op[t] \in {"pause", "resume"}
       THEN /\ paused' = (op[t] = "pause")
            /\ Goto(t, IF paused = (op[t] = "pause") THEN "idle" ELSE "peek")
            /\ UNCHANGED muted
       ELSE /\ muted' = (op[t] = "mute")
            /\ Goto(t, IF muted = (op[t] = "mute") THEN "idle" ELSE "peek")
            /\ UNCHANGED paused
    /\ UNCHANGED <<closed, switching, connect_called, ended_once, net_state,
                   lockVars, streamVars, stackVars, snap, reported>>

\* prev = self.current_state(), in the toggles and in set_source.
Peek(t) ==
    /\ pc[t] = "peek"
    /\ Free("video")
    /\ Goto(t, IF op[t] = "set_source" THEN "lock_audio" ELSE "audio")
    /\ UNCHANGED <<flagVars, net_state, lockVars, streamVars, stackVars, snap, reported>>

ToggleLeg(t, k) ==
    /\ Free(k)
    /\ \/ op[t] \in {"pause", "mute"} /\ HoldStreamers(InSlots({k}))
       \/ op[t] \in {"resume", "unmute"} /\ ReleaseStreamers(InSlots({k}))
    /\ UNCHANGED <<flagVars, net_state, lockVars, live, running, armed, ending, fired,
                   stackVars, snap, reported>>

ToggleAudio(t) ==
    /\ pc[t] = "audio"
    /\ Goto(t, IF op[t] \in {"pause", "resume"} THEN "video" ELSE "snap")
    /\ ToggleLeg(t, "audio")

ToggleVideo(t) ==
    /\ pc[t] = "video"
    /\ Goto(t, "snap")
    /\ ToggleLeg(t, "video")

\* fire_upgrade_if_changed and then the client's call.state() both wait for the
\* video mutex and change nothing: one step.
Snapshot(t) ==
    /\ pc[t] = "snap"
    /\ Free("video")
    /\ snap' = [snap EXCEPT ![t] = CurrentState]
    /\ Goto(t, "report")
    /\ UNCHANGED <<flagVars, net_state, lockVars, streamVars, stackVars, reported>>

Report(t) ==
    /\ pc[t] = "report"
    /\ reported' = snap[t]
    /\ snap' = [snap EXCEPT ![t] = NoMedia]
    /\ Goto(t, "idle")
    /\ UNCHANGED <<flagVars, net_state, lockVars, streamVars, stackVars>>

----------------------------------------------------------------------------
(* set_source *)

InFlight == {t \in Tasks : pc[t] # "idle" /\ op[t] = "set_source"}

BeginSetSource(t) ==
    /\ gen + Cardinality(InFlight) < MaxGen
    /\ \E S \in Sources : Begin(t, "set_source", S, "gate")
    /\ UNCHANGED <<flagVars, net_state, lockVars, streamVars, stackVars, snap, reported>>

Gate(t) ==
    /\ pc[t] = "gate"
    /\ Goto(t, IF "Connected" \in {stack_state, net_state} THEN "switch"
               ELSE IF connect_called THEN "wait" ELSE "recheck")
    /\ UNCHANGED <<flagVars, net_state, lockVars, streamVars, stackVars, snap, reported>>

\* timeout(connect_timeout, notified()): it ends either way, and the result is dropped.
GateWait(t) ==
    /\ pc[t] = "wait"
    /\ Goto(t, "recheck")
    /\ UNCHANGED <<flagVars, net_state, lockVars, streamVars, stackVars, snap, reported>>

\* (seeded fault) the wait's outcome is not checked.
ProceedAnyway == TRUE

\* Only the stack's own state counts after the wait.
MayProceed == stack_state = "Connected"

Recheck(t) ==
    /\ pc[t] = "recheck"
    /\ Goto(t, IF MayProceed THEN "switch" ELSE "idle")
    /\ UNCHANGED <<flagVars, net_state, lockVars, streamVars, stackVars, snap, reported>>

SwitchOn(t) ==
    /\ pc[t] = "switch"
    /\ switching' = TRUE
    /\ Goto(t, "peek")
    /\ UNCHANGED <<closed, connect_called, paused, muted, ended_once, net_state,
                   lockVars, streamVars, stackVars, snap, reported>>

Lock(t, k, from, to) ==
    /\ pc[t] = from
    /\ Free(k)
    /\ holder' = [holder EXCEPT ![k] = t]
    /\ Goto(t, to)
    /\ UNCHANGED <<flagVars, net_state, slot, gen, streamVars, stackVars, snap, reported>>

LockAudio(t) == Lock(t, "audio", "lock_audio", "lock_video")
LockVideo(t) == Lock(t, "video", "lock_video", "replace")

\* (seeded fault) the video leg of the old source is forgotten.
ReplacedAudioOnly == {"audio"}

\* The kinds whose old streamer set_source takes out of its slot and stops.
ReplacedKinds == Kinds

\* The old streamers are taken out and stopped, the per-source flags are set anew.
Replace(t) ==
    /\ pc[t] = "replace"
    /\ StopStreamers(InSlots(ReplacedKinds))
    /\ slot' = [k \in Kinds |-> NoStreamer]
    /\ gen' = gen + 1
    /\ ended_once' = FALSE
    /\ Goto(t, "build")
    /\ UNCHANGED <<closed, switching, connect_called, paused, muted, net_state, holder,
                   live, held, ending, fired, stackVars, snap, reported>>

Pending(t) == {k \in want[t] : slot[k] = NoStreamer}

\* Audio is built before video.
NextLeg(t) == IF "audio" \in Pending(t) THEN "audio" ELSE "video"

\* Streamer::new_with_barrier: the streamer runs as soon as it is constructed.
Spawn(t) ==
    /\ pc[t] = "build"
    /\ Pending(t) # {}
    /\ live' = live \cup {<<NextLeg(t), gen>>}
    /\ running' = running \cup {<<NextLeg(t), gen>>}
    /\ Goto(t, "install")
    /\ UNCHANGED <<flagVars, net_state, lockVars, held, armed, ending, fired, stackVars, snap, reported>>

\* (seeded fault) a new leg always flows.
StartsFlowing(k) == FALSE

\* A new leg starts out held by the flags it obeys.
StartsHeld(k) == paused \/ (k = "audio" /\ muted)

\* (seeded fault) every leg reports.
EveryLegReports(k, legs) == TRUE

\* Audio is the master clock: video reports its end only when it is alone.
ReportsEnd(k, legs) == k = "audio" \/ "audio" \notin legs

Install(t) ==
    LET k == NextLeg(t)
        s == <<k, gen>>
    IN  /\ pc[t] = "install"
        /\ held' = IF StartsHeld(k) THEN held \cup {s} ELSE held
        /\ armed' = IF ReportsEnd(k, want[t]) THEN armed \cup {s} ELSE armed
        /\ slot' = [slot EXCEPT ![k] = gen]
        /\ Goto(t, "build")
        /\ UNCHANGED <<flagVars, net_state, holder, gen, live, running, ending, fired,
                       stackVars, snap, reported>>

Unlock(t) ==
    /\ pc[t] = "build"
    /\ Pending(t) = {}
    /\ holder' = [k \in Kinds |-> NoTask]
    /\ Goto(t, "finish")
    /\ UNCHANGED <<flagVars, net_state, slot, gen, streamVars, stackVars, snap, reported>>

SwitchOff(t) ==
    /\ pc[t] = "finish"
    /\ switching' = FALSE
    /\ Goto(t, "upgrade")
    /\ UNCHANGED <<closed, connect_called, paused, muted, ended_once, net_state,
                   lockVars, streamVars, stackVars, snap, reported>>

\* fire_upgrade_if_changed: reads the video slot; on_upgrade is not wired.
Upgrade(t) ==
    /\ pc[t] = "upgrade"
    /\ Free("video")
    /\ Goto(t, "idle")
    /\ UNCHANGED <<flagVars, net_state, lockVars, streamVars, stackVars, snap, reported>>

----------------------------------------------------------------------------
(* stop *)

BeginStop(t) ==
    /\ Begin(t, "stop", {}, "stop_audio")
    /\ closed' = TRUE
    /\ UNCHANGED <<switching, connect_called, paused, muted, ended_once, net_state,
                   lockVars, streamVars, stackVars, snap, reported>>

TakeAndStop(t, k, from, to) ==
    /\ pc[t] = from
    /\ Free(k)
    /\ StopStreamers(InSlots({k}))
    /\ slot' = [slot EXCEPT ![k] = NoStreamer]
    /\ Goto(t, to)
    /\ UNCHANGED <<flagVars, net_state, holder, gen, live, held, ending, fired, stackVars, snap, reported>>

StopAudio(t) == TakeAndStop(t, "audio", "stop_audio", "stop_video")
StopVideo(t) == TakeAndStop(t, "video", "stop_video", "reset")

\* The flags go back to their defaults and a task is spawned that closes the stack.
Reset(t) ==
    /\ pc[t] = "reset"
    /\ paused' = FALSE
    /\ muted' = FALSE
    /\ closing' = "spawned"
    /\ Goto(t, "idle")
    /\ UNCHANGED <<closed, switching, connect_called, ended_once, net_state, lockVars,
                   streamVars, stack_state, keyed, worker, transport_closed, snap, reported>>

----------------------------------------------------------------------------
(* connect, and the stack it waits for *)

BeginConnect(t) ==
    /\ Begin(t, "connect", {}, "dial")
    /\ UNCHANGED <<flagVars, net_state, lockVars, streamVars, stackVars, snap, reported>>

\* connect_called is set, then DirectTransport::connect runs up to its wait: a closed
\* transport is refused, bad parameters fail it after the state was set.
Dial(t) ==
    /\ pc[t] = "dial"
    /\ connect_called' = TRUE
    /\ \/ /\ transport_closed
          /\ Goto(t, "idle")
          /\ UNCHANGED stackVars
       \/ /\ ~transport_closed
          /\ stack_state' = "Connecting"
          /\ \/ Goto(t, "idle") /\ UNCHANGED worker
             \/ Goto(t, "dialing") /\ worker' = TRUE
          /\ UNCHANGED <<keyed, transport_closed, closing>>
    /\ UNCHANGED <<closed, switching, paused, muted, ended_once, net_state, lockVars,
                   streamVars, snap, reported>>

Dialed(t) ==
    /\ pc[t] = "dialing"
    /\ \/ stack_state = "Connected" /\ Goto(t, "connected_cb")
       \/ stack_state # "Connected" /\ Goto(t, "idle")      \* 10 s timeout
    /\ UNCHANGED <<flagVars, net_state, lockVars, streamVars, stackVars, snap, reported>>

\* The stack's state callback and GroupCall::connect both store Connected.
StoreConnected(t) ==
    /\ \/ pc[t] = "connected_cb" /\ Goto(t, "connected_store")
       \/ pc[t] = "connected_store" /\ Goto(t, "idle")
    /\ net_state' = "Connected"
    /\ UNCHANGED <<flagVars, lockVars, streamVars, stackVars, snap, reported>>

\* (seeded fault) the state is stored without keys.
KeysForgotten == UNCHANGED keyed

InstallKeys == keyed' = TRUE

\* The worker completes the DTLS handshake; keys are installed once.
Handshake ==
    /\ worker
    /\ ~keyed
    /\ InstallKeys
    /\ stack_state' = "Connected"
    /\ UNCHANGED <<flagVars, net_state, lockVars, streamVars, worker, transport_closed,
                   closing, taskVars, reported>>

\* The worker leaves its loop at the first turn that finds the transport closed.
WorkerExit ==
    /\ worker
    /\ transport_closed
    /\ worker' = FALSE
    /\ UNCHANGED <<flagVars, net_state, lockVars, streamVars, stack_state, keyed,
                   transport_closed, closing, taskVars, reported>>

\* The spawned task: Stack::close closes the transport, then reports Closed.
StackClose ==
    /\ closing = "spawned"
    /\ transport_closed' = TRUE
    /\ stack_state' = "Closed"
    /\ keyed' = FALSE
    /\ closing' = "closed"
    /\ UNCHANGED <<flagVars, net_state, lockVars, streamVars, worker, taskVars, reported>>

StoreClosed ==
    /\ closing = "closed"
    /\ net_state' = "Closed"
    /\ closing' = "done"
    /\ UNCHANGED <<flagVars, lockVars, streamVars, stack_state, keyed, worker,
                   transport_closed, taskVars, reported>>

----------------------------------------------------------------------------
(* handle_streamer_end: public, and called by nothing in the crate *)

BeginStreamerEnd(t) ==
    /\ Begin(t, "streamer_end", {}, "once")
    /\ ~switching
    /\ UNCHANGED <<flagVars, net_state, lockVars, streamVars, stackVars, snap, reported>>

\* Only the first end of a source is handled.
EndOnce(t) ==
    /\ pc[t] = "once"
    /\ ended_once' = TRUE
    /\ Goto(t, IF ended_once THEN "idle" ELSE "end_audio")
    /\ UNCHANGED <<closed, switching, connect_called, paused, muted, net_state, lockVars,
                   streamVars, stackVars, snap, reported>>

\* (seeded fault) the order opposite to set_source's.
EndVideoFirst == "video"

\* The order in which the two mutexes are taken.
EndFirst == "audio"
EndSecond == IF EndFirst = "audio" THEN "video" ELSE "audio"

\* The first mutex is kept while the second is waited for.
EndAudio(t) ==
    /\ pc[t] = "end_audio"
    /\ Free(EndFirst)
    /\ holder' = [holder EXCEPT ![EndFirst] = t]
    /\ StopStreamers(InSlots({EndFirst}))
    /\ Goto(t, "end_video")
    /\ UNCHANGED <<flagVars, net_state, slot, gen, live, held, ending, fired, stackVars, snap, reported>>

\* The caller's callback runs under both mutexes; they are released on return.
EndVideo(t) ==
    /\ pc[t] = "end_video"
    /\ Free(EndSecond)
    /\ holder' = [holder EXCEPT ![EndFirst] = NoTask]
    /\ StopStreamers(InSlots({EndSecond}))
    /\ Goto(t, "idle")
    /\ UNCHANGED <<flagVars, net_state, slot, gen, live, held, ending, fired, stackVars, snap, reported>>

----------------------------------------------------------------------------
(* The end of a streamer's pacing task: by end of file, by an error, or     *)
(* because it was stopped.  The callback is taken out first and called      *)
(* afterwards, on no lock.  A held streamer may still be at its last sample.*)

PacingEnds(s) ==
    /\ s \in live
    /\ live' = live \ {s}
    /\ IF s \in armed
       THEN armed' = armed \ {s} /\ ending' = ending \cup {s}
       ELSE UNCHANGED <<armed, ending>>
    /\ UNCHANGED <<flagVars, net_state, lockVars, running, held, fired, stackVars, taskVars,
                   reported>>

EndReported(s) ==
    /\ s \in ending
    /\ ending' = ending \ {s}
    /\ fired' = fired \cup {s}
    /\ UNCHANGED <<flagVars, net_state, lockVars, live, running, held, armed, stackVars,
                   taskVars, reported>>

----------------------------------------------------------------------------
(* The specification *)

ToggleStep(t) ==
    \/ Swap(t) \/ Peek(t) \/ ToggleAudio(t) \/ ToggleVideo(t) \/ Snapshot(t) \/ Report(t)

SetSourceStep(t) ==
    \/ Gate(t) \/ GateWait(t) \/ Recheck(t) \/ SwitchOn(t) \/ LockAudio(t) \/ LockVideo(t)
    \/ Replace(t) \/ Spawn(t) \/ Install(t) \/ Unlock(t) \/ SwitchOff(t) \/ Upgrade(t)

StopStep(t) == StopAudio(t) \/ StopVideo(t) \/ Reset(t)

ConnectStep(t) == Dial(t) \/ Dialed(t) \/ StoreConnected(t)

StreamerEndStep(t) == EndOnce(t) \/ EndAudio(t) \/ EndVideo(t)

\* The steps of a method that is under way.
TaskStep(t) ==
    \/ ToggleStep(t) \/ SetSourceStep(t) \/ StopStep(t) \/ ConnectStep(t) \/ StreamerEndStep(t)

\* A caller invokes a method.
Invoke(t) ==
    \/ BeginToggle(t) \/ BeginSetSource(t) \/ BeginStop(t) \/ BeginConnect(t)
    \/ BeginStreamerEnd(t)

StackStep == Handshake \/ WorkerExit \/ StackClose \/ StoreClosed

StreamerStep == \E s \in live \cup ending : PacingEnds(s) \/ EndReported(s)

Next == (\E t \in Tasks : Invoke(t) \/ TaskStep(t)) \/ StackStep \/ StreamerStep

Spec == Init /\ [][Next]_vars

\* A spawned task is polled until it is done, and the mutexes are parking_lot's,
\* which hand over to a waiter eventually.  Nobody is obliged to invoke a method.
Fairness ==
    /\ \A t \in Tasks : SF_vars(TaskStep(t))
    /\ WF_vars(StackClose \/ StoreClosed)

FairSpec == Spec /\ Fairness

----------------------------------------------------------------------------
(* Properties *)

FlagsOK ==
    /\ closed \in BOOLEAN /\ switching \in BOOLEAN /\ connect_called \in BOOLEAN
    /\ paused \in BOOLEAN /\ muted \in BOOLEAN /\ ended_once \in BOOLEAN

StackOK ==
    /\ net_state \in ConnStates /\ stack_state \in ConnStates
    /\ keyed \in BOOLEAN /\ worker \in BOOLEAN /\ transport_closed \in BOOLEAN
    /\ closing \in {"no", "spawned", "closed", "done"}

LocksOK ==
    /\ holder \in [Kinds -> Tasks \cup {NoTask}]
    /\ slot \in [Kinds -> Nat]
    /\ gen \in Nat

StreamersOK ==
    /\ live \subseteq Streamers /\ running \subseteq Streamers /\ held \subseteq Streamers
    /\ armed \subseteq Streamers /\ ending \subseteq Streamers /\ fired \subseteq Streamers

TasksOK ==
    /\ pc \in [Tasks -> PCs]
    /\ op \in [Tasks -> OpNames \cup {"none"}]
    /\ want \in [Tasks -> SUBSET Kinds]
    /\ snap \in [Tasks -> MediaStates] /\ reported \in MediaStates

Types == FlagsOK /\ StackOK /\ LocksOK /\ StreamersOK /\ TasksOK

CallbacksOK == armed \subseteq running /\ armed \cap ending = {}

\* Every variable has its type; a callback is only ever registered with a streamer
\* that was not stopped, and is never both registered and under way (Streamer::stop
\* drops the callback, the pacing task takes it before it calls it).
TypeOK == Types /\ CallbacksOK

\* A streamer that still runs can be reached: it is in its slot, or it is the one
\* that set_source has constructed and is about to install.  A running streamer
\* outside the slots could never be paused or stopped again and would go on sending
\* under the call's SSRC next to its successor (set_source's take and stop).
NoOrphanStreamer ==
    \A s \in running :
        \/ slot[s[1]] = s[2]
        \/ \E t \in Tasks : pc[t] = "install" /\ s = <<NextLeg(t), gen>>

\* The strengthening that makes the two above inductive: who owns the mutexes while a
\* source is replaced, that generations are never reused, and that what is being
\* constructed is new, runs and has no callback yet.
LockDiscipline ==
    \A t \in Tasks :
        /\ pc[t] \in {"lock_video", "replace", "build", "install"} => holder["audio"] = t
        /\ pc[t] \in {"replace", "build", "install"} => holder["video"] = t
        /\ pc[t] = "end_video" => holder[EndFirst] = t

Numbering == \A s \in live \cup running \cup armed \cup ending : 0 < s[2] /\ s[2] <= gen

Construction ==
    \A t \in Tasks :
        /\ pc[t] \in {"build", "install"} =>
            /\ 0 < gen
            /\ \A k \in Pending(t) :
                   /\ <<k, gen>> \notin armed \cup ending
                   /\ <<k, gen>> \in live => pc[t] = "install" /\ k = NextLeg(t)
        /\ pc[t] = "install" => Pending(t) # {} /\ <<NextLeg(t), gen>> \in running

\* The inductive invariant.
IInv ==
    TypeOK /\ LockDiscipline /\ Numbering /\ Construction /\ NoOrphanStreamer

\* Once a streamer was stopped while its callback had not been taken, its end is
\* never reported: "Manual Stop / SetSource don't fire" (Streamer::stop drops on_end
\* before it lets the pacing task go).
NoEndAfterStop == [][ending' \ ending \subseteq running]_vars

\* A source of two legs reports one end, the audio's (set_source registers the
\* video's callback only when there is no audio).
OneEndPerSource ==
    \A g \in 1 .. gen : ~({<<"audio", g>>, <<"video", g>>} \subseteq ending \cup fired)

Life == INSTANCE StreamerLife

\* What the call does to its streamers is what a streamer allows: it registers a callback
\* only before it gives the streamer up, and a stop takes both the streamer and its
\* callback away at once (set_source, stop and handle_streamer_end against pacing tasks).
ImplementsLife == Life!Spec

Net == INSTANCE StackLife WITH
           state <- stack_state, closed <- transport_closed

\* The stack the call waits for is the stack that Transport makes: the call relies on
\* nothing else of it (the gate of set_source, connect, the close that stop spawns).
ImplementsStack == Net!Spec

\* No source is ever installed on a call that never was connected (the gate at the
\* top of set_source).
GateHolds == gen > 0 => keyed \/ transport_closed

\* The strengthening that makes GateHolds inductive: whoever is past the gate, or told that
\* the stack is connected, got there after the handshake.
PastGate(t) ==
    \/ pc[t] \in {"connected_cb", "connected_store", "switch", "lock_audio", "lock_video", "replace"}
    \/ op[t] = "set_source" /\ pc[t] \notin {"gate", "wait", "recheck"}

GateInv ==
    \/ keyed \/ transport_closed
    \/ /\ gen = 0
       /\ "Connected" \notin {stack_state, net_state}
       /\ \A t \in Tasks : ~PastGate(t)

\* No toggle is between its swap and its last leg.
TogglesSettled == \A t \in Tasks : op[t] \in Toggles => pc[t] \in {"swap", "snap", "report"}

ShouldBeHeld(k) == IF k = "audio" THEN muted \/ paused ELSE paused

\* On an open call on which no toggle is under way an installed leg is held exactly
\* when a flag it obeys is set: audio obeys mute and pause, video obeys pause.
LegsObeyFlags ==
    ~closed /\ TogglesSettled =>
        \A k \in Kinds : slot[k] # NoStreamer => (<<k, slot[k]>> \in held <=> ShouldBeHeld(k))

\* When all methods have returned on an open call, the client's last on_upgrade told
\* the caller the flags as they are.
ReportedIsCurrent ==
    ~closed /\ (\A t \in Tasks : op[t] \notin Toggles) =>
        /\ reported.muted = muted
        /\ reported.paused = (muted \/ paused)

AllReturned == \A t \in Tasks : pc[t] = "idle"

\* After stop, and once every method has returned, no streamer is left running.
StopLeavesNothing == closed /\ AllReturned => running \cap live = {}

\* Every method returns: no two of them ever wait for each other's mutex.
MethodsReturn == \A t \in Tasks : pc[t] # "idle" ~> pc[t] = "idle"

=============================================================================
