----------------------------- MODULE Transport -----------------------------
(***************************************************************************)
(* The transport of one call (wrtc/native/direct_transport.rs) and the     *)
(* Stack around it (wrtc/native/stack.rs): connects, the worker task each  *)
(* of them spawns, the DTLS handshake, and close, all at once.             *)
(*                                                                         *)
(* Every connect that gets as far as a socket has a number, its dial; the  *)
(* socket, the remote address, the worker and the keys of a dial are known *)
(* by that number.  The flags are separate atomics and the holders of      *)
(* socket, address and SRTP contexts separate mutexes, so connect and      *)
(* close are cut at each of them.  What the worker answers on the wire,    *)
(* and the packets it counts, change none of this and are left out.        *)
(***************************************************************************)
EXTENDS Naturals, FiniteSets

CONSTANTS Callers,   \* the tasks that may call connect
          MaxDials   \* bound: how many connects get as far as a socket

ASSUME TransportAssumption == MaxDials \in Nat /\ IsFiniteSet(Callers)

Dials == 1 .. MaxDials
None == 0

VARIABLES
    closed, state,      \* the two atomics
    keys, dkeys,        \* srtp_context and decrypt_srtp_context: whose they are
    socket, remote,     \* udp_socket and remote_addr: whose they are
    dials,              \* dials so far
    worker,             \* where each dial's worker is
    shaken,             \* dials whose handshake completed
    pc, mine, result,   \* the callers of connect
    notified,           \* callers that connected_notify woke
    closing,            \* where close is
    net_state           \* what the stack's callback reported last

wireVars == <<keys, dkeys, socket, remote>>
workerVars == <<dials, worker, shaken>>
callerVars == <<pc, mine, result, notified>>
vars == <<closed, state, wireVars, workerVars, callerVars, closing, net_state>>

Init ==
    /\ closed = FALSE /\ state = "Connecting"
    /\ keys = None /\ dkeys = None /\ socket = None /\ remote = None
    /\ dials = 0 /\ worker = [d \in Dials |-> "none"] /\ shaken = {}
    /\ pc = [c \in Callers |-> "idle"] /\ mine = [c \in Callers |-> None]
    /\ result = [c \in Callers |-> "none"] /\ notified = {}
    /\ closing = "no" /\ net_state = "Connecting"

----------------------------------------------------------------------------
(* connect *)

Goto(c, label) == pc' = [pc EXCEPT ![c] = label]

Return(c, r) ==
    /\ Goto(c, "idle")
    /\ result' = [result EXCEPT ![c] = r]
    /\ mine' = [mine EXCEPT ![c] = None]
    /\ notified' = notified \ {c}

BeginConnect(c) ==
    /\ pc[c] = "idle"
    /\ dials + Cardinality({b \in Callers : pc[b] # "idle" /\ mine[b] = None}) < MaxDials
    /\ IF closed THEN Return(c, "err") ELSE Goto(c, "announce") /\ UNCHANGED <<mine, result, notified>>
    /\ UNCHANGED <<closed, state, wireVars, workerVars, closing, net_state>>

Announce(c) ==
    /\ pc[c] = "announce"
    /\ state' = "Connecting"
    /\ Goto(c, "parse")
    /\ UNCHANGED <<closed, wireVars, workerVars, mine, result, notified, closing, net_state>>

\* Malformed JSON, no fingerprint, no usable UDP candidate, no socket; or, with the socket
\* and the address in place, no DTLS configuration and no binding request.
Reject(c) ==
    /\ pc[c] \in {"parse", "spawn"}
    /\ Return(c, "err")
    /\ UNCHANGED <<closed, state, wireVars, workerVars, closing, net_state>>

Bind(c) ==
    /\ pc[c] = "parse"
    /\ dials' = dials + 1
    /\ mine' = [mine EXCEPT ![c] = dials']
    /\ socket' = dials'
    /\ Goto(c, "address")
    /\ UNCHANGED <<closed, state, keys, dkeys, remote, worker, shaken, result, notified, closing, net_state>>

Aim(c) ==
    /\ pc[c] = "address"
    /\ remote' = mine[c]
    /\ Goto(c, "spawn")
    /\ UNCHANGED <<closed, state, keys, dkeys, socket, workerVars, mine, result, notified, closing, net_state>>

SpawnWorker(c) ==
    /\ pc[c] = "spawn"
    /\ worker' = [worker EXCEPT ![mine[c]] = "top"]
    /\ Goto(c, "check")
    /\ UNCHANGED <<closed, state, wireVars, dials, shaken, mine, result, notified, closing, net_state>>

Check(c) ==
    /\ pc[c] = "check"
    /\ Goto(c, IF state = "Connected" THEN "callback" ELSE "wait")
    /\ UNCHANGED <<closed, state, wireVars, workerVars, mine, result, notified, closing, net_state>>

\* The three branches of the select: woken, polled every 5 ms, or 10 s over.
AnswerOk(c) ==
    /\ pc[c] = "wait"
    /\ c \in notified \/ state = "Connected"
    /\ Goto(c, "callback")
    /\ UNCHANGED <<closed, state, wireVars, workerVars, mine, result, notified, closing, net_state>>

GiveUp(c) ==
    /\ pc[c] = "wait"
    /\ state # "Connected"
    /\ Return(c, "err")
    /\ UNCHANGED <<closed, state, wireVars, workerVars, closing, net_state>>

\* Stack::connect tells its owner.
Callback(c) ==
    /\ pc[c] = "callback"
    /\ net_state' = "Connected"
    /\ Return(c, "ok")
    /\ UNCHANGED <<closed, state, wireVars, workerVars, closing>>

----------------------------------------------------------------------------
(* The worker of dial d *)

\* (seeded fault) the loop never looks at the flag.
KeepsOn(d) == TRUE

GoesOn(d) == ~closed

\* The head of the loop: the flag is read here, and nowhere else.
LoopHead(d) ==
    /\ worker[d] = "top"
    /\ worker' = [worker EXCEPT ![d] = IF GoesOn(d) THEN "select" ELSE "exited"]
    /\ UNCHANGED <<closed, state, wireVars, dials, shaken, callerVars, closing, net_state>>

\* A timer fires, or a datagram is handled that does not end the handshake.
Turn(d) ==
    /\ worker[d] = "select"
    /\ worker' = [worker EXCEPT ![d] = "top"]
    /\ UNCHANGED <<closed, state, wireVars, dials, shaken, callerVars, closing, net_state>>

\* (seeded faults) the keys of a later handshake replace the first; only one direction is
\* installed; the state is set without keys.
InstallAlways(d) ==
    /\ keys' = d /\ dkeys' = d /\ state' = "Connected"
    /\ notified' = notified \cup {c \in Callers : pc[c] = "wait"}

InstallSendOnly(d) ==
    /\ keys = None
    /\ keys' = d /\ UNCHANGED dkeys /\ state' = "Connected"
    /\ notified' = notified \cup {c \in Callers : pc[c] = "wait"}

InstallStateOnly(d) ==
    /\ keys = None
    /\ UNCHANGED <<keys, dkeys>> /\ state' = "Connected"
    /\ notified' = notified \cup {c \in Callers : pc[c] = "wait"}

\* (seeded fault) the wake-up is kept for those who come later.
InstallWakesAll(d) ==
    /\ keys = None
    /\ keys' = d /\ dkeys' = d /\ state' = "Connected"
    /\ notified' = Callers

\* Under both context mutexes: only the first keys are installed, with the state and the
\* wake-up of everyone who waits.
Install(d) ==
    /\ keys = None
    /\ keys' = d
    /\ dkeys' = d
    /\ state' = "Connected"
    /\ notified' = notified \cup {c \in Callers : pc[c] = "wait"}

\* HandshakeComplete.  When the keys cannot be derived, or are there already, nothing is
\* installed.
Handshake(d) ==
    /\ worker[d] = "select"
    /\ d \notin shaken
    /\ shaken' = shaken \cup {d}
    /\ worker' = [worker EXCEPT ![d] = "top"]
    /\ \/ Install(d)
       \/ UNCHANGED <<keys, dkeys, state, notified>>
    /\ UNCHANGED <<closed, socket, remote, dials, pc, mine, result, closing, net_state>>

----------------------------------------------------------------------------
(* close, which the call's stop spawns once *)

CloseStep(from, to) ==
    /\ closing = from
    /\ closing' = to
    /\ UNCHANGED <<workerVars, callerVars>>

BeginClose == CloseStep("no", "state") /\ closed' = TRUE /\ UNCHANGED <<state, wireVars, net_state>>

CloseState ==
    CloseStep("state", "keys") /\ state' = "Closed" /\ UNCHANGED <<closed, wireVars, net_state>>

CloseKeys ==
    /\ CloseStep("keys", "dkeys")
    /\ keys' = None
    /\ UNCHANGED <<closed, state, dkeys, socket, remote, net_state>>

CloseDecrypt ==
    /\ CloseStep("dkeys", "socket")
    /\ dkeys' = None
    /\ UNCHANGED <<closed, state, keys, socket, remote, net_state>>

CloseSocket ==
    /\ CloseStep("socket", "callback")
    /\ socket' = None
    /\ UNCHANGED <<closed, state, keys, dkeys, remote, net_state>>

CloseCallback ==
    /\ CloseStep("callback", "done")
    /\ net_state' = "Closed"
    /\ UNCHANGED <<closed, state, wireVars>>

----------------------------------------------------------------------------
(* The specification *)

ConnectStep(c) ==
    \/ Announce(c) \/ Reject(c) \/ Bind(c) \/ Aim(c) \/ SpawnWorker(c) \/ Check(c)
    \/ AnswerOk(c) \/ GiveUp(c) \/ Callback(c)

WorkerStep(d) == LoopHead(d) \/ Turn(d) \/ Handshake(d)

CloseOn == CloseState \/ CloseKeys \/ CloseDecrypt \/ CloseSocket \/ CloseCallback

Next ==
    \/ \E c \in Callers : BeginConnect(c) \/ ConnectStep(c)
    \/ \E d \in Dials : WorkerStep(d)
    \/ BeginClose
    \/ CloseOn

Spec == Init /\ [][Next]_vars

\* Tasks are polled until they are done; a worker's select ends with its next timer.
\* Nobody is obliged to connect or to close, and no handshake is obliged to complete.
Fairness ==
    /\ \A c \in Callers : WF_vars(ConnectStep(c))
    /\ \A d \in Dials : WF_vars(LoopHead(d) \/ Turn(d))
    /\ WF_vars(CloseOn)

FairSpec == Spec /\ Fairness

----------------------------------------------------------------------------
(* Properties *)

WireOK ==
    /\ keys \in Dials \cup {None} /\ dkeys \in Dials \cup {None}
    /\ socket \in Dials \cup {None} /\ remote \in Dials \cup {None}

WorkersOK ==
    /\ dials \in 0 .. MaxDials
    /\ worker \in [Dials -> {"none", "top", "select", "exited"}]
    /\ shaken \subseteq Dials

CallersOK ==
    /\ pc \in [Callers -> {"idle", "announce", "parse", "address", "spawn", "check", "wait", "callback"}]
    /\ mine \in [Callers -> Dials \cup {None}]
    /\ result \in [Callers -> {"none", "ok", "err"}]
    /\ notified \subseteq {c \in Callers : pc[c] \in {"wait", "callback"}}
    /\ \A c \in Callers : pc[c] \in {"spawn", "address"} => mine[c] \in Dials

\* Every variable has its type; only who waits for the handshake is woken by it.
TypeOK ==
    /\ closed \in BOOLEAN
    /\ state \in {"Connecting", "Connected", "Closed"}
    /\ net_state \in {"Connecting", "Connected", "Closed"}
    /\ closing \in {"no", "state", "keys", "dkeys", "socket", "callback", "done"}
    /\ WireOK /\ WorkersOK /\ CallersOK

\* While the transport is open both directions are keyed by the same handshake; a Connected
\* transport is keyed, and so is one whose connect answers Ok: set_source goes on as soon as
\* it reads Connected, and everything it sends before there are keys would be dropped without
\* an error (handle_dtls_packet, connect's wait, send_rtp_bytes).
ConnectedMeansKeyed ==
    ~closed =>
        /\ keys = dkeys
        /\ state = "Connected" => keys # None
        /\ \A c \in Callers : pc[c] = "callback" \/ c \in notified => keys # None

\* The keys of an open transport are never replaced: a second handshake would start the
\* packet index of a new context in the middle of the stream (the is_none check).
KeysForKeeps == [][keys # None /\ keys' # keys => closed]_vars

\* Once the transport is closed every worker ends, those included that a connect spawns
\* after the close, and every connect returns.
WorkersEnd ==
    closed ~> (\A d \in Dials : worker[d] \in {"none", "exited"}) /\ (\A c \in Callers : pc[c] = "idle")

Life == INSTANCE StackLife WITH keyed <- keys # None

\* The transport is a stack as the call sees it.
ImplementsStack == Life!Spec

=============================================================================
