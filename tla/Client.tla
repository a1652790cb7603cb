------------------------------- MODULE Client -------------------------------
(***************************************************************************)
(* The client (rusttgcalls.rs): one table from chats to calls, shared by   *)
(* every task that calls the client.  The table is a concurrent map: each  *)
(* of its operations is atomic, and nothing else is.  So create_call looks *)
(* first and inserts later, a method works on the handle it looked up, and *)
(* close walks the table before it clears it.                              *)
(*                                                                         *)
(* A call is its number in the order of construction; all that is kept of  *)
(* it here is whether it is open: constructed and not stopped.  The        *)
(* methods that work on a call and neither open nor stop it (connect,      *)
(* set_stream_sources, pause and the like) leave all of that alone; what   *)
(* they do, also to a call that was stopped after they had looked, is in   *)
(* GroupCall and RtmpCall.                                                 *)
(***************************************************************************)
EXTENDS Naturals, FiniteSets

CONSTANTS Tasks,      \* the async tasks that share the client
          Chats,
          Doings,     \* what each task may invoke
          MaxCalls    \* bound: how many calls are constructed in one behaviour

Methods == {"create_call", "create_rtmp_call", "seek_by", "stop", "close"}
Creates == {"create_call", "create_rtmp_call"}

ASSUME ClientAssumption ==
    /\ Doings \in [Tasks -> SUBSET Methods]
    /\ MaxCalls \in Nat

NoCall == 0
NoChat == 0
Calls == 1 .. MaxCalls

ASSUME ChatAssumption == NoChat \notin Chats

VARIABLES
    calls,      \* the table
    built,      \* how many calls were constructed
    open,       \* calls that were not stopped
    rtmp,       \* calls that are RTMP calls
    pc, doing,  \* where each task is, and in which method
    chat,       \* the chat it was given
    mine,       \* the call it holds a handle of
    todo        \* the chats its close has yet to walk over

callVars == <<built, open, rtmp>>
taskVars == <<pc, doing, chat, mine, todo>>
vars == <<calls, callVars, taskVars>>

Init ==
    /\ calls = [c \in Chats |-> NoCall]
    /\ built = 0 /\ open = {} /\ rtmp = {}
    /\ pc = [t \in Tasks |-> "idle"] /\ doing = [t \in Tasks |-> "none"]
    /\ chat = [t \in Tasks |-> NoChat] /\ mine = [t \in Tasks |-> NoCall]
    /\ todo = [t \in Tasks |-> {}]

----------------------------------------------------------------------------
(* Helpers *)

\* t enters method m with chat c, and goes on at label with call k in its hand.
Enter(t, m, c, k, label) ==
    /\ pc' = [pc EXCEPT ![t] = label]
    /\ doing' = [doing EXCEPT ![t] = m]
    /\ chat' = [chat EXCEPT ![t] = c]
    /\ mine' = [mine EXCEPT ![t] = k]

\* t's method returns, with its result or an error; its locals are gone.
Return(t) ==
    /\ pc' = [pc EXCEPT ![t] = "idle"]
    /\ doing' = [doing EXCEPT ![t] = "none"]
    /\ chat' = [chat EXCEPT ![t] = NoChat]
    /\ mine' = [mine EXCEPT ![t] = NoCall]

\* Call::stop, whatever is inside: the call is closed, and stays so.
StopCall(k) ==
    /\ open' = open \ {k}
    /\ UNCHANGED <<built, rtmp>>

----------------------------------------------------------------------------
(* create_call and create_rtmp_call *)

Creating == {t \in Tasks : pc[t] = "build"}

\* contains_key: ConnectionExists to a create.
Taken(c) == calls[c] # NoCall

BeginCreate(t, m, c) ==
    /\ pc[t] = "idle"
    /\ m \in Doings[t] \cap Creates
    /\ built + Cardinality(Creating) < MaxCalls
    /\ IF Taken(c) THEN Return(t) ELSE Enter(t, m, c, NoCall, "build")
    /\ UNCHANGED <<calls, callVars, todo>>

\* The call is constructed; a WebRTC call may fail at its socket or its parameters.
Build(t) ==
    /\ pc[t] = "build"
    /\ \/ /\ built' = built + 1
          /\ open' = open \cup {built'}
          /\ rtmp' = IF doing[t] = "create_rtmp_call" THEN rtmp \cup {built'} ELSE rtmp
          /\ mine' = [mine EXCEPT ![t] = built']
          /\ pc' = [pc EXCEPT ![t] = "insert"]
          /\ UNCHANGED <<doing, chat>>
       \/ /\ doing[t] = "create_call"
          /\ Return(t)
          /\ UNCHANGED <<built, open, rtmp>>
    /\ UNCHANGED <<calls, todo>>

\* A call that was inserted meanwhile is dropped from the table as it is.
Insert(t) ==
    /\ pc[t] = "insert"
    /\ calls' = [calls EXCEPT ![chat[t]] = mine[t]]
    /\ Return(t)
    /\ UNCHANGED <<callVars, todo>>

----------------------------------------------------------------------------
(* seek_by: a seek of an RTMP call to before its beginning stops it from the *)
(* inside, and leaves it in the table                                        *)

BeginSeek(t, c) ==
    /\ pc[t] = "idle"
    /\ "seek_by" \in Doings[t]
    /\ IF Taken(c) THEN Enter(t, "seek_by", c, calls[c], "look") ELSE Return(t)
    /\ UNCHANGED <<calls, callVars, todo>>

\* The closed check; a WebRTC call does not seek at all.
Look(t) ==
    /\ pc[t] = "look"
    /\ IF mine[t] \in open \cap rtmp
       THEN pc' = [pc EXCEPT ![t] = "seek"] /\ UNCHANGED <<doing, chat, mine>>
       ELSE Return(t)
    /\ UNCHANGED <<calls, callVars, todo>>

\* By now another task may have stopped the call.
Seek(t) ==
    /\ pc[t] = "seek"
    /\ StopCall(mine[t]) \/ UNCHANGED callVars
    /\ Return(t)
    /\ UNCHANGED <<calls, todo>>

----------------------------------------------------------------------------
(* stop and close *)

TakeOut(c) == calls' = [calls EXCEPT ![c] = NoCall]

BeginStop(t, c) ==
    /\ pc[t] = "idle"
    /\ "stop" \in Doings[t]
    /\ IF Taken(c)
       THEN TakeOut(c) /\ Enter(t, "stop", c, calls[c], "stop")
       ELSE Return(t) /\ UNCHANGED calls
    /\ UNCHANGED <<callVars, todo>>

Stop(t) ==
    /\ pc[t] = "stop"
    /\ StopCall(mine[t])
    /\ Return(t)
    /\ UNCHANGED <<calls, todo>>

BeginClose(t) ==
    /\ pc[t] = "idle"
    /\ "close" \in Doings[t]
    /\ Enter(t, "close", NoChat, NoCall, "walk")
    /\ todo' = [todo EXCEPT ![t] = Chats]
    /\ UNCHANGED <<calls, callVars>>

\* (seeded fault) the walk is over before its last entry.
WalkedEnough(t) == Cardinality(todo[t]) <= 1

Walked(t) == todo[t] = {}

\* The next entry of the iteration is stopped where it is.
Walk(t) ==
    /\ pc[t] = "walk"
    /\ ~Walked(t)
    /\ \E c \in todo[t] :
           /\ todo' = [todo EXCEPT ![t] = @ \ {c}]
           /\ StopCall(calls[c])
    /\ UNCHANGED <<calls, pc, doing, chat, mine>>

EndWalk(t) ==
    /\ pc[t] = "walk"
    /\ Walked(t)
    /\ pc' = [pc EXCEPT ![t] = "clear"]
    /\ todo' = [todo EXCEPT ![t] = Chats]
    /\ UNCHANGED <<calls, callVars, doing, chat, mine>>

\* clear removes one entry after the other.
Clear(t) ==
    /\ pc[t] = "clear"
    /\ \/ /\ \E c \in todo[t] : TakeOut(c) /\ todo' = [todo EXCEPT ![t] = @ \ {c}]
          /\ UNCHANGED <<pc, doing, chat, mine>>
       \/ /\ todo[t] = {}
          /\ Return(t)
          /\ UNCHANGED <<calls, todo>>
    /\ UNCHANGED callVars

----------------------------------------------------------------------------
(* The specification *)

TaskStep(t) ==
    \/ Build(t) \/ Insert(t) \/ Look(t) \/ Seek(t) \/ Stop(t) \/ Walk(t) \/ EndWalk(t) \/ Clear(t)

Invoke(t) ==
    \/ BeginClose(t)
    \/ \E c \in Chats : BeginStop(t, c) \/ BeginSeek(t, c) \/ \E m \in Creates : BeginCreate(t, m, c)

Next == \E t \in Tasks : Invoke(t) \/ TaskStep(t)

Spec == Init /\ [][Next]_vars

----------------------------------------------------------------------------
(* Properties *)

\* Every variable has its type; a call under a chat or in a hand was constructed, and a handle
\* goes with a chat.
TypeOK ==
    /\ calls \in [Chats -> 0 .. built]
    /\ built \in 0 .. MaxCalls
    /\ open \subseteq 1 .. built /\ rtmp \subseteq 1 .. built
    /\ pc \in [Tasks -> {"idle", "build", "insert", "look", "seek", "stop", "walk", "clear"}]
    /\ doing \in [Tasks -> Methods \cup {"none"}]
    /\ chat \in [Tasks -> Chats \cup {NoChat}]
    /\ mine \in [Tasks -> 0 .. built]
    /\ todo \in [Tasks -> SUBSET Chats]
    /\ \A t \in Tasks : mine[t] # NoCall => chat[t] \in Chats

InTable == {calls[c] : c \in Chats} \ {NoCall}

Held == {mine[t] : t \in {u \in Tasks : pc[u] \in {"insert", "stop"}}}

\* A call that is open can be stopped: it is in the table, or a task is about to put it
\* there or to stop it.  One that is open and out of the table goes on sending until the
\* process ends (create_call against create_call, create_call against close).
OpenIsReachable == open \subseteq InTable \cup Held

\* The calls that were constructed for chat c: those about to be inserted, and the one in
\* the table.
CallsFor(c) ==
    ({calls[c]} \ {NoCall}) \cup {mine[t] : t \in {u \in Tasks : pc[u] = "insert" /\ chat[u] = c}}

\* Concurrent creates for one chat are deduplicated: the first wins, and the others are
\* told that the call exists and construct none (create_call's check).
Deduplicated == \A c \in Chats : Cardinality(CallsFor(c)) <= 1

\* A chat whose call was stopped can be used again at once: what is in the table is open,
\* unless a close is under way or the call was stopped from the inside (Client::stop takes
\* the call out before it stops it; seek_by does not).
TableIsOpen ==
    \A c \in Chats :
        calls[c] \in open \cup rtmp \cup {NoCall} \/ \E t \in Tasks : pc[t] \in {"walk", "clear"}

\* The table and the open calls agree, under creates, stops, seeks and a close that race:
\* every open call can still be stopped, and no chat is taken by a WebRTC call that is not.
TableMatchesCalls == TypeOK /\ OpenIsReachable /\ TableIsOpen

=============================================================================
