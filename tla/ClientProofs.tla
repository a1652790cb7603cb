---------------------------- MODULE ClientProofs ----------------------------
(***************************************************************************)
(* Proofs about Client, for every set of tasks and chats: what holds of a  *)
(* client whose calls are created, and which is closed, by one task.       *)
(***************************************************************************)
EXTENDS Client, FiniteSetTheorems, TLAPS

\* What b does is for b alone: the others may stop calls and seek in them.
OnlyCreator(b) == b \in Tasks /\ \A u \in Tasks \ {b} : Doings[u] \cap (Creates \cup {"close"}) = {}

Roles(b) == \A t \in Tasks : pc[t] \in {"build", "insert", "walk", "clear"} => t = b

\* The chat that a call is built for is still free when the call is inserted.
Building ==
    \A t \in Tasks :
        /\ pc[t] \in {"build", "insert"} => chat[t] \in Chats /\ calls[chat[t]] = NoCall
        /\ pc[t] = "build" => built < MaxCalls

\* A call that was just built is open and known to its creator only.
FreshCall ==
    \A t \in Tasks : pc[t] = "insert" =>
        /\ mine[t] \in open
        /\ \A u \in Tasks \ {t} : mine[u] # mine[t]
        /\ \A c \in Chats : calls[c] # mine[t]

\* A call is under one chat, or taken out and about to be stopped.
OneEntry ==
    /\ \A c, d \in Chats : calls[c] = calls[d] /\ calls[c] # NoCall => c = d
    /\ \A t \in Tasks : pc[t] = "stop" => mine[t] # NoCall /\ \A c \in Chats : calls[c] # mine[t]

\* Nothing is open behind the walk, and nothing is left behind the clear.
Emptied ==
    \A t \in Tasks :
        /\ pc[t] = "walk" => \A c \in Chats \ todo[t] : calls[c] \notin open
        /\ pc[t] = "clear" =>
               /\ \A c \in Chats : calls[c] \notin open
               /\ \A c \in Chats \ todo[t] : calls[c] = NoCall

\* Only an RTMP call is stopped by a seek.
Seeking == \A t \in Tasks : pc[t] = "seek" => mine[t] \in rtmp

\* OpenIsReachable, call by call.
Reachable ==
    \A k \in open :
        \/ \E c \in Chats : calls[c] = k
        \/ \E t \in Tasks : pc[t] \in {"insert", "stop"} /\ mine[t] = k

\* The invariant that is inductive.
IInv(b) ==
    /\ TypeOK /\ Roles(b) /\ Building /\ FreshCall /\ OneEntry /\ Emptied /\ Seeking
    /\ Reachable /\ TableIsOpen

----------------------------------------------------------------------------
(* One step of one task *)

\* A call that is stopped leaves the types as they are.
LEMMA StopTypes ==
    ASSUME TypeOK, NEW k, StopCall(k)
    PROVE  open' \subseteq 1 .. built /\ built' = built /\ rtmp' = rtmp
  BY DEF TypeOK, StopCall

LEMMA StepKeeps ==
    ASSUME NEW b, OnlyCreator(b), IInv(b), NEW t \in Tasks, Invoke(t) \/ TaskStep(t)
    PROVE  IInv(b)'
  <1> USE ClientAssumption, ChatAssumption DEF IInv, OnlyCreator, NoCall, NoChat, Creates, Methods
  <1>1. CASE Build(t)
    <2>1. TypeOK'
      <3>1. CASE built' = built + 1
        <4>1. built \in Nat /\ built' \in 0 .. MaxCalls
          BY <1>1, <3>1 DEF Build, Building, TypeOK
        <4>2. 0 .. built \subseteq 0 .. built' /\ 1 .. built \subseteq 1 .. built' /\ built' \in 1 .. built'
          BY <3>1, <4>1
        <4>3. calls' \in [Chats -> 0 .. built'] /\ mine' \in [Tasks -> 0 .. built']
          <5>1. calls' = calls /\ mine' = [mine EXCEPT ![t] = built']
            BY <1>1, <3>1, <4>1 DEF Build, TypeOK
          <5>2. built' \in 0 .. built'
            BY <4>2
          <5> QED
            BY <4>2, <5>1, <5>2 DEF TypeOK
        <4>5. open' \subseteq 1 .. built' /\ rtmp' \subseteq 1 .. built'
          <5>1. open' = open \cup {built'} /\ rtmp' \subseteq rtmp \cup {built'}
            BY <1>1, <3>1, <4>1 DEF Build, TypeOK
          <5> QED
            BY <4>2, <5>1 DEF TypeOK
        <4>4. \A u \in Tasks : mine'[u] # NoCall => chat'[u] \in Chats
          BY <1>1, <3>1 DEF Build, Return, Building, TypeOK
        <4> QED
          BY <1>1, <3>1, <4>1, <4>3, <4>4, <4>5 DEF Build, TypeOK
      <3>2. CASE Return(t) /\ UNCHANGED <<built, open, rtmp, calls, todo>>
        BY <3>2 DEF Return, TypeOK
      <3> QED
        BY <1>1, <3>1, <3>2 DEF Build
    <2>2. Roles(b)'
      BY <1>1 DEF TypeOK, Roles, Build, Return, callVars
    <2>3. Building'
      BY <1>1 DEF TypeOK, Roles, Building, Build, Return, callVars
    <2>4. FreshCall'
      BY <1>1 DEF TypeOK, Roles, Building, FreshCall, Build, Return, callVars
    <2>5. OneEntry'
      BY <1>1 DEF TypeOK, OneEntry, FreshCall, Building, Build, Return, callVars
    <2>6. Emptied'
      BY <1>1 DEF TypeOK, Roles, Emptied, Build, Return, callVars
    <2>7. Reachable'
      <3>1. \A u \in Tasks \ {t} : pc'[u] = pc[u] /\ mine'[u] = mine[u]
        BY <1>1 DEF Build, Return, TypeOK
      <3>2. pc[t] = "build" /\ calls' = calls
        BY <1>1 DEF Build
      <3>3. \/ open' = open
            \/ open' = open \cup {built'} /\ pc'[t] = "insert" /\ mine'[t] = built'
        BY <1>1 DEF Build, TypeOK
      <3> QED
        BY <3>1, <3>2, <3>3 DEF Reachable
    <2>8. TableIsOpen'
      BY <1>1 DEF TypeOK, Roles, TableIsOpen, FreshCall, OneEntry, Emptied, Build, Return, callVars
    <2>9. Seeking'
      BY <1>1 DEF TypeOK, Seeking, Build, Return, callVars
    <2> QED
      BY <2>1, <2>2, <2>3, <2>4, <2>5, <2>6, <2>7, <2>8, <2>9
  <1>2. CASE Insert(t)
    <2>1. TypeOK'
      BY <1>2 DEF TypeOK, Building, Insert, Return, callVars
    <2>2. Roles(b)'
      BY <1>2 DEF TypeOK, Roles, Insert, Return, callVars
    <2>3. Building'
      BY <1>2 DEF TypeOK, Roles, Building, Insert, Return, callVars
    <2>4. FreshCall'
      BY <1>2 DEF TypeOK, Roles, Building, FreshCall, Insert, Return, callVars
    <2>5. OneEntry'
      BY <1>2 DEF TypeOK, OneEntry, FreshCall, Building, Insert, Return, callVars
    <2>6. Emptied'
      BY <1>2 DEF TypeOK, Roles, Emptied, Insert, Return, callVars
    <2>7. Reachable'
      BY <1>2 DEF TypeOK, Reachable, Building, Emptied, Insert, Return, callVars
    <2>8. TableIsOpen'
      BY <1>2 DEF TypeOK, Roles, TableIsOpen, FreshCall, OneEntry, Emptied, Insert, Return, callVars
    <2>9. Seeking'
      BY <1>2 DEF TypeOK, Seeking, Insert, Return, callVars
    <2> QED
      BY <2>1, <2>2, <2>3, <2>4, <2>5, <2>6, <2>7, <2>8, <2>9
  <1>3. CASE Look(t)
    <2>1. TypeOK'
      BY <1>3 DEF TypeOK, Look, Return, callVars
    <2>2. Roles(b)'
      BY <1>3 DEF TypeOK, Roles, Look, Return, callVars
    <2>3. Building'
      BY <1>3 DEF TypeOK, Roles, Building, Look, Return, callVars
    <2>4. FreshCall'
      BY <1>3 DEF TypeOK, Roles, Building, FreshCall, Look, Return, callVars
    <2>5. OneEntry'
      BY <1>3 DEF TypeOK, OneEntry, FreshCall, Building, Look, Return, callVars
    <2>6. Emptied'
      BY <1>3 DEF TypeOK, Roles, Emptied, Look, Return, callVars
    <2>7. Reachable'
      BY <1>3 DEF TypeOK, Reachable, Building, Emptied, Look, Return, callVars
    <2>8. TableIsOpen'
      BY <1>3 DEF TypeOK, Roles, TableIsOpen, FreshCall, OneEntry, Emptied, Look, Return, callVars
    <2>9. Seeking'
      BY <1>3 DEF TypeOK, Seeking, Look, Return, callVars
    <2> QED
      BY <2>1, <2>2, <2>3, <2>4, <2>5, <2>6, <2>7, <2>8, <2>9
  <1>4. CASE Stop(t)
    <2>1. TypeOK'
      <3>1. open' \subseteq 1 .. built /\ built' = built /\ rtmp' = rtmp
        BY <1>4, StopTypes DEF Stop
      <3>2. Return(t) /\ UNCHANGED <<calls, todo>>
        BY <1>4 DEF Stop
      <3> QED
        BY <3>1, <3>2 DEF Return, TypeOK
    <2>2. Roles(b)'
      BY <1>4 DEF TypeOK, Roles, Stop, StopCall, Return
    <2>3. Building'
      BY <1>4 DEF TypeOK, Roles, Building, Stop, StopCall, Return
    <2>4. FreshCall'
      BY <1>4 DEF TypeOK, Roles, Building, FreshCall, Stop, StopCall, Return
    <2>5. OneEntry'
      BY <1>4 DEF TypeOK, OneEntry, FreshCall, Building, Stop, StopCall, Return
    <2>6. Emptied'
      BY <1>4 DEF TypeOK, Roles, Emptied, Stop, StopCall, Return
    <2>7. Reachable'
      BY <1>4 DEF TypeOK, Reachable, Building, Emptied, Stop, StopCall, Return
    <2>8. TableIsOpen'
      BY <1>4 DEF TypeOK, Roles, TableIsOpen, FreshCall, OneEntry, Emptied, Stop, StopCall, Return
    <2>9. Seeking'
      BY <1>4 DEF TypeOK, Seeking, Stop, StopCall, Return
    <2> QED
      BY <2>1, <2>2, <2>3, <2>4, <2>5, <2>6, <2>7, <2>8, <2>9
  <1>5. CASE Walk(t)
    <2>1. TypeOK'
      <3>1. open' \subseteq 1 .. built /\ built' = built /\ rtmp' = rtmp
        BY <1>5, StopTypes DEF Walk
      <3>2. UNCHANGED <<calls, pc, doing, chat, mine>> /\ todo' \in [Tasks -> SUBSET Chats]
        BY <1>5 DEF Walk, TypeOK
      <3> QED
        BY <3>1, <3>2 DEF TypeOK
    <2>2. Roles(b)'
      BY <1>5 DEF TypeOK, Roles, Walk, Walked, StopCall
    <2>3. Building'
      BY <1>5 DEF TypeOK, Roles, Building, Walk, Walked, StopCall
    <2>4. FreshCall'
      BY <1>5 DEF TypeOK, Roles, Building, FreshCall, Walk, Walked, StopCall
    <2>5. OneEntry'
      BY <1>5 DEF TypeOK, OneEntry, FreshCall, Building, Walk, Walked, StopCall
    <2>6. Emptied'
      BY <1>5 DEF TypeOK, Roles, Emptied, Walk, Walked, StopCall
    <2>7. Reachable'
      BY <1>5 DEF TypeOK, Reachable, Building, Emptied, Walk, Walked, StopCall
    <2>8. TableIsOpen'
      BY <1>5 DEF TypeOK, Roles, TableIsOpen, FreshCall, OneEntry, Emptied, Walk, Walked, StopCall
    <2>9. Seeking'
      BY <1>5 DEF TypeOK, Seeking, Walk, Walked, StopCall
    <2> QED
      BY <2>1, <2>2, <2>3, <2>4, <2>5, <2>6, <2>7, <2>8, <2>9
  <1>6. CASE EndWalk(t)
    <2>1. TypeOK'
      BY <1>6 DEF TypeOK, EndWalk, Walked, callVars
    <2>2. Roles(b)'
      BY <1>6 DEF TypeOK, Roles, EndWalk, Walked, callVars
    <2>3. Building'
      BY <1>6 DEF TypeOK, Roles, Building, EndWalk, Walked, callVars
    <2>4. FreshCall'
      BY <1>6 DEF TypeOK, Roles, Building, FreshCall, EndWalk, Walked, callVars
    <2>5. OneEntry'
      BY <1>6 DEF TypeOK, OneEntry, FreshCall, Building, EndWalk, Walked, callVars
    <2>6. Emptied'
      BY <1>6 DEF TypeOK, Roles, Emptied, EndWalk, Walked, callVars
    <2>7. Reachable'
      BY <1>6 DEF TypeOK, Reachable, Building, Emptied, EndWalk, Walked, callVars
    <2>8. TableIsOpen'
      BY <1>6 DEF TypeOK, Roles, TableIsOpen, FreshCall, OneEntry, Emptied, EndWalk, Walked, callVars
    <2>9. Seeking'
      BY <1>6 DEF TypeOK, Seeking, EndWalk, Walked, callVars
    <2> QED
      BY <2>1, <2>2, <2>3, <2>4, <2>5, <2>6, <2>7, <2>8, <2>9
  <1>7. CASE Clear(t)
    <2>1. TypeOK'
      BY <1>7 DEF TypeOK, Clear, TakeOut, Return, callVars
    <2>2. Roles(b)'
      BY <1>7 DEF TypeOK, Roles, Clear, TakeOut, Return, callVars
    <2>3. Building'
      BY <1>7 DEF TypeOK, Roles, Building, Clear, TakeOut, Return, callVars
    <2>4. FreshCall'
      BY <1>7 DEF TypeOK, Roles, Building, FreshCall, Clear, TakeOut, Return, callVars
    <2>5. OneEntry'
      BY <1>7 DEF TypeOK, OneEntry, FreshCall, Building, Clear, TakeOut, Return, callVars
    <2>6. Emptied'
      BY <1>7 DEF TypeOK, Roles, Emptied, Clear, TakeOut, Return, callVars
    <2>7. Reachable'
      BY <1>7 DEF TypeOK, Reachable, Building, Emptied, Clear, TakeOut, Return, callVars
    <2>8. TableIsOpen'
      BY <1>7 DEF TypeOK, Roles, TableIsOpen, FreshCall, OneEntry, Emptied, Clear, TakeOut, Return, callVars
    <2>9. Seeking'
      BY <1>7 DEF TypeOK, Seeking, Clear, TakeOut, Return, callVars
    <2> QED
      BY <2>1, <2>2, <2>3, <2>4, <2>5, <2>6, <2>7, <2>8, <2>9
  <1>8. CASE BeginClose(t)
    <2>1. TypeOK'
      BY <1>8 DEF TypeOK, BeginClose, Enter, callVars
    <2>2. Roles(b)'
      BY <1>8 DEF TypeOK, Roles, BeginClose, Enter, callVars
    <2>3. Building'
      BY <1>8 DEF TypeOK, Roles, Building, BeginClose, Enter, callVars
    <2>4. FreshCall'
      BY <1>8 DEF TypeOK, Roles, Building, FreshCall, BeginClose, Enter, callVars
    <2>5. OneEntry'
      BY <1>8 DEF TypeOK, OneEntry, FreshCall, Building, BeginClose, Enter, callVars
    <2>6. Emptied'
      BY <1>8 DEF TypeOK, Roles, Emptied, BeginClose, Enter, callVars
    <2>7. Reachable'
      BY <1>8 DEF TypeOK, Reachable, Building, Emptied, BeginClose, Enter, callVars
    <2>8. TableIsOpen'
      BY <1>8 DEF TypeOK, Roles, TableIsOpen, FreshCall, OneEntry, Emptied, BeginClose, Enter, callVars
    <2>9. Seeking'
      BY <1>8 DEF TypeOK, Seeking, BeginClose, Enter, callVars
    <2> QED
      BY <2>1, <2>2, <2>3, <2>4, <2>5, <2>6, <2>7, <2>8, <2>9
  <1>9. CASE \E c \in Chats : BeginStop(t, c)
    <2>1. TypeOK'
      BY <1>9 DEF TypeOK, BeginStop, TakeOut, Taken, Enter, Return, callVars
    <2>2. Roles(b)'
      BY <1>9 DEF TypeOK, Roles, BeginStop, TakeOut, Taken, Enter, Return, callVars
    <2>3. Building'
      BY <1>9 DEF TypeOK, Roles, Building, BeginStop, TakeOut, Taken, Enter, Return, callVars
    <2>4. FreshCall'
      BY <1>9 DEF TypeOK, Roles, Building, FreshCall, BeginStop, TakeOut, Taken, Enter, Return, callVars
    <2>5. OneEntry'
      BY <1>9 DEF TypeOK, OneEntry, FreshCall, Building, BeginStop, TakeOut, Taken, Enter, Return, callVars
    <2>6. Emptied'
      BY <1>9 DEF TypeOK, Roles, Emptied, BeginStop, TakeOut, Taken, Enter, Return, callVars
    <2>7. Reachable'
      BY <1>9 DEF TypeOK, Reachable, Building, Emptied, BeginStop, TakeOut, Taken, Enter, Return, callVars
    <2>8. TableIsOpen'
      BY <1>9 DEF TypeOK, Roles, TableIsOpen, FreshCall, OneEntry, Emptied, BeginStop, TakeOut, Taken, Enter, Return, callVars
    <2>9. Seeking'
      BY <1>9 DEF TypeOK, Seeking, BeginStop, TakeOut, Taken, Enter, Return, callVars
    <2> QED
      BY <2>1, <2>2, <2>3, <2>4, <2>5, <2>6, <2>7, <2>8, <2>9
  <1>10. CASE \E c \in Chats : BeginSeek(t, c)
    <2>1. TypeOK'
      BY <1>10 DEF TypeOK, BeginSeek, Taken, Enter, Return, callVars
    <2>2. Roles(b)'
      BY <1>10 DEF TypeOK, Roles, BeginSeek, Taken, Enter, Return, callVars
    <2>3. Building'
      BY <1>10 DEF TypeOK, Roles, Building, BeginSeek, Taken, Enter, Return, callVars
    <2>4. FreshCall'
      BY <1>10 DEF TypeOK, Roles, Building, FreshCall, BeginSeek, Taken, Enter, Return, callVars
    <2>5. OneEntry'
      BY <1>10 DEF TypeOK, OneEntry, FreshCall, Building, BeginSeek, Taken, Enter, Return, callVars
    <2>6. Emptied'
      BY <1>10 DEF TypeOK, Roles, Emptied, BeginSeek, Taken, Enter, Return, callVars
    <2>7. Reachable'
      BY <1>10 DEF TypeOK, Reachable, Building, Emptied, BeginSeek, Taken, Enter, Return, callVars
    <2>8. TableIsOpen'
      BY <1>10 DEF TypeOK, Roles, TableIsOpen, FreshCall, OneEntry, Emptied, BeginSeek, Taken, Enter, Return, callVars
    <2>9. Seeking'
      BY <1>10 DEF TypeOK, Seeking, BeginSeek, Taken, Enter, Return, callVars
    <2> QED
      BY <2>1, <2>2, <2>3, <2>4, <2>5, <2>6, <2>7, <2>8, <2>9
  <1>11. CASE \E c \in Chats, m \in Creates : BeginCreate(t, m, c)
    <2>1. TypeOK'
      BY <1>11 DEF TypeOK, BeginCreate, Taken, Enter, Return, callVars
    <2>2. Roles(b)'
      BY <1>11 DEF TypeOK, Roles, BeginCreate, Taken, Enter, Return, callVars
    <2>3. Building'
      <3>1. PICK c \in Chats, m \in Creates : BeginCreate(t, m, c)
        BY <1>11
      <3>2. \A u \in Tasks \ {t} : pc'[u] = pc[u] /\ chat'[u] = chat[u]
        BY <3>1 DEF BeginCreate, Return, Enter, TypeOK
      <3>3. built' = built /\ calls' = calls
        BY <3>1 DEF BeginCreate, callVars
      <3>4. CASE pc'[t] = "idle"
        BY <3>2, <3>3, <3>4 DEF Building
      <3>5. CASE pc'[t] # "idle"
        <4>1. pc'[t] = "build" /\ chat'[t] = c /\ calls[c] = NoCall /\ t = b
          BY <3>1, <3>5 DEF BeginCreate, Return, Enter, Taken, TypeOK
        <4>2. Creating = {}
          BY <3>1, <4>1 DEF BeginCreate, Creating, Roles
        <4>3. built < MaxCalls
          BY <3>1, <4>2, FS_EmptySet DEF BeginCreate, TypeOK
        <4> QED
          BY <3>2, <3>3, <4>1, <4>3 DEF Building
      <3> QED
        BY <3>4, <3>5
    <2>4. FreshCall'
      BY <1>11 DEF TypeOK, Roles, Building, FreshCall, BeginCreate, Taken, Enter, Return, callVars
    <2>5. OneEntry'
      BY <1>11 DEF TypeOK, OneEntry, FreshCall, Building, BeginCreate, Taken, Enter, Return, callVars
    <2>6. Emptied'
      BY <1>11 DEF TypeOK, Roles, Emptied, BeginCreate, Taken, Enter, Return, callVars
    <2>7. Reachable'
      BY <1>11 DEF TypeOK, Reachable, Building, Emptied, BeginCreate, Taken, Enter, Return, callVars
    <2>8. TableIsOpen'
      BY <1>11 DEF TypeOK, Roles, TableIsOpen, FreshCall, OneEntry, Emptied, BeginCreate, Taken, Enter, Return, callVars
    <2>9. Seeking'
      BY <1>11 DEF TypeOK, Seeking, BeginCreate, Taken, Enter, Return, callVars
    <2> QED
      BY <2>1, <2>2, <2>3, <2>4, <2>5, <2>6, <2>7, <2>8, <2>9
  <1>12. CASE Seek(t)
    <2>1. TypeOK'
      <3>1. open' \subseteq 1 .. built /\ built' = built /\ rtmp' = rtmp
        BY <1>12, StopTypes DEF Seek, callVars, TypeOK
      <3>2. Return(t) /\ UNCHANGED <<calls, todo>>
        BY <1>12 DEF Seek
      <3> QED
        BY <3>1, <3>2 DEF Return, TypeOK
    <2>2. Roles(b)'
      BY <1>12 DEF TypeOK, Roles, Seek, StopCall, Return, callVars
    <2>3. Building'
      BY <1>12 DEF TypeOK, Roles, Building, Seek, StopCall, Return, callVars
    <2>4. FreshCall'
      BY <1>12 DEF TypeOK, Roles, Building, FreshCall, Seek, StopCall, Return, callVars
    <2>5. OneEntry'
      BY <1>12 DEF TypeOK, OneEntry, FreshCall, Building, Seek, StopCall, Return, callVars
    <2>6. Emptied'
      BY <1>12 DEF TypeOK, Roles, Emptied, Seek, StopCall, Return, callVars
    <2>7. Reachable'
      <3>1. open' \subseteq open /\ calls' = calls /\ pc[t] = "seek"
        BY <1>12 DEF Seek, StopCall, callVars
      <3>2. \A u \in Tasks \ {t} : pc'[u] = pc[u] /\ mine'[u] = mine[u]
        BY <1>12 DEF Seek, Return, TypeOK
      <3> QED
        BY <3>1, <3>2 DEF Reachable
    <2>8. TableIsOpen'
      BY <1>12 DEF TypeOK, Roles, TableIsOpen, Seeking, FreshCall, OneEntry, Emptied, Seek, StopCall, Return, callVars
    <2>9. Seeking'
      BY <1>12 DEF TypeOK, Seeking, Seek, StopCall, Return, callVars
    <2> QED
      BY <2>1, <2>2, <2>3, <2>4, <2>5, <2>6, <2>7, <2>8, <2>9
  <1> QED
    BY <1>1, <1>2, <1>3, <1>4, <1>5, <1>6, <1>7, <1>8, <1>9, <1>10, <1>11, <1>12 DEF Invoke, TaskStep

\* The invariant holds in every behaviour, whoever creates the calls.
LEMMA Invariance == ASSUME NEW b, OnlyCreator(b) PROVE Spec => []IInv(b)
  <1>1. Init => IInv(b)
    BY ClientAssumption, ChatAssumption
       DEF Init, IInv, TypeOK, Roles, Building, FreshCall, OneEntry, Emptied, Seeking, Reachable, TableIsOpen,
           NoCall, NoChat
  <1>2. IInv(b) /\ [Next]_vars => IInv(b)'
    <2> SUFFICES ASSUME IInv(b), [Next]_vars PROVE IInv(b)'
      OBVIOUS
    <2>1. CASE UNCHANGED vars
      BY <2>1 DEF vars, callVars, taskVars, IInv, TypeOK, Roles, Building, FreshCall, OneEntry, Emptied,
                  Seeking, Reachable, TableIsOpen
    <2> QED
      BY <2>1, StepKeeps DEF Next
  <1> QED
    BY <1>1, <1>2, PTL DEF Spec

\* With one task that creates the calls and closes the client, whatever the others stop and seek
\* in meanwhile: every open call can still be stopped, and no chat is taken by a WebRTC call that
\* is not open (create_call, stop, close, and seek_by of an RTMP call).
THEOREM OneCreatorIsSafe == ASSUME NEW b, OnlyCreator(b) PROVE Spec => []TableMatchesCalls
  <1>1. IInv(b) => TableMatchesCalls
    <2> SUFFICES ASSUME IInv(b), NEW k \in open PROVE k \in InTable \cup Held
      BY DEF IInv, TableMatchesCalls, OpenIsReachable
    <2>1. k # NoCall
      BY DEF IInv, TypeOK, NoCall
    <2> QED
      BY <2>1 DEF IInv, Reachable, InTable, Held
  <1> QED
    BY <1>1, Invariance, PTL

=============================================================================
