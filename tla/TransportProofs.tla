--------------------------- MODULE TransportProofs ---------------------------
(***************************************************************************)
(* Proofs about Transport, for every finite set of callers and any number  *)
(* of dials.                                                               *)
(***************************************************************************)
EXTENDS Transport, FiniteSetTheorems, TLAPS

\* The connects that passed their first check and have no socket yet.
Dialing == {b \in Callers : pc[b] # "idle" /\ mine[b] = None}

\* Each of them has a dial left: what keeps the numbers of the dials within their bound.
DialsLeft == dials + Cardinality(Dialing) <= MaxDials

\* A caller has no dial before it has a socket.
NoDialYet == \A c \in Callers : pc[c] \in {"idle", "announce", "parse"} => mine[c] = None

\* The closing task has set the flag before it takes anything away.
ClosedFirst == closing # "no" => closed

\* The invariant that is inductive.
IInv == TypeOK /\ NoDialYet /\ DialsLeft /\ ClosedFirst /\ ConnectedMeansKeyed

----------------------------------------------------------------------------
(* Types *)

\* A set of callers is finite, and smaller than any that contains it.
LEMMA CountShrinks ==
    ASSUME NEW S \in SUBSET Callers, NEW U \in SUBSET S
    PROVE  /\ Cardinality(S) \in Nat /\ Cardinality(U) \in Nat
           /\ Cardinality(U) <= Cardinality(S)
  <1>1. IsFiniteSet(S)
    BY TransportAssumption, FS_Subset
  <1>2. IsFiniteSet(U)
    BY <1>1, FS_Subset
  <1> QED
    BY <1>1, <1>2, FS_Subset, FS_CardinalityType

\* The dials stay within their bound: a connect is counted until it has its socket.
LEMMA DialsStep ==
    ASSUME TypeOK, NoDialYet, DialsLeft, [Next]_vars
    PROVE  DialsLeft' /\ dials' \in 0 .. MaxDials
  <1> USE TransportAssumption DEF TypeOK, WorkersOK, CallersOK, Dials
  <1>1. Cardinality(Dialing) \in Nat
    BY CountShrinks DEF Dialing
  <1>2. dials \in Nat /\ dials <= MaxDials /\ dials + Cardinality(Dialing) <= MaxDials
    BY DEF DialsLeft
  <1>3. Dialing' \in SUBSET Callers
    BY DEF Dialing
  <1>4. Cardinality(Dialing') \in Nat
    BY <1>3, CountShrinks
  <1>5. ASSUME dials' = dials, Dialing' \subseteq Dialing PROVE DialsLeft' /\ dials' \in 0 .. MaxDials
    <2>1. Cardinality(Dialing') <= Cardinality(Dialing)
      BY <1>5, CountShrinks DEF Dialing
    <2>2. DialsLeft' <=> dials' + Cardinality(Dialing') <= MaxDials
      BY DEF DialsLeft
    <2> QED
      BY <1>1, <1>2, <1>4, <1>5, <2>1, <2>2
  <1>6. ASSUME NEW c \in Callers, BeginConnect(c) PROVE DialsLeft' /\ dials' \in 0 .. MaxDials
    <2>1. dials' = dials
      BY <1>6 DEF BeginConnect, workerVars
    <2>2. dials + Cardinality(Dialing) < MaxDials
      BY <1>6 DEF BeginConnect, Dialing
    <2>3. Dialing' \subseteq Dialing \cup {c}
      BY <1>6 DEF BeginConnect, Dialing, Return, Goto
    <2>4. IsFiniteSet(Dialing)
      BY FS_Subset DEF Dialing
    <2>5. IsFiniteSet(Dialing \cup {c}) /\ Cardinality(Dialing \cup {c}) <= Cardinality(Dialing) + 1
      <3>1. IsFiniteSet(Dialing \cup {c})
        BY <2>4, FS_AddElement
      <3>2. CASE c \in Dialing
        <4>1. Cardinality(Dialing \cup {c}) = Cardinality(Dialing)
          <5>1. Dialing \cup {c} = Dialing
            BY <3>2
          <5> QED
            BY <5>1, Zenon
        <4> QED
          BY <1>1, <3>1, <4>1
      <3>3. CASE c \notin Dialing
        <4>1. Cardinality(Dialing \cup {c}) = Cardinality(Dialing) + 1
          BY <2>4, <3>3, FS_AddElement
        <4> QED
          BY <1>1, <3>1, <4>1
      <3> QED
        BY <3>2, <3>3
    <2>6. Cardinality(Dialing') <= Cardinality(Dialing \cup {c}) /\ Cardinality(Dialing \cup {c}) \in Nat
      BY <2>3, <2>5, FS_Subset, FS_CardinalityType
    <2>7. DialsLeft' <=> dials' + Cardinality(Dialing') <= MaxDials
      BY DEF DialsLeft
    <2> QED
      BY <1>1, <1>2, <1>4, <2>1, <2>2, <2>5, <2>6, <2>7
  <1>7. ASSUME NEW c \in Callers, Bind(c) PROVE DialsLeft' /\ dials' \in 0 .. MaxDials
    <2>1. dials' = dials + 1
      BY <1>7 DEF Bind
    <2>2. pc'[c] = "address" /\ mine'[c] = dials' /\ (\A b \in Callers \ {c} : pc'[b] = pc[b] /\ mine'[b] = mine[b])
      BY <1>7 DEF Bind, Goto
    <2>3. c \in Dialing
      BY <1>7 DEF Bind, Dialing, NoDialYet
    <2>4. Dialing' \subseteq Dialing \ {c}
      BY <1>2, <2>1, <2>2 DEF Dialing, None
    <2>5. IsFiniteSet(Dialing)
      BY FS_Subset DEF Dialing
    <2>6. IsFiniteSet(Dialing \ {c}) /\ Cardinality(Dialing \ {c}) = Cardinality(Dialing) - 1
      BY <2>3, <2>5, FS_RemoveElement
    <2>7. Cardinality(Dialing') <= Cardinality(Dialing) - 1
      BY <2>4, <2>6, FS_Subset
    <2>8. DialsLeft' <=> dials' + Cardinality(Dialing') <= MaxDials
      BY DEF DialsLeft
    <2> QED
      BY <1>1, <1>2, <1>4, <2>1, <2>7, <2>8
  <1>8. ASSUME NEW c \in Callers, ConnectStep(c), ~Bind(c) PROVE dials' = dials /\ Dialing' \subseteq Dialing
    BY <1>8 DEF ConnectStep, Announce, Reject, Aim, SpawnWorker, Check, AnswerOk, GiveUp, Callback,
                Dialing, Return, Goto, workerVars
  <1>9. ASSUME NEW d \in Dials, WorkerStep(d) PROVE dials' = dials /\ Dialing' \subseteq Dialing
    BY <1>9 DEF WorkerStep, LoopHead, Turn, Handshake, Install, Dialing, callerVars
  <1>10. ASSUME BeginClose \/ CloseOn PROVE dials' = dials /\ Dialing' \subseteq Dialing
    BY <1>10 DEF BeginClose, CloseOn, CloseState, CloseKeys, CloseDecrypt, CloseSocket, CloseCallback,
                 CloseStep, Dialing, callerVars, workerVars
  <1>11. ASSUME UNCHANGED vars PROVE dials' = dials /\ Dialing' \subseteq Dialing
    BY <1>11 DEF vars, callerVars, workerVars, Dialing
  <1> QED
    BY <1>5, <1>6, <1>7, <1>8, <1>9, <1>10, <1>11 DEF Next, ConnectStep

\* Every step keeps every variable in its type.
LEMMA TypeStep ==
    ASSUME TypeOK, NoDialYet, DialsLeft, [Next]_vars
    PROVE  TypeOK' /\ NoDialYet'
  <1>1. dials' \in 0 .. MaxDials /\ dials \in 0 .. MaxDials /\ MaxDials \in Nat
    BY DialsStep, TransportAssumption DEF TypeOK, WorkersOK
  <1> USE <1>1 DEF TypeOK, WireOK, WorkersOK, CallersOK, NoDialYet, Dials, None
  <1>2. ASSUME NEW c \in Callers, BeginConnect(c) PROVE TypeOK' /\ NoDialYet'
    BY <1>2 DEF BeginConnect, Return, Goto, wireVars, workerVars
  <1>3. ASSUME NEW c \in Callers, Announce(c) PROVE TypeOK' /\ NoDialYet'
    BY <1>3 DEF Announce, Goto, wireVars, workerVars
  <1>4. ASSUME NEW c \in Callers, Reject(c) \/ GiveUp(c) PROVE TypeOK' /\ NoDialYet'
    <2>1. CASE Reject(c)
      BY <2>1 DEF Reject, Return, Goto, wireVars, workerVars
    <2>2. CASE GiveUp(c)
      BY <2>2 DEF GiveUp, Return, Goto, wireVars, workerVars
    <2> QED
      BY <1>4, <2>1, <2>2
  <1>5. ASSUME NEW c \in Callers, Bind(c) PROVE TypeOK' /\ NoDialYet'
    <2>1. dials' \in Dials /\ dials' = dials + 1
      BY <1>5 DEF Bind
    <2> QED
      BY <1>5, <2>1 DEF Bind, Goto
  <1>6. ASSUME NEW c \in Callers, Aim(c) PROVE TypeOK' /\ NoDialYet'
    BY <1>6 DEF Aim, Goto, workerVars
  <1>7. ASSUME NEW c \in Callers, SpawnWorker(c) PROVE TypeOK' /\ NoDialYet'
    BY <1>7 DEF SpawnWorker, Goto, wireVars
  <1>8. ASSUME NEW c \in Callers, Check(c) \/ AnswerOk(c) PROVE TypeOK' /\ NoDialYet'
    <2>1. CASE Check(c)
      BY <2>1 DEF Check, Goto, wireVars, workerVars
    <2>2. CASE AnswerOk(c)
      BY <2>2 DEF AnswerOk, Goto, wireVars, workerVars
    <2> QED
      BY <1>8, <2>1, <2>2
  <1>9. ASSUME NEW c \in Callers, Callback(c) PROVE TypeOK' /\ NoDialYet'
    BY <1>9 DEF Callback, Return, Goto, wireVars, workerVars
  <1>10. ASSUME NEW d \in Dials, LoopHead(d) \/ Turn(d) PROVE TypeOK' /\ NoDialYet'
    BY <1>10 DEF LoopHead, Turn, wireVars, callerVars
  <1>11. ASSUME NEW d \in Dials, Handshake(d) PROVE TypeOK' /\ NoDialYet'
    BY <1>11 DEF Handshake, Install
  <1>12. ASSUME BeginClose \/ CloseOn PROVE TypeOK' /\ NoDialYet'
    BY <1>12 DEF BeginClose, CloseOn, CloseState, CloseKeys, CloseDecrypt, CloseSocket, CloseCallback,
                 CloseStep, callerVars, workerVars, wireVars
  <1>13. ASSUME UNCHANGED vars PROVE TypeOK' /\ NoDialYet'
    BY <1>13 DEF vars, callerVars, workerVars, wireVars
  <1> QED
    BY <1>2, <1>3, <1>4, <1>5, <1>6, <1>7, <1>8, <1>9, <1>10, <1>11, <1>12, <1>13
       DEF Next, ConnectStep, WorkerStep

----------------------------------------------------------------------------
(* Keys *)

\* Nothing but a close takes keys away, and what shows or announces Connected has them.
LEMMA KeyedStep ==
    ASSUME TypeOK, ClosedFirst, ConnectedMeansKeyed, [Next]_vars
    PROVE  ClosedFirst' /\ ConnectedMeansKeyed'
  <1> USE DEF TypeOK, CallersOK, ClosedFirst, ConnectedMeansKeyed
  <1>1. ASSUME NEW c \in Callers, BeginConnect(c) PROVE ClosedFirst' /\ ConnectedMeansKeyed'
    BY <1>1 DEF BeginConnect, Return, Goto, wireVars
  <1>2. ASSUME NEW c \in Callers, Announce(c) \/ Bind(c) \/ Aim(c) \/ SpawnWorker(c) \/ Check(c)
        PROVE  ClosedFirst' /\ ConnectedMeansKeyed'
    BY <1>2 DEF Announce, Bind, Aim, SpawnWorker, Check, Goto, wireVars
  <1>3. ASSUME NEW c \in Callers, Reject(c) \/ GiveUp(c) \/ Callback(c)
        PROVE  ClosedFirst' /\ ConnectedMeansKeyed'
    BY <1>3 DEF Reject, GiveUp, Callback, Return, Goto, wireVars
  <1>4. ASSUME NEW c \in Callers, AnswerOk(c) PROVE ClosedFirst' /\ ConnectedMeansKeyed'
    BY <1>4 DEF AnswerOk, Goto, wireVars
  <1>5. ASSUME NEW d \in Dials, LoopHead(d) \/ Turn(d) PROVE ClosedFirst' /\ ConnectedMeansKeyed'
    BY <1>5 DEF LoopHead, Turn, wireVars, callerVars
  <1>6. ASSUME NEW d \in Dials, Handshake(d) PROVE ClosedFirst' /\ ConnectedMeansKeyed'
    BY <1>6 DEF Handshake, Install, Dials, None
  <1>7. ASSUME BeginClose \/ CloseOn PROVE ClosedFirst' /\ ConnectedMeansKeyed'
    BY <1>7 DEF BeginClose, CloseOn, CloseState, CloseKeys, CloseDecrypt, CloseSocket, CloseCallback, CloseStep
  <1>8. ASSUME UNCHANGED vars PROVE ClosedFirst' /\ ConnectedMeansKeyed'
    BY <1>8 DEF vars, callerVars, wireVars
  <1> QED
    BY <1>1, <1>2, <1>3, <1>4, <1>5, <1>6, <1>7, <1>8 DEF Next, ConnectStep, WorkerStep

\* The invariant holds in every behaviour.
THEOREM Invariance == Spec => []IInv
  <1>1. Init => IInv
    <2> SUFFICES ASSUME Init PROVE IInv
      OBVIOUS
    <2>1. Dialing = {}
      BY DEF Init, Dialing
    <2>2. DialsLeft
      BY <2>1, FS_EmptySet, TransportAssumption DEF Init, DialsLeft
    <2>3. WireOK
      BY DEF Init, WireOK, None
    <2>4. WorkersOK
      <3>1. dials \in 0 .. MaxDials
        BY TransportAssumption DEF Init
      <3> QED
        BY <3>1 DEF Init, WorkersOK
    <2>5. CallersOK
      BY DEF Init, CallersOK, None
    <2>6. TypeOK
      BY <2>3, <2>4, <2>5 DEF Init, TypeOK
    <2> QED
      BY <2>2, <2>6 DEF Init, IInv, NoDialYet, ClosedFirst, ConnectedMeansKeyed
  <1>2. IInv /\ [Next]_vars => IInv'
    BY DialsStep, TypeStep, KeyedStep DEF IInv
  <1> QED
    BY <1>1, <1>2, PTL DEF Spec

\* Every variable keeps its type: in particular only a caller that waits is woken.
THEOREM TypeCorrectness == Spec => []TypeOK
  BY Invariance, PTL DEF IInv

\* Connected, and a connect that answers Ok, mean keyed in both directions, however many
\* connects, handshakes and late answers there are (handle_dtls_packet, connect).
THEOREM ConnectedIsKeyed == Spec => []ConnectedMeansKeyed
  BY Invariance, PTL DEF IInv

\* The keys of an open transport are never replaced or taken away (the is_none check).
THEOREM KeysStay == Spec => KeysForKeeps
  <1>1. IInv /\ [Next]_vars => [keys # None /\ keys' # keys => closed]_vars
    <2> SUFFICES ASSUME IInv, Next, keys # None, keys' # keys PROVE closed
      OBVIOUS
    <2>1. ASSUME NEW c \in Callers, BeginConnect(c) \/ ConnectStep(c) PROVE keys' = keys
      BY <2>1 DEF BeginConnect, ConnectStep, Announce, Reject, Bind, Aim, SpawnWorker, Check, AnswerOk,
                  GiveUp, Callback, wireVars
    <2>2. ASSUME NEW d \in Dials, WorkerStep(d) PROVE keys' = keys
      BY <2>2 DEF WorkerStep, LoopHead, Turn, Handshake, Install, wireVars
    <2>3. ASSUME BeginClose \/ CloseOn PROVE keys' = keys \/ closed
      BY <2>3 DEF IInv, ClosedFirst, BeginClose, CloseOn, CloseState, CloseKeys, CloseDecrypt, CloseSocket,
                  CloseCallback, CloseStep, wireVars
    <2> QED
      BY <2>1, <2>2, <2>3 DEF Next
  <1> QED
    BY <1>1, Invariance, PTL DEF Spec, KeysForKeeps

----------------------------------------------------------------------------
(* The transport is a stack *)

\* Every step of the transport is one of StackLife, or nothing that the call can tell.
LEMMA LifeStep ==
    ASSUME IInv, [Next]_vars
    PROVE  [Life!Next]_Life!vars
  <1> USE DEF Life!Next, Life!vars, Life!Announce, Life!Complete, Life!Close
  <1>1. ASSUME NEW c \in Callers, BeginConnect(c) \/ (ConnectStep(c) /\ ~Announce(c)) PROVE UNCHANGED Life!vars
    BY <1>1 DEF BeginConnect, ConnectStep, Reject, Bind, Aim, SpawnWorker, Check, AnswerOk, GiveUp,
                Callback, wireVars
  <1>2. ASSUME NEW c \in Callers, Announce(c) PROVE Life!Announce
    BY <1>2 DEF Announce, wireVars
  <1>3. ASSUME NEW d \in Dials, WorkerStep(d) PROVE Life!Complete \/ UNCHANGED Life!vars
    BY <1>3 DEF WorkerStep, LoopHead, Turn, Handshake, Install, Dials, None, wireVars
  <1>4. ASSUME BeginClose \/ CloseOn PROVE Life!Close \/ UNCHANGED Life!vars
    BY <1>4 DEF IInv, TypeOK, ClosedFirst, BeginClose, CloseOn, CloseState, CloseKeys, CloseDecrypt, CloseSocket,
                CloseCallback, CloseStep, wireVars
  <1>5. ASSUME UNCHANGED vars PROVE UNCHANGED Life!vars
    BY <1>5 DEF vars, wireVars
  <1> QED
    BY <1>1, <1>2, <1>3, <1>4, <1>5 DEF Next, ConnectStep

\* The transport, with its many locks, is the stack that the call is built on.
THEOREM IsAStack == Spec => ImplementsStack
  <1>1. Init => Life!Init
    BY DEF Init, Life!Init
  <1>2. IInv /\ [Next]_vars => [Life!Next]_Life!vars
    BY LifeStep
  <1> QED
    BY <1>1, <1>2, Invariance, PTL DEF Spec, ImplementsStack, Life!Spec
=============================================================================
