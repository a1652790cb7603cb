---------------------------- MODULE AvSyncProofs ----------------------------
(***************************************************************************)
(* Proofs about AvSync, for every capacity of the channel, every number of *)
(* samples and of commands, and whatever the faults.                       *)
(***************************************************************************)
EXTENDS AvSync, SequenceTheorems, TLAPS

Operations == {"spawn", "arm", "pause", "resume", "stop"}

\* What the proofs need of the types.
CallTypes ==
    /\ legs \in Sources /\ muted \in BOOLEAN /\ hushed \in BOOLEAN /\ transport_closed \in BOOLEAN
    /\ commands \in 0 .. MaxCommands
    /\ running \in [Legs -> BOOLEAN] /\ paused \in [Legs -> BOOLEAN]
    /\ armed \subseteq Legs /\ ending \subseteq Legs /\ reported \subseteq Legs
    /\ todo \in Seq(Operations \X Legs)

TaskTypes ==
    /\ reader \in [Legs -> {"top", "read", "send", "done"}]
    /\ item \in [Legs -> Items \cup {"none"}]
    /\ produced \in [Legs -> Nat] /\ sent \in [Legs -> Nat] /\ overrun \in [Legs -> Nat]
    /\ chan \in [Legs -> Seq(Items)]
    /\ pacing \in [Legs -> {"recv", "top", "barrier", "send", "done"}]
    /\ next \in [Legs -> Items \cup {"none"}]
    /\ first \in [Legs -> BOOLEAN]
    /\ waiting = {l \in Legs : pacing[l] = "barrier"}
    /\ outcome \in [Legs -> Failures \cup {"none", "stopped", "transport"}]

Types == CallTypes /\ TaskTypes

\* A leg that was not spawned yet.
Unborn(l) ==
    /\ reader[l] = "done" /\ pacing[l] = "done" /\ ~running[l]
    /\ item[l] = "none" /\ next[l] = "none" /\ chan[l] = <<>>
    /\ produced[l] = 0 /\ sent[l] = 0 /\ overrun[l] = 0 /\ outcome[l] = "none"
    /\ l \notin armed /\ l \notin ending

\* A leg is spawned once and armed once, after it was spawned, and is not stopped in between.
Once(q) == \A i, j \in DOMAIN q : i < j /\ q[i][1] \in {"spawn", "arm"} => q[i] # q[j]
NoStop(q) == \A i, j \in DOMAIN q : q[i][1] \in {"spawn", "arm"} => q[j][1] # "stop"

Queue ==
    /\ Once(todo) /\ NoStop(todo)
    /\ \A i \in DOMAIN todo : todo[i][1] = "spawn" => Unborn(todo[i][2])
    /\ \A i \in DOMAIN todo :
          todo[i][1] = "arm" =>
              /\ todo[i][2] \notin armed /\ todo[i][2] \notin ending
              /\ running[todo[i][2]] \/ \E j \in 1 .. i - 1 : todo[j] = <<"spawn", todo[i][2]>>

\* Callbacks are those of streamers that run.
Callbacks == \A l \in armed : running[l]

\* The channel of a leg ends in the failure of its reader.
Broken(l) == chan[l] # <<>> /\ chan[l][Len(chan[l])] \in Failures

\* From the reader through the channel to the pacing task: only the last item is a failure, and a
\* reader that ended on its own has left one.
Pipe(l) ==
    /\ Len(chan[l]) <= Cap /\ produced[l] <= Samples[l]
    /\ item[l] # "none" <=> reader[l] = "send"
    /\ \A i \in 1 .. Len(chan[l]) - 1 : chan[l][i] = "sample"
    /\ Broken(l) => reader[l] = "done"
    /\ next[l] \in Failures => reader[l] = "done" /\ chan[l] = <<>>
    /\ next[l] # "none" => pacing[l] \in {"top", "done"}
    /\ pacing[l] = "done" => chan[l] = <<>>
    /\ outcome[l] # "none" => pacing[l] = "done"
    /\ reader[l] = "done" /\ running[l] /\ pacing[l] # "done" => next[l] \in Failures \/ Broken(l)
    /\ pacing[l] = "top" /\ next[l] = "none" => ~running[l]

\* Every sample that was read is sent, in a hand, or in the channel, until the pacing task ends.
One(b) == IF b THEN 1 ELSE 0
InPipe(l) ==
    Len(chan[l]) - One(Broken(l)) + One(item[l] = "sample") + One(next[l] = "sample")
        + One(pacing[l] \in {"barrier", "send"})
Conserved(l) ==
    /\ sent[l] <= produced[l]
    /\ pacing[l] # "done" => produced[l] = sent[l] + InPipe(l)
    /\ "eof" \in {item[l], next[l]} => produced[l] = Samples[l]
    /\ \A i \in DOMAIN chan[l] : chan[l][i] = "eof" => produced[l] = Samples[l]
    /\ outcome[l] = "eof" => sent[l] = Samples[l]

\* A held leg has used up, or holds, the one sample it may still send.
Holds(l) ==
    IF Stopped(l) THEN overrun[l] + One(pacing[l] \in {"barrier", "send"}) <= 1 ELSE overrun[l] = 0

\* The legs have not met, or have met.
NotYet(l) == sent[l] = 0 /\ pacing[l] # "send" /\ first[l]
Met(l) == sent[l] > 0 \/ pacing[l] = "send" \/ outcome[l] = "transport"
Together == HasBarrier => (\A l \in Legs : NotYet(l)) \/ (\A l \in Legs : Met(l))

LegInv(l) == Pipe(l) /\ Conserved(l) /\ Holds(l)
IInv == Types /\ Queue /\ Callbacks /\ (\A l \in Legs : LegInv(l)) /\ Together

----------------------------------------------------------------------------
(* The initial state *)

\* A queue of operations as the call makes it.
Entries(q) == {q[i] : i \in DOMAIN q}
Ordered(q) ==
    /\ q \in Seq(Operations \X Legs) /\ Once(q)
    /\ \A i \in DOMAIN q : q[i][1] # "stop"
    /\ \A i \in DOMAIN q : q[i][1] = "arm" => \E j \in 1 .. i - 1 : q[j] = <<"spawn", q[i][2]>>

\* One operation more, or none.
LEMMA Grow ==
    ASSUME NEW q, Ordered(q), NEW o \in Operations, NEW l \in Legs, NEW p,
           p = <<>> \/ p = <<<<o, l>>>>,
           p # <<>> => /\ o # "stop"
                       /\ o \in {"spawn", "arm"} => <<o, l>> \notin Entries(q)
                       /\ o = "arm" => <<"spawn", l>> \in Entries(q)
    PROVE  /\ Ordered(q \o p)
           /\ Entries(q \o p) = Entries(q) \cup (IF p = <<>> THEN {} ELSE {<<o, l>>})
  <1> USE DEF Ordered
  <1>1. CASE p = <<>>
    BY <1>1, ConcatEmptySeq
  <1>2. CASE p = <<<<o, l>>>>
    <2> DEFINE e == <<o, l>>
               r == q \o p
    <2>1. e \in Operations \X Legs /\ e[1] = o /\ e[2] = l
      OBVIOUS
    <2>2. r = Append(q, e) /\ p # <<>>
      BY <1>2, <2>1, AppendIsConcat
    <2>3. /\ r \in Seq(Operations \X Legs) /\ Len(r) = Len(q) + 1
          /\ \A i \in 1 .. Len(q) : r[i] = q[i]
          /\ r[Len(q) + 1] = e
      BY <2>1, <2>2, AppendProperties
    <2> HIDE DEF r, e
    <2>4. DOMAIN q = 1 .. Len(q) /\ Len(q) \in Nat /\ DOMAIN r = 1 .. Len(q) + 1
      BY <2>3, LenProperties
    <2>5. \A i \in DOMAIN r : (i \in DOMAIN q /\ r[i] = q[i]) \/ (i = Len(q) + 1 /\ r[i] = e)
      BY <2>3, <2>4
    <2>6. \A i \in DOMAIN q : i \in DOMAIN r /\ i < Len(q) + 1 /\ r[i] = q[i]
      BY <2>3, <2>4
    <2>7. Entries(r) = Entries(q) \cup {e}
      BY <2>3, <2>4, <2>5, <2>6 DEF Entries
    <2>8. Once(r)
      <3> SUFFICES ASSUME NEW i \in DOMAIN r, NEW j \in DOMAIN r, i < j, r[i][1] \in {"spawn", "arm"}
                   PROVE  r[i] # r[j]
        BY DEF Once
      <3>1. i \in DOMAIN q /\ r[i] = q[i]
        BY <2>4, <2>5
      <3>2. CASE j \in DOMAIN q /\ r[j] = q[j]
        BY <3>1, <3>2 DEF Once
      <3>3. CASE r[j] = e
        <4>1. q[i] \in Entries(q)
          BY <3>1 DEF Entries
        <4> QED
          BY <2>1, <2>2, <3>1, <3>3, <4>1 DEF e
      <3> QED
        BY <2>5, <3>2, <3>3
    <2>9. \A i \in DOMAIN r : r[i][1] # "stop"
      BY <2>1, <2>2, <2>5 DEF e
    <2>10. ASSUME NEW i \in DOMAIN r, r[i][1] = "arm"
           PROVE  \E j \in 1 .. i - 1 : r[j] = <<"spawn", r[i][2]>>
      <3>1. CASE i \in DOMAIN q /\ r[i] = q[i]
        <4>1. PICK j \in 1 .. i - 1 : q[j] = <<"spawn", q[i][2]>>
          BY <2>10, <3>1
        <4>2. j \in DOMAIN q
          BY <2>4, <3>1
        <4> QED
          BY <2>6, <3>1, <4>1, <4>2
      <3>2. CASE i = Len(q) + 1 /\ r[i] = e
        <4>1. <<"spawn", l>> \in Entries(q)
          BY <2>1, <2>2, <2>10, <3>2 DEF e
        <4>2. PICK j \in DOMAIN q : q[j] = <<"spawn", l>>
          BY <4>1 DEF Entries
        <4>3. j \in 1 .. i - 1 /\ r[j] = <<"spawn", l>>
          BY <2>4, <2>6, <3>2, <4>2
        <4> QED
          BY <2>1, <3>2, <4>3 DEF e
      <3> QED
        BY <2>5, <3>1, <3>2
    <2> QED
      BY <2>2, <2>3, <2>7, <2>8, <2>9, <2>10 DEF r, e
  <1> QED
    BY <1>1, <1>2

\* Whatever the legs, and muted, paused or not.
LEMMA Constructions == Ordered(Construction)
  <1> DEFINE p1 == OnLeg("spawn", "audio")
             p2 == IF muted \/ hushed THEN OnLeg("pause", "audio") ELSE <<>>
             p3 == OnLeg("arm", "audio")
             p4 == OnLeg("spawn", "video")
             p5 == IF hushed THEN OnLeg("pause", "video") ELSE <<>>
             p6 == IF "audio" \notin legs THEN OnLeg("arm", "video") ELSE <<>>
             q1 == p1
             q2 == q1 \o p2
             q3 == q2 \o p3
             q4 == q3 \o p4
             q5 == q4 \o p5
  <1>1. /\ p1 = IF "audio" \in legs THEN <<<<"spawn", "audio">>>> ELSE <<>>
        /\ p2 \in {<<>>, <<<<"pause", "audio">>>>}
        /\ p3 = IF "audio" \in legs THEN <<<<"arm", "audio">>>> ELSE <<>>
        /\ p4 = IF "video" \in legs THEN <<<<"spawn", "video">>>> ELSE <<>>
        /\ p5 \in {<<>>, <<<<"pause", "video">>>>}
        /\ p6 = IF "audio" \notin legs /\ "video" \in legs THEN <<<<"arm", "video">>>> ELSE <<>>
    BY DEF OnLeg
  <1>2. Construction = q5 \o p6
    BY DEF Construction
  <1> HIDE DEF p1, p2, p3, p4, p5, p6
  <1>3. Ordered(<<>>) /\ Entries(<<>>) = {} /\ <<>> \o p1 = p1
    BY <1>1 DEF Ordered, Once, Entries, Operations, Legs
  <1> USE DEF Operations, Legs
  <1>4. /\ Ordered(q1)
        /\ Entries(q1) = IF "audio" \in legs THEN {<<"spawn", "audio">>} ELSE {}
    <2> DEFINE q0 == <<>>
    <2>1. /\ p1 = <<>> \/ p1 = <<<<"spawn", "audio">>>>
          /\ Ordered(q0) /\ Entries(q0) = {} /\ q0 \o p1 = p1
      BY <1>1, <1>3
    <2> HIDE DEF q0
    <2>2. /\ Ordered(q0 \o p1)
          /\ Entries(q0 \o p1) = Entries(q0) \cup (IF p1 = <<>> THEN {} ELSE {<<"spawn", "audio">>})
      BY <2>1, Grow
    <2>3. CASE "audio" \in legs
      BY <1>1, <2>1, <2>2, <2>3
    <2>4. CASE "audio" \notin legs
      BY <1>1, <2>1, <2>2, <2>4
    <2> QED
      BY <2>3, <2>4
  <1> HIDE DEF q1
  <1>5. /\ Ordered(q2)
        /\ Entries(q2) \ {<<"pause", "audio">>} = Entries(q1)
    BY <1>1, <1>4, Grow
  <1> HIDE DEF q2
  <1>6. /\ Ordered(q3)
        /\ Entries(q3) \subseteq Entries(q2) \cup {<<"arm", "audio">>}
    BY <1>1, <1>4, <1>5, Grow
  <1> HIDE DEF q3
  <1>7. /\ Ordered(q4)
        /\ Entries(q4) \subseteq Entries(q3) \cup {<<"spawn", "video">>}
        /\ "video" \in legs => <<"spawn", "video">> \in Entries(q4)
    <2>1. <<"spawn", "video">> \notin Entries(q3)
      BY <1>4, <1>5, <1>6
    <2>2. p4 = <<>> \/ p4 = <<<<"spawn", "video">>>>
      BY <1>1
    <2>3. /\ Ordered(q4)
          /\ Entries(q4) = Entries(q3) \cup (IF p4 = <<>> THEN {} ELSE {<<"spawn", "video">>})
      BY <1>6, <2>1, <2>2, Grow
    <2> QED
      BY <1>1, <2>3
  <1> HIDE DEF q4
  <1>8. /\ Ordered(q5)
        /\ Entries(q4) \subseteq Entries(q5)
        /\ Entries(q5) \subseteq Entries(q4) \cup {<<"pause", "video">>}
    BY <1>1, <1>7, Grow
  <1> HIDE DEF q5
  <1>9. Ordered(q5 \o p6)
    BY <1>1, <1>4, <1>5, <1>6, <1>7, <1>8, Grow
  <1> QED
    BY <1>2, <1>9

LEMMA InitQueue ==
    ASSUME Init
    PROVE  todo \in Seq(Operations \X Legs) /\ Queue
  <1>1. \A l \in Legs : Unborn(l)
    BY DEF Init, Unborn
  <1>2. armed = {} /\ ending = {} /\ Ordered(todo)
    BY Constructions DEF Init
  <1>3. \A i \in DOMAIN todo : todo[i][2] \in Legs
    BY <1>2, ElementOfSeq, LenProperties DEF Ordered
  <1> QED
    BY <1>1, <1>2, <1>3 DEF Ordered, NoStop, Queue

LEMMA InitInv == Init => IInv
  <1> SUFFICES ASSUME Init PROVE IInv
    OBVIOUS
  <1>1. Types
    <2>1. CallTypes
      <3>1. 0 \in 0 .. MaxCommands
        BY AvSyncAssumption
      <3> QED
        BY <3>1, InitQueue DEF Init, CallTypes
    <2>2. \A l \in Legs : <<>> \in Seq(Items)
      OBVIOUS
    <2> QED
      BY <2>1, <2>2 DEF Init, Types, TaskTypes, Items, Failures
  <1>2. ASSUME NEW l \in Legs PROVE LegInv(l)
    BY AvSyncAssumption
       DEF Init, LegInv, Pipe, Conserved, Holds, Broken, Stopped, One, Failures
  <1>3. Callbacks /\ Together
    BY DEF Init, Callbacks, Together, NotYet
  <1> QED
    BY <1>1, <1>2, <1>3, InitQueue DEF IInv

----------------------------------------------------------------------------
(* The channel *)

LEMMA Put ==
    ASSUME NEW s \in Seq(Items), NEW e \in Items
    PROVE  /\ Append(s, e) \in Seq(Items) /\ Append(s, e) # <<>>
           /\ Len(Append(s, e)) = Len(s) + 1 /\ Len(s) \in Nat
           /\ \A i \in 1 .. Len(s) : Append(s, e)[i] = s[i]
           /\ Append(s, e)[Len(s) + 1] = e
  BY AppendProperties, LenProperties

LEMMA Take ==
    ASSUME NEW s \in Seq(Items), s # <<>>
    PROVE  /\ Head(s) \in Items /\ Head(s) = s[1] /\ Tail(s) \in Seq(Items)
           /\ Len(s) \in Nat \ {0} /\ Len(Tail(s)) = Len(s) - 1
           /\ \A i \in 1 .. Len(s) - 1 : Tail(s)[i] = s[i + 1]
           /\ Tail(s) = <<>> <=> Len(s) = 1
  <1>1. Len(s) \in Nat /\ Len(s) # 0
    BY LenProperties, EmptySeq
  <1>2. /\ Head(s) \in Items /\ Head(s) = s[1] /\ Tail(s) \in Seq(Items)
        /\ Len(Tail(s)) = Len(s) - 1
        /\ \A i \in 1 .. Len(s) - 1 : Tail(s)[i] = s[i + 1]
    BY <1>1, HeadTailProperties, ElementOfSeq
  <1>3. Tail(s) = <<>> <=> Len(Tail(s)) = 0
    BY <1>2, EmptySeq
  <1> QED
    BY <1>1, <1>2, <1>3

LEMMA Channel ==
    ASSUME Types, NEW l \in Legs
    PROVE  /\ chan[l] \in Seq(Items) /\ Len(chan[l]) \in Nat
           /\ DOMAIN chan[l] = 1 .. Len(chan[l])
           /\ chan[l] = <<>> <=> Len(chan[l]) = 0
           /\ \A i \in 1 .. Len(chan[l]) : chan[l][i] \in Items
  <1>1. chan[l] \in Seq(Items)
    BY DEF Types, TaskTypes
  <1> QED
    BY <1>1, LenProperties, EmptySeq, ElementOfSeq

----------------------------------------------------------------------------
(* A leg that a step leaves alone *)

Same(l) ==
    /\ running'[l] = running[l] /\ paused'[l] = paused[l]
    /\ reader'[l] = reader[l] /\ item'[l] = item[l] /\ produced'[l] = produced[l]
    /\ chan'[l] = chan[l] /\ pacing'[l] = pacing[l] /\ next'[l] = next[l]
    /\ sent'[l] = sent[l] /\ outcome'[l] = outcome[l] /\ overrun'[l] = overrun[l]

LEMMA Frame ==
    ASSUME NEW l \in Legs, LegInv(l), Same(l)
    PROVE  LegInv(l)'
  <1> USE DEF Same
  <1>1. Broken(l)' = Broken(l) /\ Stopped(l)' = Stopped(l)
    BY DEF Broken, Stopped
  <1>2. InPipe(l)' = InPipe(l)
    BY <1>1 DEF InPipe, One
  <1>3. Pipe(l)'
    BY <1>1 DEF LegInv, Pipe
  <1>4. Conserved(l)'
    BY <1>2 DEF LegInv, Conserved
  <1>5. Holds(l)'
    BY <1>1 DEF LegInv, Holds, One
  <1> QED
    BY <1>3, <1>4, <1>5 DEF LegInv

----------------------------------------------------------------------------
(* The steps of the reader *)

LEMMA ReaderTopStep ==
    ASSUME IInv, NEW l \in Legs, ReaderTop(l)
    PROVE  Types' /\ LegInv(l)' /\ \A m \in Legs \ {l} : Same(m)
  <1> USE DEF ReaderTop, streamer, pacingVars, callVars, IInv, Types
  <1>1. Types'
    <2>1. CallTypes'
      BY DEF CallTypes
    <2>2. TaskTypes'
      BY DEF TaskTypes
    <2> QED
      BY <2>1, <2>2
  <1>2. \A m \in Legs \ {l} : Same(m)
    BY DEF Same, TaskTypes
  <1>3. reader[l] = "top" /\ reader'[l] \in {"done", "read"} /\ (reader'[l] = "done" => ~running[l])
    BY DEF Leaves, TaskTypes
  <1>4. Broken(l)' = Broken(l) /\ Stopped(l)' = Stopped(l) /\ ~Broken(l)
    BY <1>3 DEF Broken, Stopped, LegInv, Pipe
  <1>5. Pipe(l)'
    BY <1>3, <1>4 DEF LegInv, Pipe
  <1>6. Conserved(l)'
    <2>1. InPipe(l)' = InPipe(l)
      BY <1>4 DEF InPipe, One
    <2> QED
      BY <2>1 DEF LegInv, Conserved
  <1>7. Holds(l)'
    BY <1>4 DEF LegInv, Holds, One
  <1> QED
    BY <1>1, <1>2, <1>5, <1>6, <1>7 DEF LegInv

LEMMA ReadStep ==
    ASSUME IInv, NEW l \in Legs, Read(l)
    PROVE  Types' /\ LegInv(l)' /\ \A m \in Legs \ {l} : Same(m)
  <1> USE DEF Read, streamer, pacingVars, callVars, IInv, Types
  <1>1. Types'
    <2>1. produced' \in [Legs -> Nat]
      BY DEF TaskTypes
    <2>2. item' \in [Legs -> Items \cup {"none"}]
      BY DEF TaskTypes, Items, Failures
    <2> QED
      BY <2>1, <2>2 DEF CallTypes, TaskTypes
  <1>2. \A m \in Legs \ {l} : Same(m)
    BY DEF Same, TaskTypes
  <1>3. /\ reader[l] = "read" /\ reader'[l] = "send"
        /\ \/ item'[l] = "sample" /\ produced[l] < Samples[l] /\ produced'[l] = produced[l] + 1
           \/ item'[l] = "eof" /\ produced[l] = Samples[l] /\ produced'[l] = produced[l]
           \/ item'[l] = "stall" /\ produced'[l] = produced[l]
    BY DEF TaskTypes
  <1>4. /\ Broken(l)' = Broken(l) /\ Stopped(l)' = Stopped(l) /\ ~Broken(l)
        /\ item[l] = "none" /\ next[l] \notin Failures
    BY <1>3 DEF Broken, Stopped, LegInv, Pipe
  <1>5. /\ produced[l] \in Nat /\ sent[l] \in Nat /\ Samples[l] \in Nat
        /\ \A i \in DOMAIN chan[l] : chan[l][i] # "eof"
    <2>1. \A i \in 1 .. Len(chan[l]) - 1 : chan[l][i] = "sample"
      BY DEF LegInv, Pipe
    <2>2. chan[l] # <<>> => chan[l][Len(chan[l])] # "eof"
      BY <1>4 DEF Broken, Failures
    <2>3. \A i \in 1 .. Len(chan[l]) : chan[l][i] # "eof"
      BY <2>1, <2>2, Channel
    <2> QED
      <3>1. produced[l] \in Nat /\ sent[l] \in Nat
        BY DEF TaskTypes
      <3>2. Samples[l] \in Nat
        BY AvSyncAssumption
      <3>3. DOMAIN chan[l] = 1 .. Len(chan[l])
        BY Channel
      <3> HIDE DEF Read, IInv, Types
      <3> QED
        BY <2>3, <3>1, <3>2, <3>3
  <1>6. Pipe(l)'
    BY <1>3, <1>4, <1>5 DEF LegInv, Pipe
  <1>7. Conserved(l)'
    <2>1. InPipe(l)' = InPipe(l) + One(item'[l] = "sample") /\ InPipe(l) \in Int
      <3>1. One(Broken(l))' = One(Broken(l)) /\ One(item[l] = "sample") = 0
        BY <1>4 DEF One
      <3>2. /\ One(Broken(l)) \in {0, 1} /\ One(item'[l] = "sample") \in {0, 1}
            /\ One(next[l] = "sample") \in {0, 1} /\ One(pacing[l] \in {"barrier", "send"}) \in {0, 1}
        BY DEF One
      <3> QED
        BY <3>1, <3>2, Channel DEF InPipe
    <2>2. /\ sent[l] <= produced[l]
          /\ pacing[l] # "done" => produced[l] = sent[l] + InPipe(l)
          /\ outcome[l] = "eof" => sent[l] = Samples[l]
      BY DEF LegInv, Conserved
    <2>3. sent'[l] <= produced'[l] /\ (pacing'[l] # "done" => produced'[l] = sent'[l] + InPipe(l)')
      <3> HIDE DEF InPipe
      <3> QED
        BY <1>3, <1>5, <2>1, <2>2 DEF One
    <2>4. "eof" \in {item'[l], next'[l]} => produced'[l] = Samples[l]
      BY <1>3, <1>4 DEF Failures
    <2> QED
      BY <1>5, <2>2, <2>3, <2>4 DEF Conserved
  <1>8. Holds(l)'
    BY <1>4 DEF LegInv, Holds, One
  <1> QED
    BY <1>1, <1>2, <1>6, <1>7, <1>8 DEF LegInv

LEMMA ReaderSendStep ==
    ASSUME IInv, NEW l \in Legs, ReaderSend(l)
    PROVE  Types' /\ LegInv(l)' /\ \A m \in Legs \ {l} : Same(m)
  <1> USE DEF ReaderSend, streamer, pacingVars, callVars, IInv, Types
  <1>1. /\ reader[l] = "send" /\ item[l] \in Items /\ item'[l] = "none" /\ ~Broken(l)
        /\ next[l] \notin Failures /\ chan[l] \in Seq(Items) /\ Stopped(l)' = Stopped(l)
    BY DEF LegInv, Pipe, TaskTypes, Stopped
  <1>2. CASE pacing[l] = "done"
    <2>1. chan' = chan /\ reader'[l] = "done" /\ chan[l] = <<>> /\ ~Broken(l)'
      BY <1>2 DEF LegInv, Pipe, TaskTypes, Broken
    <2>2. Types'
      BY <1>2 DEF CallTypes, TaskTypes
    <2>3. \A m \in Legs \ {l} : Same(m)
      BY <1>2 DEF Same, TaskTypes
    <2>4. Pipe(l)' /\ Holds(l)'
      BY <1>1, <1>2, <2>1 DEF LegInv, Pipe, Holds, One
    <2>5. Conserved(l)'
      BY <1>1, <1>2, <2>1 DEF LegInv, Conserved
    <2> QED
      BY <2>2, <2>3, <2>4, <2>5 DEF LegInv
  <1>3. CASE pacing[l] # "done"
    <2> DEFINE s == chan[l]
               r == Append(s, item[l])
    <2>1. /\ chan' = [chan EXCEPT ![l] = r] /\ Len(s) < Cap
          /\ reader'[l] = IF item[l] \in Failures THEN "done" ELSE "top"
      BY <1>3 DEF SendItem, HasRoom, TaskTypes
    <2>2. /\ r \in Seq(Items) /\ r # <<>> /\ Len(r) = Len(s) + 1 /\ Len(s) \in Nat
          /\ \A i \in 1 .. Len(s) : r[i] = s[i]
          /\ r[Len(s) + 1] = item[l]
      BY <1>1, Put
    <2>3. DOMAIN r = 1 .. Len(s) + 1 /\ DOMAIN s = 1 .. Len(s) /\ (s # <<>> <=> Len(s) # 0)
      BY <1>1, <2>2, LenProperties, EmptySeq
    <2>4. \A i \in 1 .. Len(s) : s[i] = "sample"
      <3>1. \A i \in 1 .. Len(s) - 1 : s[i] = "sample"
        BY DEF LegInv, Pipe
      <3>2. s # <<>> => s[Len(s)] = "sample"
        BY <1>1, <2>2, <2>3, ElementOfSeq DEF Broken, Items
      <3> QED
        BY <2>2, <2>3, <3>1, <3>2
    <2>5. Types'
      <3>1. reader' \in [Legs -> {"top", "read", "send", "done"}]
        BY <1>3, <2>1 DEF TaskTypes
      <3>2. chan' \in [Legs -> Seq(Items)]
        <4> HIDE DEF r
        <4> QED
          BY <2>1, <2>2 DEF TaskTypes
      <3>3. CallTypes'
        BY <1>3 DEF CallTypes
      <3>4. item' \in [Legs -> Items \cup {"none"}]
        BY DEF TaskTypes
      <3> QED
        BY <1>3, <3>1, <3>2, <3>3, <3>4 DEF TaskTypes
    <2>6. \A m \in Legs \ {l} : Same(m)
      BY <1>3, <2>1 DEF Same, TaskTypes
    <2>7. chan'[l] = r
      BY <2>1 DEF TaskTypes
    <2> HIDE DEF r, s
    <2>8. Broken(l)' <=> item[l] \in Failures
      BY <2>2, <2>7 DEF Broken
    <2>9. Pipe(l)'
      <3>1. Len(chan'[l]) <= Cap /\ \A i \in 1 .. Len(chan'[l]) - 1 : chan'[l][i] = "sample"
        <4>1. Len(s) + 1 <= Cap
          BY <2>1, <2>2, AvSyncAssumption
        <4>2. Len(chan'[l]) = Len(s) + 1
          BY <2>2, <2>7
        <4>3. \A i \in 1 .. Len(s) : chan'[l][i] = "sample"
          BY <2>2, <2>4, <2>7
        <4> HIDE DEF ReaderSend, IInv, Types
        <4> QED
          BY <2>2, <4>1, <4>2, <4>3
      <3>2. Broken(l)' => reader'[l] = "done"
        BY <2>1, <2>8
      <3>3. reader'[l] = "done" => Broken(l)'
        BY <2>1, <2>8
      <3> QED
        BY <1>1, <1>3, <2>1, <3>1, <3>2, <3>3 DEF LegInv, Pipe
    <2>10. Conserved(l)'
      <3>1. InPipe(l)' = InPipe(l)
        <4>1. /\ One(Broken(l)) = 0 /\ One(Broken(l)') = One(item[l] \in Failures)
              /\ One(item'[l] = "sample") = 0
          BY <1>1, <2>8 DEF One
        <4>2. One(item[l] \in Failures) + One(item[l] = "sample") = 1
          BY <1>1 DEF One, Items, Failures
        <4>3. /\ One(item[l] \in Failures) \in {0, 1} /\ One(item[l] = "sample") \in {0, 1}
              /\ One(next[l] = "sample") \in {0, 1} /\ One(pacing[l] \in {"barrier", "send"}) \in {0, 1}
          BY DEF One
        <4>4. Len(chan'[l]) = Len(chan[l]) + 1 /\ Len(chan[l]) \in Nat
          BY <2>2, <2>7 DEF s
        <4>5. next' = next /\ pacing' = pacing
          BY <1>3
        <4>6. InPipe(l)' = Len(chan'[l]) - One(Broken(l)') + One(item'[l] = "sample")
                               + One(next'[l] = "sample") + One(pacing'[l] \in {"barrier", "send"})
          BY DEF InPipe
        <4> QED
          BY <4>1, <4>2, <4>3, <4>4, <4>5, <4>6 DEF InPipe
      <3>2. \A i \in DOMAIN chan'[l] : chan'[l][i] = "eof" => produced[l] = Samples[l]
        BY <2>2, <2>3, <2>4, <2>7 DEF LegInv, Conserved
      <3> QED
        BY <1>1, <3>1, <3>2 DEF LegInv, Conserved
    <2>11. Holds(l)'
      BY <1>1 DEF LegInv, Holds, One
    <2> QED
      BY <2>5, <2>6, <2>9, <2>10, <2>11 DEF LegInv
  <1> QED
    BY <1>2, <1>3

----------------------------------------------------------------------------
(* The steps of the pacing task *)

LEMMA ReceiveStep ==
    ASSUME IInv, NEW l \in Legs, Receive(l)
    PROVE  Types' /\ LegInv(l)' /\ \A m \in Legs \ {l} : Same(m)
  <1> USE DEF Receive, streamer, readerVars, callVars, IInv, Types
  <1>1. pacing[l] = "recv" /\ pacing'[l] = "top" /\ next[l] = "none" /\ Stopped(l)' = Stopped(l)
    <2>1. pacing[l] = "recv" /\ pacing'[l] = "top"
      BY DEF TaskTypes
    <2>2. next[l] # "none" => pacing[l] \in {"top", "done"}
      BY DEF LegInv, Pipe
    <2> QED
      BY <2>1, <2>2 DEF Stopped
  <1>2. Holds(l)'
    BY <1>1 DEF LegInv, Holds, One
  <1>3. CASE chan[l] = <<>>
    <2>1. chan' = chan /\ next' = next /\ reader[l] = "done" /\ ~Broken(l) /\ ~Broken(l)'
      BY <1>3 DEF Broken
    <2>2. Types'
      <3>1. CallTypes'
        BY DEF CallTypes
      <3>2. pacing' \in [Legs -> {"recv", "top", "barrier", "send", "done"}]
        BY DEF TaskTypes
      <3>3. waiting' = {m \in Legs : pacing'[m] = "barrier"}
        BY <1>1 DEF TaskTypes
      <3> QED
        BY <2>1, <3>1, <3>2, <3>3 DEF TaskTypes
    <2>3. \A m \in Legs \ {l} : Same(m)
      BY <2>1 DEF Same, TaskTypes
    <2>4. ~running[l]
      BY <1>1, <2>1 DEF LegInv, Pipe, Failures
    <2>5. Pipe(l)'
      BY <1>1, <2>1, <2>4 DEF LegInv, Pipe, Failures
    <2>6. Conserved(l)'
      <3>1. InPipe(l)' = InPipe(l)
        BY <1>1, <2>1 DEF InPipe, One
      <3> QED
        BY <1>1, <2>1, <3>1 DEF LegInv, Conserved
    <2> QED
      BY <1>2, <2>2, <2>3, <2>5, <2>6 DEF LegInv
  <1>4. CASE chan[l] # <<>>
    <2> DEFINE s == chan[l]
               h == Head(s)
               t == Tail(s)
    <2>1. next' = [next EXCEPT ![l] = h] /\ chan' = [chan EXCEPT ![l] = t]
      BY <1>4
    <2>2. /\ h \in Items /\ h = s[1] /\ t \in Seq(Items)
          /\ Len(s) \in Nat \ {0} /\ Len(t) = Len(s) - 1
          /\ \A i \in 1 .. Len(s) - 1 : t[i] = s[i + 1]
          /\ t = <<>> <=> Len(s) = 1
      BY <1>4, Channel, Take
    <2>3. DOMAIN t = 1 .. Len(s) - 1 /\ DOMAIN s = 1 .. Len(s)
      BY <2>2, Channel, LenProperties
    <2> HIDE DEF h, t
    <2>4. next'[l] = h /\ chan'[l] = t
      BY <2>1 DEF TaskTypes
    <2>5. Types'
      <3>1. CallTypes'
        BY DEF CallTypes
      <3>2. pacing' \in [Legs -> {"recv", "top", "barrier", "send", "done"}]
        BY DEF TaskTypes
      <3>3. waiting' = {m \in Legs : pacing'[m] = "barrier"}
        BY <1>1 DEF TaskTypes
      <3>4. next' \in [Legs -> Items \cup {"none"}] /\ chan' \in [Legs -> Seq(Items)]
        BY <2>1, <2>2 DEF TaskTypes
      <3> QED
        BY <3>1, <3>2, <3>3, <3>4 DEF TaskTypes
    <2>6. \A m \in Legs \ {l} : Same(m)
      BY <2>1 DEF Same, TaskTypes
    <2>7. \A i \in 1 .. Len(s) - 1 : s[i] = "sample"
      BY DEF LegInv, Pipe
    <2>8. /\ Broken(l)' <=> Len(s) > 1 /\ Broken(l)
          /\ h \in Failures <=> Len(s) = 1 /\ Broken(l)
      <3>1. CASE Len(s) = 1
        BY <1>4, <2>2, <2>4, <3>1 DEF Broken
      <3>2. CASE Len(s) > 1
        <4>1. h = "sample"
          BY <2>2, <2>7, <3>2
        <4>2. t # <<>> /\ t[Len(t)] = s[Len(s)]
          BY <2>2, <3>2
        <4> QED
          BY <1>4, <2>4, <3>2, <4>1, <4>2 DEF Broken, Failures
      <3> QED
        BY <2>2, <3>1, <3>2
    <2>9. Pipe(l)'
      <3>1. Len(chan'[l]) <= Cap /\ \A i \in 1 .. Len(chan'[l]) - 1 : chan'[l][i] = "sample"
        <4>1. Len(s) <= Cap
          BY DEF LegInv, Pipe
        <4> QED
          BY <2>2, <2>4, <2>7, <4>1, AvSyncAssumption
      <3>2. Broken(l) => reader[l] = "done"
        BY DEF LegInv, Pipe
      <3>3. next'[l] \in Failures => reader'[l] = "done" /\ chan'[l] = <<>>
        BY <2>2, <2>4, <2>8, <3>2
      <3>4. reader[l] = "done" /\ running[l] => Broken(l)
        BY <1>1 DEF LegInv, Pipe, Failures
      <3>5. next'[l] # "none"
        BY <2>2, <2>4 DEF Items, Failures
      <3> QED
        BY <1>1, <2>2, <2>4, <2>8, <3>1, <3>2, <3>3, <3>4, <3>5 DEF LegInv, Pipe
    <2>10. Conserved(l)'
      <3>1. InPipe(l)' = InPipe(l)
        <4>1. /\ One(next[l] = "sample") = 0 /\ One(pacing[l] \in {"barrier", "send"}) = 0
              /\ One(pacing'[l] \in {"barrier", "send"}) = 0
          BY <1>1 DEF One
        <4>2. One(Broken(l)) + One(next'[l] = "sample") = One(Broken(l)') + 1
          <5>1. CASE Broken(l)
            BY <2>2, <2>4, <2>8, <5>1 DEF One, Items, Failures
          <5>2. CASE ~Broken(l)
            BY <2>2, <2>4, <2>8, <5>2 DEF One, Items, Failures
          <5> QED
            BY <5>1, <5>2
        <4>3. /\ One(Broken(l)) \in {0, 1} /\ One(next'[l] = "sample") \in {0, 1}
              /\ One(Broken(l)') \in {0, 1} /\ One(item[l] = "sample") \in {0, 1}
          BY DEF One
        <4>4. Len(chan'[l]) = Len(chan[l]) - 1 /\ Len(chan[l]) \in Nat /\ item' = item
          BY <2>2, <2>4
        <4>5. InPipe(l)' = Len(chan'[l]) - One(Broken(l)') + One(item'[l] = "sample")
                               + One(next'[l] = "sample") + One(pacing'[l] \in {"barrier", "send"})
          BY DEF InPipe
        <4> QED
          BY <4>1, <4>2, <4>3, <4>4, <4>5 DEF InPipe
      <3>2. \A i \in DOMAIN chan'[l] : chan'[l][i] = s[i + 1] /\ i + 1 \in DOMAIN s
        BY <2>2, <2>3, <2>4
      <3>3. 1 \in DOMAIN s /\ next'[l] = s[1]
        BY <2>2, <2>3, <2>4
      <3> QED
        BY <1>1, <3>1, <3>2, <3>3 DEF LegInv, Conserved
    <2> QED
      BY <1>2, <2>5, <2>6, <2>9, <2>10 DEF LegInv
  <1> QED
    BY <1>3, <1>4

LEMMA NoticeStep ==
    ASSUME IInv, NEW l \in Legs, NoticePause(l) \/ ReportEnd(l)
    PROVE  Types' /\ \A m \in Legs : Same(m)
  <1> USE DEF NoticePause, ReportEnd, streamer, readerVars, callVars, IInv, Types
  <1>1. Types'
    <2>1. CallTypes'
      BY DEF CallTypes
    <2>2. TaskTypes'
      BY DEF TaskTypes
    <2> QED
      BY <2>1, <2>2
  <1> QED
    BY <1>1 DEF Same

\* A leg whose pacing task takes the next sample in hand, and one that it meets.
LEMMA TakeStep ==
    ASSUME IInv, NEW l \in Legs, TakeSample(l)
    PROVE  /\ Types' /\ LegInv(l)'
           /\ \A m \in Legs \ {l} :
                 Same(m) \/ (LegInv(m)' /\ pacing[m] = "barrier" /\ pacing'[m] = "send")
  <1> USE DEF TakeSample, streamer, readerVars, callVars, IInv, Types
  <1>1. /\ pacing[l] = "top" /\ running[l] /\ ~paused[l] /\ next[l] = "sample"
        /\ next' = [next EXCEPT ![l] = "none"]
    BY DEF MayPace
  <1>2. /\ pacing'[l] \in {"barrier", "send"}
        /\ \A m \in Legs \ {l} :
              pacing'[m] = pacing[m] \/ (pacing[m] = "barrier" /\ pacing'[m] = "send")
        /\ pacing' \in [Legs -> {"recv", "top", "barrier", "send", "done"}]
        /\ first' \in [Legs -> BOOLEAN]
        /\ waiting' = {m \in Legs : pacing'[m] = "barrier"}
    <2>1. CASE ~Meets(l)
      <3>1. /\ pacing' = [pacing EXCEPT ![l] = "send"] /\ first' = [first EXCEPT ![l] = FALSE]
            /\ waiting' = waiting
        BY <2>1
      <3>2. \A m \in Legs : pacing'[m] = IF m = l THEN "send" ELSE pacing[m]
        BY <3>1 DEF TaskTypes
      <3>3. waiting' = {m \in Legs : pacing'[m] = "barrier"}
        BY <1>1, <3>1, <3>2 DEF TaskTypes
      <3> QED
        BY <3>1, <3>2, <3>3 DEF TaskTypes
    <2>2. CASE Meets(l) /\ waiting = {}
      <3>1. pacing' = [pacing EXCEPT ![l] = "barrier"] /\ first' = first /\ waiting' = {l}
        BY <2>2
      <3>2. \A m \in Legs : pacing'[m] = IF m = l THEN "barrier" ELSE pacing[m]
        BY <3>1 DEF TaskTypes
      <3>3. \A m \in Legs : pacing[m] # "barrier"
        BY <2>2 DEF TaskTypes
      <3>4. waiting' = {m \in Legs : pacing'[m] = "barrier"}
        BY <3>1, <3>2, <3>3
      <3> QED
        BY <3>1, <3>2, <3>4 DEF TaskTypes
    <2>3. CASE Meets(l) /\ waiting # {}
      <3>1. \A m \in Legs \ {l} : pacing[m] = "barrier"
        BY <1>1, <2>3 DEF TaskTypes, Legs
      <3>2. pacing' = [m \in Legs |-> "send"] /\ first' = [m \in Legs |-> FALSE] /\ waiting' = {}
        BY <2>3
      <3> QED
        BY <3>1, <3>2 DEF TaskTypes
    <2> QED
      BY <2>1, <2>2, <2>3
  <1>3. Types'
    <2>1. CallTypes'
      BY DEF CallTypes
    <2>2. next' \in [Legs -> Items \cup {"none"}]
      BY DEF TaskTypes
    <2> QED
      BY <1>2, <2>1, <2>2 DEF TaskTypes
  <1>4. ASSUME NEW m \in Legs, next'[m] = "none", pacing'[m] \in {"barrier", "send"},
               \/ m = l
               \/ pacing[m] = "barrier" /\ next[m] = "none"
        PROVE  LegInv(m)'
    <2>1. /\ Broken(m)' = Broken(m) /\ Stopped(m)' = Stopped(m)
          /\ pacing[m] # "done" /\ outcome[m] = "none"
      BY <1>1, <1>4 DEF Broken, Stopped, LegInv, Pipe
    <2>2. Pipe(m)'
      BY <1>1, <1>4, <2>1 DEF LegInv, Pipe, Failures
    <2>3. InPipe(m)' = InPipe(m)
      <3>1. One(next[m] = "sample") + One(pacing[m] \in {"barrier", "send"}) = 1
        BY <1>1, <1>4 DEF One
      <3>2. One(next'[m] = "sample") = 0 /\ One(pacing'[m] \in {"barrier", "send"}) = 1
        BY <1>4 DEF One
      <3>3. /\ One(next[m] = "sample") \in {0, 1} /\ One(pacing[m] \in {"barrier", "send"}) \in {0, 1}
            /\ One(item[m] = "sample") \in {0, 1} /\ One(Broken(m)) \in {0, 1}
            /\ One(Broken(m)') = One(Broken(m))
        BY <2>1 DEF One
      <3>4. InPipe(m)' = Len(chan[m]) - One(Broken(m)') + One(item[m] = "sample")
                               + One(next'[m] = "sample") + One(pacing'[m] \in {"barrier", "send"})
        BY DEF InPipe
      <3> QED
        BY <3>1, <3>2, <3>3, <3>4, Channel DEF InPipe
    <2>4. Conserved(m)'
      BY <1>4, <2>1, <2>3 DEF LegInv, Conserved
    <2>5. Holds(m)'
      <3>1. CASE m = l
        BY <1>1, <1>4, <2>1, <3>1 DEF LegInv, Holds, Stopped
      <3>2. CASE pacing[m] = "barrier"
        BY <1>4, <2>1, <3>2 DEF LegInv, Holds, One
      <3> QED
        BY <1>4, <3>1, <3>2
    <2> QED
      BY <2>2, <2>4, <2>5 DEF LegInv
  <1>5. LegInv(l)'
    BY <1>1, <1>2, <1>4 DEF TaskTypes
  <1>6. ASSUME NEW m \in Legs \ {l}
        PROVE  Same(m) \/ (LegInv(m)' /\ pacing[m] = "barrier" /\ pacing'[m] = "send")
    <2>1. next'[m] = next[m]
      BY DEF TaskTypes
    <2>2. CASE pacing'[m] = pacing[m]
      BY <2>1, <2>2 DEF Same
    <2>3. CASE pacing[m] = "barrier" /\ pacing'[m] = "send"
      <3>1. next[m] = "none"
        BY <2>3 DEF LegInv, Pipe
      <3> QED
        BY <1>4, <2>1, <2>3, <3>1
    <2> QED
      BY <1>2, <2>2, <2>3
  <1> QED
    BY <1>3, <1>5, <1>6

\* What ends, however it ends.
LEMMA FinishFacts ==
    ASSUME IInv, NEW l \in Legs, pacing[l] # "done", pacing[l] # "barrier",
           NEW how \in Failures \cup {"stopped", "transport"}, Finish(l, how)
    PROVE  /\ \A m \in Legs : pacing'[m] = IF m = l THEN "done" ELSE pacing[m]
           /\ \A m \in Legs : outcome'[m] = IF m = l THEN how ELSE outcome[m]
           /\ \A m \in Legs : chan'[m] = IF m = l THEN <<>> ELSE chan[m]
           /\ pacing' \in [Legs -> {"recv", "top", "barrier", "send", "done"}]
           /\ outcome' \in [Legs -> Failures \cup {"none", "stopped", "transport"}]
           /\ chan' \in [Legs -> Seq(Items)]
           /\ armed' \subseteq Legs /\ ending' \subseteq Legs
           /\ waiting = {m \in Legs : pacing'[m] = "barrier"}
  <1> USE DEF Finish, IInv, Types
  <1>1. \A m \in Legs : pacing'[m] = IF m = l THEN "done" ELSE pacing[m]
    BY DEF TaskTypes
  <1>2. waiting = {m \in Legs : pacing'[m] = "barrier"}
    BY <1>1 DEF TaskTypes
  <1>3. <<>> \in Seq(Items)
    OBVIOUS
  <1>4. armed' \subseteq Legs /\ ending' \subseteq Legs
    BY DEF CallTypes
  <1> QED
    BY <1>1, <1>2, <1>3, <1>4 DEF TaskTypes

LEMMA EndStep ==
    ASSUME IInv, NEW l \in Legs, EndOfLoop(l)
    PROVE  Types' /\ LegInv(l)' /\ \A m \in Legs \ {l} : Same(m)
  <1> USE DEF EndOfLoop, readerVars, callVars, IInv, Types
  <1>1. pacing[l] = "top" /\ outcome[l] = "none" /\ sent' = sent
    BY DEF LegInv, Pipe
  <1>2. PICK how \in Failures \cup {"stopped", "transport"} :
            Finish(l, how) /\ (how \in Failures => next[l] = how)
    BY DEF Failures
  <1>3. /\ \A m \in Legs : pacing'[m] = IF m = l THEN "done" ELSE pacing[m]
        /\ \A m \in Legs : outcome'[m] = IF m = l THEN how ELSE outcome[m]
        /\ \A m \in Legs : chan'[m] = IF m = l THEN <<>> ELSE chan[m]
        /\ pacing' \in [Legs -> {"recv", "top", "barrier", "send", "done"}]
        /\ outcome' \in [Legs -> Failures \cup {"none", "stopped", "transport"}]
        /\ chan' \in [Legs -> Seq(Items)]
        /\ armed' \subseteq Legs /\ ending' \subseteq Legs
        /\ waiting = {m \in Legs : pacing'[m] = "barrier"}
    <2>1. pacing[l] # "done" /\ pacing[l] # "barrier"
      BY <1>1
    <2> QED
      BY <1>2, <2>1, FinishFacts
  <1>4. Types'
    <2>1. CallTypes'
      BY <1>3 DEF CallTypes
    <2> QED
      BY <1>3, <2>1 DEF TaskTypes
  <1>5. \A m \in Legs \ {l} : Same(m)
    BY <1>3 DEF Same
  <1>6. ~Broken(l)' /\ Stopped(l)' = Stopped(l)
    BY <1>3 DEF Broken, Stopped
  <1>7. Pipe(l)'
    <2>1. Len(chan'[l]) = 0
      BY <1>3
    <2> QED
      BY <1>1, <1>3, <1>6, <2>1, AvSyncAssumption DEF LegInv, Pipe, Failures
  <1>8. Conserved(l)'
    <2>1. next[l] = "eof" => sent[l] = Samples[l]
      <3> HAVE next[l] = "eof"
      <3>1. chan[l] = <<>> /\ reader[l] = "done" /\ item[l] = "none" /\ produced[l] = Samples[l]
        BY DEF LegInv, Pipe, Conserved, Failures
      <3>2. InPipe(l) = 0
        BY <1>1, <3>1, Channel DEF InPipe, One, Broken
      <3>3. produced[l] = sent[l] + InPipe(l)
        BY <1>1 DEF LegInv, Conserved
      <3> QED
        BY <3>1, <3>2, <3>3 DEF TaskTypes
    <2> QED
      BY <1>1, <1>2, <1>3, <2>1 DEF LegInv, Conserved, Failures
  <1>9. Holds(l)'
    BY <1>1, <1>3, <1>6 DEF LegInv, Holds, One
  <1> QED
    BY <1>4, <1>5, <1>7, <1>8, <1>9 DEF LegInv

LEMMA SendStep ==
    ASSUME IInv, NEW l \in Legs, Send(l)
    PROVE  Types' /\ LegInv(l)' /\ \A m \in Legs \ {l} : Same(m)
  <1> USE DEF Send, readerVars, callVars, IInv, Types
  <1>1. pacing[l] = "send" /\ outcome[l] = "none" /\ next[l] = "none" /\ Stopped(l)' = Stopped(l)
    BY DEF LegInv, Pipe, Stopped
  <1>2. CASE transport_closed
    <2>1. Finish(l, "transport") /\ sent' = sent /\ overrun' = overrun
      BY <1>2
    <2>2. /\ \A m \in Legs : pacing'[m] = IF m = l THEN "done" ELSE pacing[m]
          /\ \A m \in Legs : outcome'[m] = IF m = l THEN "transport" ELSE outcome[m]
          /\ \A m \in Legs : chan'[m] = IF m = l THEN <<>> ELSE chan[m]
          /\ pacing' \in [Legs -> {"recv", "top", "barrier", "send", "done"}]
          /\ outcome' \in [Legs -> Failures \cup {"none", "stopped", "transport"}]
          /\ chan' \in [Legs -> Seq(Items)]
          /\ armed' \subseteq Legs /\ ending' \subseteq Legs
          /\ waiting = {m \in Legs : pacing'[m] = "barrier"}
      <3>1. pacing[l] # "done" /\ pacing[l] # "barrier"
        BY <1>1
      <3> QED
        BY <2>1, <3>1, FinishFacts
    <2>3. Types'
      <3>1. CallTypes'
        BY <2>2 DEF CallTypes
      <3> QED
        BY <2>1, <2>2, <3>1 DEF TaskTypes
    <2>4. \A m \in Legs \ {l} : Same(m)
      BY <2>1, <2>2 DEF Same
    <2>5. ~Broken(l)' /\ Len(chan'[l]) = 0
      BY <2>2 DEF Broken
    <2>6. Pipe(l)'
      BY <1>1, <2>1, <2>2, <2>5, AvSyncAssumption DEF LegInv, Pipe, Failures
    <2>7. Conserved(l)'
      BY <1>1, <2>1, <2>2 DEF LegInv, Conserved
    <2>8. Holds(l)'
      <3>1. One(pacing'[l] \in {"barrier", "send"}) = 0 /\ One(pacing[l] \in {"barrier", "send"}) = 1
        BY <1>1, <2>2 DEF One
      <3>2. overrun[l] \in Nat
        BY DEF TaskTypes
      <3> QED
        BY <1>1, <2>1, <3>1, <3>2 DEF LegInv, Holds
    <2> QED
      BY <2>3, <2>4, <2>6, <2>7, <2>8 DEF LegInv
  <1>3. CASE ~transport_closed
    <2>1. /\ sent' = [sent EXCEPT ![l] = @ + 1]
          /\ overrun' = [overrun EXCEPT ![l] = IF Stopped(l) THEN @ + 1 ELSE 0]
          /\ pacing' = [pacing EXCEPT ![l] = "recv"]
          /\ UNCHANGED <<armed, chan, outcome, ending>>
      BY <1>3
    <2>2. /\ \A m \in Legs : pacing'[m] = IF m = l THEN "recv" ELSE pacing[m]
          /\ sent[l] \in Nat /\ sent'[l] = sent[l] + 1
          /\ overrun[l] \in Nat /\ overrun'[l] = IF Stopped(l) THEN overrun[l] + 1 ELSE 0
      BY <2>1 DEF TaskTypes
    <2>3. Types'
      <3>1. CallTypes'
        BY <2>1 DEF CallTypes
      <3>2. waiting' = {m \in Legs : pacing'[m] = "barrier"}
        BY <1>1, <2>2 DEF TaskTypes
      <3>3. sent' \in [Legs -> Nat] /\ overrun' \in [Legs -> Nat]
        BY <2>1, <2>2 DEF TaskTypes
      <3>4. pacing' \in [Legs -> {"recv", "top", "barrier", "send", "done"}]
        BY <2>1 DEF TaskTypes
      <3> QED
        BY <2>1, <3>1, <3>2, <3>3, <3>4 DEF TaskTypes
    <2>4. \A m \in Legs \ {l} : Same(m)
      BY <2>1, <2>2 DEF Same, TaskTypes
    <2>5. Broken(l)' = Broken(l)
      BY <2>1 DEF Broken
    <2>6. Pipe(l)'
      BY <1>1, <2>1, <2>2, <2>5 DEF LegInv, Pipe
    <2>7. Conserved(l)'
      <3>1. /\ One(pacing[l] \in {"barrier", "send"}) = 1 /\ One(pacing'[l] \in {"barrier", "send"}) = 0
            /\ One(Broken(l)') = One(Broken(l)) /\ One(next[l] = "sample") = 0
            /\ One(item[l] = "sample") \in {0, 1} /\ One(Broken(l)) \in {0, 1}
        BY <1>1, <2>2, <2>5 DEF One
      <3>2. Len(chan[l]) - One(Broken(l)) \in Nat
        BY Channel DEF One, Broken
      <3>3. InPipe(l)' = Len(chan[l]) - One(Broken(l)') + One(item[l] = "sample")
                             + One(next[l] = "sample") + One(pacing'[l] \in {"barrier", "send"})
        BY <2>1 DEF InPipe
      <3>4. InPipe(l)' + 1 = InPipe(l) /\ InPipe(l)' \in Nat
        BY <3>1, <3>2, <3>3, Channel DEF InPipe
      <3>5. produced[l] = sent[l] + InPipe(l) /\ produced[l] \in Nat
        BY <1>1 DEF LegInv, Conserved, TaskTypes
      <3>6. sent'[l] <= produced[l] /\ produced[l] = sent'[l] + InPipe(l)'
        <4> HIDE DEF InPipe
        <4> QED
          BY <2>2, <3>4, <3>5
      <3> QED
        BY <1>1, <2>1, <3>6 DEF LegInv, Conserved
    <2>8. Holds(l)'
      <3>1. One(pacing'[l] \in {"barrier", "send"}) = 0 /\ One(pacing[l] \in {"barrier", "send"}) = 1
        BY <1>1, <2>2 DEF One
      <3> QED
        BY <1>1, <2>2, <3>1 DEF LegInv, Holds
    <2> QED
      BY <2>3, <2>4, <2>6, <2>7, <2>8 DEF LegInv
  <1> QED
    BY <1>2, <1>3

----------------------------------------------------------------------------
(* The queue of the call, and the legs together, under the steps of the tasks *)

LEMMA QueueFrame ==
    ASSUME Queue, todo' = todo, running' = running,
           armed' \subseteq armed, ending' \subseteq ending \cup armed,
           \A l \in Legs : Unborn(l) => Unborn(l)',
           \A i \in DOMAIN todo : todo[i][2] \in Legs
    PROVE  Queue'
  <1>1. Once(todo)' /\ NoStop(todo)'
    BY DEF Queue, Once, NoStop
  <1>2. (\A i \in DOMAIN todo : todo[i][1] = "spawn" => Unborn(todo[i][2]))'
    BY DEF Queue, Unborn
  <1>3. \A i \in DOMAIN todo' :
           todo'[i][1] = "arm" =>
               /\ todo'[i][2] \notin armed' /\ todo'[i][2] \notin ending'
               /\ running'[todo'[i][2]] \/ \E j \in 1 .. i - 1 : todo'[j] = <<"spawn", todo'[i][2]>>
    BY DEF Queue
  <1> QED
    BY <1>1, <1>2, <1>3 DEF Queue

LEMMA Entry ==
    ASSUME Types
    PROVE  /\ \A i \in DOMAIN todo : todo[i] \in Operations \X Legs
           /\ DOMAIN todo = 1 .. Len(todo) /\ Len(todo) \in Nat
  BY LenProperties, ElementOfSeq DEF Types, CallTypes

LEMMA TaskQueue ==
    ASSUME IInv, NEW l \in Legs, ReaderStep(l) \/ PacingStep(l),
           \A m \in Legs \ {l} : Same(m) \/ pacing[m] = "barrier"
    PROVE  Queue' /\ Callbacks'
  <1>1. todo' = todo /\ running' = running
    BY DEF ReaderStep, ReaderTop, Read, ReaderSend, PacingStep, Receive, NoticePause, TakeSample,
           EndOfLoop, Send, ReportEnd, streamer, callVars
  <1>2. armed' \subseteq armed /\ ending' \subseteq ending \cup armed
    BY DEF ReaderStep, ReaderTop, Read, ReaderSend, PacingStep, Receive, NoticePause, TakeSample,
           EndOfLoop, Send, ReportEnd, streamer, pacingVars, Finish
  <1>3. reader[l] # "done" \/ pacing[l] # "done" \/ l \in ending
    BY DEF ReaderStep, ReaderTop, Read, ReaderSend, PacingStep, Receive, NoticePause, TakeSample,
           EndOfLoop, Send, ReportEnd
  <1>4. ASSUME NEW m \in Legs, Unborn(m) PROVE Unborn(m)'
    <2>1. m # l /\ Same(m)
      BY <1>3, <1>4 DEF Unborn
    <2> QED
      BY <1>2, <1>4, <2>1 DEF Unborn, Same
  <1>5. Queue'
    <2>1. \A i \in DOMAIN todo : todo[i][2] \in Legs
      BY Entry DEF IInv
    <2> QED
      BY <1>1, <1>2, <1>4, <2>1, QueueFrame DEF IInv
  <1> QED
    BY <1>1, <1>2, <1>5 DEF IInv, Callbacks

LEMMA TogetherFrame ==
    ASSUME Together, legs' = legs,
           \A l \in Legs : (NotYet(l) => NotYet(l)') /\ (Met(l) => Met(l)')
    PROVE  Together'
  BY DEF Together, HasBarrier

LEMMA TaskTogether ==
    ASSUME IInv, NEW l \in Legs, ReaderStep(l) \/ PacingStep(l)
    PROVE  Together'
  <1> USE DEF IInv, Types
  <1>1. legs' = legs
    BY DEF ReaderStep, ReaderTop, Read, ReaderSend, PacingStep, Receive, NoticePause, TakeSample,
           EndOfLoop, Send, ReportEnd, streamer
  <1>2. CASE ReaderStep(l) \/ ReportEnd(l)
    <2>1. UNCHANGED <<sent, pacing, first, outcome>>
      BY <1>2 DEF ReaderStep, ReaderTop, Read, ReaderSend, ReportEnd, pacingVars
    <2> QED
      BY <1>1, <2>1, TogetherFrame DEF NotYet, Met
  <1>3. CASE Receive(l)
    <2>1. /\ pacing[l] = "recv" /\ UNCHANGED <<sent, first, outcome>>
          /\ \A m \in Legs : pacing'[m] = IF m = l THEN "top" ELSE pacing[m]
      BY <1>3 DEF Receive, TaskTypes
    <2> QED
      BY <1>1, <2>1, TogetherFrame DEF NotYet, Met
  <1>4. CASE NoticePause(l)
    <2>1. /\ UNCHANGED <<sent, pacing, outcome>>
          /\ \A m \in Legs : first'[m] = IF m = l THEN TRUE ELSE first[m]
      BY <1>4 DEF NoticePause, TaskTypes
    <2> QED
      BY <1>1, <2>1, TogetherFrame DEF NotYet, Met
  <1>5. CASE EndOfLoop(l)
    <2>1. /\ pacing[l] = "top" /\ outcome[l] = "none" /\ UNCHANGED <<sent, first>>
          /\ \A m \in Legs \ {l} : outcome'[m] = outcome[m] /\ pacing'[m] = pacing[m]
          /\ pacing'[l] = "done"
      BY <1>5 DEF EndOfLoop, Finish, LegInv, Pipe, TaskTypes
    <2> QED
      BY <1>1, <2>1, TogetherFrame DEF NotYet, Met
  <1>6. CASE Send(l)
    <2>1. /\ pacing[l] = "send" /\ UNCHANGED first
          /\ \A m \in Legs \ {l} :
                outcome'[m] = outcome[m] /\ pacing'[m] = pacing[m] /\ sent'[m] = sent[m]
      BY <1>6 DEF Send, Finish, TaskTypes
    <2>2. sent'[l] > 0 \/ outcome'[l] = "transport"
      <3>1. sent[l] \in Nat
        BY DEF TaskTypes
      <3>2. CASE transport_closed
        BY <1>6, <3>2 DEF Send, Finish, TaskTypes
      <3>3. CASE ~transport_closed
        BY <1>6, <3>1, <3>3 DEF Send, TaskTypes
      <3> QED
        BY <3>2, <3>3
    <2> QED
      BY <1>1, <2>1, <2>2, TogetherFrame DEF NotYet, Met
  <1>7. CASE TakeSample(l)
    <2>1. pacing[l] = "top" /\ UNCHANGED <<sent, outcome>>
      BY <1>7 DEF TakeSample
    <2>2. CASE ~HasBarrier
      BY <1>1, <2>2 DEF Together, HasBarrier
    <2>3. CASE HasBarrier /\ ~first[l]
      <3>1. \A m \in Legs : pacing'[m] = IF m = l THEN "send" ELSE pacing[m]
        BY <1>7, <2>3 DEF TakeSample, Meets, TaskTypes
      <3>2. \A m \in Legs \ {l} : first'[m] = first[m]
        BY <1>7, <2>3 DEF TakeSample, Meets, TaskTypes
      <3> QED
        BY <1>1, <2>1, <2>3, <3>1, <3>2, TogetherFrame DEF NotYet, Met
    <2>4. CASE HasBarrier /\ first[l] /\ waiting = {}
      <3>1. first' = first /\ \A m \in Legs : pacing'[m] = IF m = l THEN "barrier" ELSE pacing[m]
        BY <1>7, <2>4 DEF TakeSample, Meets, TaskTypes
      <3> QED
        BY <1>1, <2>1, <3>1, TogetherFrame DEF NotYet, Met
    <2>5. CASE HasBarrier /\ first[l] /\ waiting # {}
      <3>1. pacing' = [m \in Legs |-> "send"]
        BY <1>7, <2>5 DEF TakeSample, Meets
      <3> QED
        BY <3>1 DEF Together, Met
    <2> QED
      BY <2>2, <2>3, <2>4, <2>5
  <1> QED
    BY <1>2, <1>3, <1>4, <1>5, <1>6, <1>7 DEF PacingStep

LEMMA TaskStep ==
    ASSUME IInv, NEW l \in Legs, ReaderStep(l) \/ PacingStep(l)
    PROVE  IInv'
  <1>1. /\ Types' /\ LegInv(l)'
        /\ \A m \in Legs \ {l} : Same(m) \/ (LegInv(m)' /\ pacing[m] = "barrier")
    <2>1. CASE ReaderStep(l)
      BY <2>1, ReaderTopStep, ReadStep, ReaderSendStep DEF ReaderStep
    <2>2. CASE NoticePause(l) \/ ReportEnd(l)
      BY <2>2, NoticeStep, Frame DEF IInv
    <2>3. CASE Receive(l)
      BY <2>3, ReceiveStep
    <2>4. CASE TakeSample(l)
      BY <2>4, TakeStep
    <2>5. CASE EndOfLoop(l)
      BY <2>5, EndStep
    <2>6. CASE Send(l)
      BY <2>6, SendStep
    <2> QED
      BY <2>1, <2>2, <2>3, <2>4, <2>5, <2>6 DEF PacingStep
  <1>2. \A m \in Legs : LegInv(m)'
    BY <1>1, Frame DEF IInv
  <1>3. Queue' /\ Callbacks'
    BY <1>1, TaskQueue
  <1>4. Together'
    BY TaskTogether
  <1> QED
    BY <1>1, <1>2, <1>3, <1>4 DEF IInv

----------------------------------------------------------------------------
(* The steps of the call *)

\* A command asks nothing of a leg but to pause, to resume or to stop.
LEMMA Orders ==
    ASSUME NEW o \in {"pause", "resume", "stop"}, NEW q,
           q = EachLeg(o) \/ \E l \in Legs : q = OnLeg(o, l)
    PROVE  q \in Seq(Operations \X Legs) /\ \A i \in DOMAIN q : q[i][1] = o
  <1> USE DEF Operations, Legs
  <1>1. \A l \in Legs : /\ OnLeg(o, l) \in Seq(Operations \X Legs)
                        /\ \A i \in DOMAIN OnLeg(o, l) : OnLeg(o, l)[i][1] = o
    BY DEF OnLeg
  <1>2. CASE q = EachLeg(o)
    <2> DEFINE a == OnLeg(o, "audio")
               v == OnLeg(o, "video")
    <2>1. q = a \o v
      BY <1>2 DEF EachLeg
    <2>2. /\ a \in Seq(Operations \X Legs) /\ \A i \in DOMAIN a : a[i][1] = o
          /\ v \in Seq(Operations \X Legs) /\ \A i \in DOMAIN v : v[i][1] = o
      BY <1>1
    <2> HIDE DEF a, v
    <2>3. /\ Len(a) \in Nat /\ Len(v) \in Nat /\ DOMAIN a = 1 .. Len(a) /\ DOMAIN v = 1 .. Len(v)
      BY <2>2, LenProperties
    <2>4. /\ q \in Seq(Operations \X Legs) /\ Len(q) = Len(a) + Len(v)
          /\ \A i \in 1 .. Len(a) + Len(v) : q[i] = IF i <= Len(a) THEN a[i] ELSE v[i - Len(a)]
      BY <2>1, <2>2, ConcatProperties
    <2>5. DOMAIN q = 1 .. Len(a) + Len(v)
      BY <2>4, LenProperties
    <2>6. ASSUME NEW i \in DOMAIN q PROVE q[i][1] = o
      <3>1. CASE i <= Len(a)
        BY <2>2, <2>3, <2>4, <2>5, <3>1
      <3>2. CASE i > Len(a)
        <4>1. i - Len(a) \in DOMAIN v
          BY <2>3, <2>5, <3>2
        <4> QED
          BY <2>2, <2>3, <2>4, <2>5, <3>2, <4>1
      <3> QED
        BY <2>3, <2>5, <3>1, <3>2
    <2> QED
      BY <2>4, <2>6
  <1>3. CASE \E l \in Legs : q = OnLeg(o, l)
    BY <1>1, <1>3
  <1> QED
    BY <1>2, <1>3

LEMMA CommandStep ==
    ASSUME IInv, NEW c \in Commands, Command(c)
    PROVE  IInv'
  <1> USE DEF Command, streamer, readerVars, pacingVars, IInv, Types
  <1>1. PICK o \in {"pause", "resume", "stop"} :
            todo' = EachLeg(o) \/ \E l \in Legs : todo' = OnLeg(o, l)
    BY DEF Legs
  <1>2. todo' \in Seq(Operations \X Legs) /\ \A i \in DOMAIN todo' : todo'[i][1] = o
    <2> HIDE DEF Command, IInv
    <2>1. PICK q : q = todo'
      OBVIOUS
    <2>2. q \in Seq(Operations \X Legs) /\ \A i \in DOMAIN q : q[i][1] = o
      BY <1>1, <2>1, Orders
    <2> QED
      BY <2>1, <2>2
  <1>3. Types'
    <2>1. commands' \in 0 .. MaxCommands
      BY AvSyncAssumption DEF CallTypes
    <2> QED
      BY <1>2, <2>1 DEF CallTypes, TaskTypes
  <1>4. Queue'
    <2>1. \A i \in DOMAIN todo' : todo'[i][1] # "spawn" /\ todo'[i][1] # "arm"
      BY <1>2
    <2> QED
      BY <2>1 DEF Queue, Once, NoStop
  <1>5. \A l \in Legs : LegInv(l)'
    BY Frame DEF Same
  <1>6. Callbacks' /\ Together'
    BY DEF Callbacks, Together, HasBarrier, NotYet, Met
  <1> QED
    BY <1>3, <1>4, <1>5, <1>6

LEMMA CloseStep ==
    ASSUME IInv, CloseTransport \/ UNCHANGED vars
    PROVE  IInv'
  <1> USE DEF CloseTransport, vars, streamer, readerVars, pacingVars, callVars, IInv, Types
  <1>1. Types'
    <2>1. CallTypes'
      BY DEF CallTypes
    <2>2. TaskTypes'
      BY DEF TaskTypes
    <2> QED
      BY <2>1, <2>2
  <1>2. Queue'
    <2>1. \A i \in DOMAIN todo : todo[i][2] \in Legs
      BY Entry
    <2> QED
      BY <2>1, QueueFrame DEF Unborn
  <1>3. \A l \in Legs : LegInv(l)'
    BY Frame DEF Same
  <1>4. Callbacks' /\ Together'
    BY DEF Callbacks, Together, HasBarrier, NotYet, Met
  <1> QED
    BY <1>1, <1>2, <1>3, <1>4

\* The first operation is taken from the queue.
LEMMA Pop ==
    ASSUME Types, Queue, todo # <<>>, todo' = Tail(todo)
    PROVE  /\ todo' \in Seq(Operations \X Legs)
           /\ 1 \in DOMAIN todo /\ Head(todo) = todo[1]
           /\ Head(todo)[1] \in Operations /\ Head(todo)[2] \in Legs
           /\ Head(todo) = <<Head(todo)[1], Head(todo)[2]>>
           /\ \A i \in DOMAIN todo' : i \in Nat \ {0} /\ i + 1 \in DOMAIN todo /\ todo'[i] = todo[i + 1]
           /\ \A i \in DOMAIN todo : i > 1 => i - 1 \in DOMAIN todo' /\ todo'[i - 1] = todo[i]
           /\ Once(todo)' /\ NoStop(todo)'
  <1>1. todo \in Seq(Operations \X Legs)
    BY DEF Types, CallTypes
  <1>2. /\ Len(todo) \in Nat \ {0} /\ DOMAIN todo = 1 .. Len(todo)
        /\ Head(todo) = todo[1] /\ todo[1] \in Operations \X Legs
    BY <1>1, LenProperties, EmptySeq, HeadTailProperties, ElementOfSeq
  <1>3. /\ todo' \in Seq(Operations \X Legs) /\ Len(todo') = Len(todo) - 1
        /\ \A i \in 1 .. Len(todo) - 1 : todo'[i] = todo[i + 1]
    BY <1>1, HeadTailProperties
  <1>4. DOMAIN todo' = 1 .. Len(todo) - 1
    BY <1>3, LenProperties
  <1>5. /\ \A i \in DOMAIN todo' : i \in Nat \ {0} /\ i + 1 \in DOMAIN todo /\ todo'[i] = todo[i + 1]
        /\ \A i \in DOMAIN todo : i > 1 => i - 1 \in DOMAIN todo' /\ todo'[i - 1] = todo[i]
    BY <1>2, <1>3, <1>4
  <1>6. Once(todo')
    <2> SUFFICES ASSUME NEW i \in DOMAIN todo', NEW j \in DOMAIN todo', i < j,
                        todo'[i][1] \in {"spawn", "arm"}
                 PROVE  todo'[i] # todo'[j]
      BY DEF Once
    <2>1. i + 1 \in DOMAIN todo /\ j + 1 \in DOMAIN todo /\ i + 1 < j + 1
      BY <1>2, <1>4, <1>5
    <2> QED
      BY <1>5, <2>1 DEF Queue, Once
  <1>7. NoStop(todo')
    BY <1>5 DEF Queue, NoStop
  <1> QED
    BY <1>2, <1>3, <1>5, <1>6, <1>7 DEF Once, NoStop

LEMMA OperationLeg ==
    ASSUME IInv, LegOperation
    PROVE  Types' /\ Callbacks' /\ Together' /\ \A m \in Legs : LegInv(m)'
  <1> USE DEF LegOperation, IInv, Types
  <1>0. PICK o \in Operations, l \in Legs : o = Head(todo)[1] /\ l = Head(todo)[2]
    BY Pop
  <1>1. /\ todo' \in Seq(Operations \X Legs) /\ o \in Operations /\ l \in Legs
        /\ 1 \in DOMAIN todo /\ todo[1][1] = o /\ todo[1][2] = l
    BY <1>0, Pop
  <1>2. /\ UNCHANGED <<legs, item, produced, chan, next, first, waiting, sent, outcome, ending, reported,
                       transport_closed, muted, hushed, commands>>
        /\ overrun' = IF o = "resume" THEN [overrun EXCEPT ![l] = 0] ELSE overrun
    BY <1>0
  <1>3. /\ o = "spawn" => /\ Spawn(l) /\ running' = [running EXCEPT ![l] = TRUE]
                          /\ paused' = paused /\ armed' = armed
        /\ o # "spawn" => reader' = reader /\ pacing' = pacing
        /\ o = "pause" => paused' = [paused EXCEPT ![l] = TRUE] /\ running' = running /\ armed' = armed
        /\ o = "resume" => paused' = [paused EXCEPT ![l] = FALSE] /\ running' = running /\ armed' = armed
        /\ o = "stop" => StopStreamer(l) /\ paused' = paused
        /\ o = "arm" => armed' = armed \cup {l} /\ running' = running /\ paused' = paused
    BY <1>0
  <1>4. o = "spawn" => Unborn(l)
    BY <1>1 DEF Queue
  <1>5. o = "arm" => running[l]
    BY <1>1 DEF Queue
  <1> HIDE DEF LegOperation
  <1>6. o \in {"spawn", "arm", "pause", "resume", "stop"}
    BY <1>1 DEF Operations
  <1>7. Types'
    <2>1. /\ running' \in [Legs -> BOOLEAN] /\ paused' \in [Legs -> BOOLEAN] /\ armed' \subseteq Legs
      BY <1>1, <1>3, <1>6 DEF StopStreamer, CallTypes
    <2>2. CallTypes'
      BY <1>1, <1>2, <2>1 DEF CallTypes
    <2>3. /\ reader' \in [Legs -> {"top", "read", "send", "done"}]
          /\ pacing' \in [Legs -> {"recv", "top", "barrier", "send", "done"}]
      <3>1. /\ reader \in [Legs -> {"top", "read", "send", "done"}]
            /\ pacing \in [Legs -> {"recv", "top", "barrier", "send", "done"}]
        BY DEF TaskTypes
      <3> HIDE DEF IInv, Types
      <3>2. CASE o = "spawn"
        <4>1. reader' = [reader EXCEPT ![l] = "top"] /\ pacing' = [pacing EXCEPT ![l] = "recv"]
          BY <1>3, <3>2 DEF Spawn
        <4>2. reader' \in [Legs -> {"top", "read", "send", "done"}]
          BY <3>1, <4>1
        <4>3. pacing' \in [Legs -> {"recv", "top", "barrier", "send", "done"}]
          BY <3>1, <4>1
        <4> QED
          BY <4>2, <4>3
      <3>3. CASE o # "spawn"
        BY <1>3, <3>1, <3>3
      <3> QED
        BY <3>2, <3>3
    <2>4. overrun' \in [Legs -> Nat]
      BY <1>2 DEF TaskTypes
    <2>5. waiting' = {m \in Legs : pacing'[m] = "barrier"}
      <3>1. \A m \in Legs : pacing'[m] = "barrier" <=> pacing[m] = "barrier"
        BY <1>1, <1>3, <1>4 DEF Spawn, Unborn, TaskTypes
      <3> QED
        BY <1>2, <3>1 DEF TaskTypes
    <2> QED
      BY <1>2, <2>2, <2>3, <2>4, <2>5 DEF TaskTypes
  <1>8. Callbacks'
    BY <1>1, <1>3, <1>5, <1>6 DEF Callbacks, StopStreamer, CallTypes
  <1>9. Together'
    <2>1. \A m \in Legs : (NotYet(m) => NotYet(m)') /\ (Met(m) => Met(m)')
      BY <1>1, <1>2, <1>3, <1>4 DEF NotYet, Met, Spawn, Unborn, TaskTypes
    <2> QED
      BY <1>2, <2>1, TogetherFrame
  <1>10. ASSUME NEW m \in Legs, m # l PROVE LegInv(m)'
    <2>1. running'[m] = running[m] /\ paused'[m] = paused[m]
      BY <1>1, <1>3, <1>6, <1>10 DEF StopStreamer, CallTypes
    <2>2. reader'[m] = reader[m] /\ pacing'[m] = pacing[m]
      BY <1>1, <1>3, <1>10 DEF Spawn, TaskTypes
    <2>3. overrun'[m] = overrun[m]
      BY <1>1, <1>2, <1>10 DEF TaskTypes
    <2>4. Same(m)
      BY <1>2, <2>1, <2>2, <2>3 DEF Same
    <2> QED
      BY <2>4, Frame
  <1>11. LegInv(l)'
    <2>1. CASE o = "spawn"
      <3>1. /\ reader'[l] = "top" /\ pacing'[l] = "recv" /\ running'[l] /\ paused'[l] = paused[l]
            /\ item'[l] = "none" /\ next'[l] = "none" /\ chan'[l] = <<>> /\ outcome'[l] = "none"
            /\ produced'[l] = 0 /\ sent'[l] = 0 /\ overrun'[l] = 0 /\ Len(chan'[l]) = 0
        BY <1>1, <1>2, <1>3, <1>4, <2>1 DEF Spawn, Unborn, CallTypes, TaskTypes
      <3>2. ~Broken(l)'
        BY <3>1 DEF Broken
      <3>3. Pipe(l)' /\ Holds(l)'
        BY <1>1, <3>1, <3>2, AvSyncAssumption DEF Pipe, Holds, One, Failures
      <3>4. InPipe(l)' = 0
        BY <3>1, <3>2 DEF InPipe, One
      <3>5. Conserved(l)'
        BY <3>1, <3>4 DEF Conserved
      <3> QED
        BY <3>3, <3>5 DEF LegInv
    <2>2. CASE o = "arm"
      <3>1. Same(l)
        BY <1>2, <1>3, <2>2 DEF Same
      <3> QED
        BY <1>1, <3>1, Frame
    <2>3. CASE o \in {"pause", "resume", "stop"}
      <3>1. /\ reader' = reader /\ pacing' = pacing
            /\ running'[l] => running[l]
            /\ Broken(l)' = Broken(l)
        BY <1>1, <1>2, <1>3, <2>3 DEF StopStreamer, CallTypes, Broken
      <3>2. Pipe(l)'
        BY <1>1, <1>2, <3>1 DEF LegInv, Pipe
      <3>3. Conserved(l)'
        <4>1. InPipe(l)' = InPipe(l)
          BY <1>2, <3>1 DEF InPipe, One
        <4> QED
          BY <1>1, <1>2, <3>1, <4>1 DEF LegInv, Conserved
      <3>4. Holds(l)'
        <4>1. CASE o = "resume"
          <5>1. overrun'[l] = 0
            BY <1>1, <1>2, <4>1 DEF TaskTypes
          <5> QED
            BY <5>1 DEF Holds, One
        <4>2. CASE o \in {"pause", "stop"}
          <5>1. overrun'[l] = overrun[l] /\ Stopped(l)'
            BY <1>1, <1>2, <1>3, <4>2 DEF Stopped, StopStreamer, CallTypes
          <5>2. overrun[l] + One(pacing[l] \in {"barrier", "send"}) <= 1
            BY <1>1 DEF LegInv, Holds, One
          <5> QED
            BY <3>1, <5>1, <5>2 DEF Holds
        <4> QED
          BY <2>3, <4>1, <4>2
      <3> QED
        BY <3>2, <3>3, <3>4 DEF LegInv
    <2> QED
      BY <1>6, <2>1, <2>2, <2>3
  <1> QED
    BY <1>7, <1>8, <1>9, <1>10, <1>11

LEMMA OperationQueue ==
    ASSUME IInv, LegOperation
    PROVE  Queue'
  <1> USE DEF IInv
  <1>1. todo # <<>> /\ todo' = Tail(todo)
    BY DEF LegOperation
  <1>2. PICK o \in Operations, l \in Legs : o = Head(todo)[1] /\ l = Head(todo)[2]
    BY <1>1, Pop
  <1>3. /\ 1 \in DOMAIN todo /\ todo[1] = <<o, l>>
        /\ \A i \in DOMAIN todo' : i \in Nat \ {0} /\ i + 1 \in DOMAIN todo /\ todo'[i] = todo[i + 1]
        /\ \A i \in DOMAIN todo : i > 1 => i - 1 \in DOMAIN todo' /\ todo'[i - 1] = todo[i]
        /\ Once(todo)' /\ NoStop(todo)'
    BY <1>1, <1>2, Pop
  <1>4. \A i \in DOMAIN todo : i \in Nat /\ todo[i] \in Operations \X Legs
    BY Entry
  <1>5. /\ UNCHANGED <<item, next, chan, produced, sent, outcome, ending>>
        /\ o = "spawn" => Spawn(l) /\ running' = [running EXCEPT ![l] = TRUE] /\ armed' = armed
        /\ o # "spawn" => UNCHANGED <<reader, pacing>>
        /\ o \in {"pause", "resume"} => UNCHANGED <<running, armed>>
        /\ o = "stop" => StopStreamer(l)
        /\ o = "arm" => armed' = armed \cup {l} /\ running' = running
        /\ overrun' = IF o = "resume" THEN [overrun EXCEPT ![l] = 0] ELSE overrun
    BY <1>2 DEF LegOperation
  <1>6. o = "arm" => running[l] /\ l \notin armed /\ l \notin ending
    BY <1>3 DEF Queue
  <1>7. o \in {"spawn", "arm", "pause", "resume", "stop"}
    BY DEF Operations
  \* Later entries are not the one that was taken, and no streamer is stopped before them.
  <1>8. ASSUME NEW i \in DOMAIN todo', todo'[i][1] \in {"spawn", "arm"}
        PROVE  o # "stop" /\ todo'[i] # <<o, l>>
    <2>1. i + 1 \in DOMAIN todo /\ 1 < i + 1 /\ todo'[i] = todo[i + 1]
      BY <1>3
    <2>2. o # "stop"
      BY <1>3, <1>8, <2>1 DEF Queue, NoStop
    <2>3. CASE o \in {"spawn", "arm"}
      BY <1>3, <2>1, <2>2, <2>3 DEF Queue, Once
    <2>4. CASE o \notin {"spawn", "arm"}
      BY <1>8, <2>2, <2>4
    <2> QED
      BY <2>2, <2>3, <2>4
  <1>9. ASSUME NEW i \in DOMAIN todo', todo'[i][1] = "spawn", NEW m \in Legs, m = todo'[i][2]
        PROVE  Unborn(m)'
    <2>1. i + 1 \in DOMAIN todo /\ todo[i + 1] = <<"spawn", m>> /\ o # "stop" /\ todo[i + 1] # <<o, l>>
      <3>1. i + 1 \in DOMAIN todo /\ todo'[i] = todo[i + 1]
        BY <1>3
      <3> QED
        BY <1>4, <1>8, <1>9, <3>1
    <2>2. Unborn(m)
      BY <2>1 DEF Queue
    <2>3. ~(o \in {"spawn", "arm"} /\ l = m)
      BY <1>6, <2>1, <2>2 DEF Unborn
    <2>4. /\ reader'[m] = reader[m] /\ pacing'[m] = pacing[m] /\ running'[m] = running[m]
          /\ m \in armed' => m \in armed
      BY <1>5, <1>7, <2>1, <2>3 DEF Spawn, Types, CallTypes, TaskTypes
    <2>5. overrun'[m] \in {0, overrun[m]}
      BY <1>5 DEF Types, TaskTypes
    <2> QED
      BY <1>5, <2>2, <2>4, <2>5 DEF Unborn
  <1>10. ASSUME NEW i \in DOMAIN todo', todo'[i][1] = "arm", NEW m \in Legs, m = todo'[i][2]
         PROVE  /\ m \notin armed' /\ m \notin ending'
                /\ running'[m] \/ \E j \in 1 .. i - 1 : todo'[j] = <<"spawn", m>>
    <2>1. i + 1 \in DOMAIN todo /\ todo[i + 1] = <<"arm", m>> /\ o # "stop" /\ todo[i + 1] # <<o, l>>
      <3>1. i + 1 \in DOMAIN todo /\ todo'[i] = todo[i + 1]
        BY <1>3
      <3> QED
        BY <1>4, <1>8, <1>10, <3>1
    <2>2. i \in Nat \ {0}
      BY <1>3
    <2>3. /\ m \notin armed /\ m \notin ending
          /\ running[m] \/ \E j \in 1 .. i : todo[j] = <<"spawn", m>>
      <3>1. (i + 1) - 1 = i
        BY <2>2
      <3> QED
        BY <2>1, <3>1 DEF Queue
    <2>4. m \notin armed' /\ m \notin ending'
      BY <1>5, <1>7, <2>1, <2>3
    <2>5. CASE running[m]
      BY <1>5, <1>7, <2>1, <2>4, <2>5 DEF Types, CallTypes
    <2>6. CASE \E j \in 1 .. i : todo[j] = <<"spawn", m>>
      <3>1. PICK j \in 1 .. i : todo[j] = <<"spawn", m>>
        BY <2>6
      <3>2. CASE j = 1
        BY <1>3, <1>5, <2>4, <3>1, <3>2 DEF Types, CallTypes
      <3>3. CASE j > 1
        <4>1. j \in DOMAIN todo
          BY <2>1, <2>2, Entry
        <4>2. j - 1 \in 1 .. i - 1 /\ todo'[j - 1] = <<"spawn", m>>
          BY <1>3, <2>2, <3>1, <3>3, <4>1
        <4> QED
          BY <2>4, <4>2
      <3> QED
        BY <2>2, <3>2, <3>3
    <2> QED
      BY <2>3, <2>4, <2>5, <2>6
  <1>11. \A i \in DOMAIN todo' : todo'[i][2] \in Legs
    BY <1>3, <1>4
  <1>12. (\A i \in DOMAIN todo : todo[i][1] = "spawn" => Unborn(todo[i][2]))'
    BY <1>9, <1>11 DEF Unborn
  <1>13. \A i \in DOMAIN todo' :
            todo'[i][1] = "arm" =>
                /\ todo'[i][2] \notin armed' /\ todo'[i][2] \notin ending'
                /\ running'[todo'[i][2]] \/ \E j \in 1 .. i - 1 : todo'[j] = <<"spawn", todo'[i][2]>>
    BY <1>10, <1>11
  <1> QED
    BY <1>3, <1>12, <1>13 DEF Queue

----------------------------------------------------------------------------
(* The theorems *)

\* The inductive invariant holds in every reachable state, for every source, capacity, number of
\* samples and set of faults.
THEOREM Invariance == Spec => []IInv
  <1>1. ASSUME IInv, [Next]_vars PROVE IInv'
    <2>1. CASE \E l \in Legs : ReaderStep(l) \/ PacingStep(l)
      BY <1>1, <2>1, TaskStep
    <2>2. CASE \E c \in Commands : Command(c)
      BY <1>1, <2>2, CommandStep
    <2>3. CASE LegOperation
      <3>1. Types' /\ Callbacks' /\ Together' /\ \A m \in Legs : LegInv(m)'
        BY <1>1, <2>3, OperationLeg
      <3>2. Queue'
        BY <1>1, <2>3, OperationQueue
      <3> QED
        BY <3>1, <3>2 DEF IInv
    <2>4. CASE CloseTransport \/ UNCHANGED vars
      BY <1>1, <2>4, CloseStep
    <2> QED
      BY <1>1, <2>1, <2>2, <2>3, <2>4 DEF Next
  <1> QED
    BY <1>1, InitInv, PTL DEF Spec

\* Every variable has its type; the channel never holds more than its capacity, no leg sends more
\* than was read, and recv answers None only to a streamer that was stopped.
THEOREM TypeCorrectness == Spec => []TypeOK
  <1>1. ASSUME IInv PROVE TypeOK
    <2> USE <1>1 DEF IInv, Types
    <2>1. ASSUME NEW l \in Legs
          PROVE  /\ produced[l] \in 0 .. Samples[l] /\ sent[l] \in 0 .. produced[l]
                 /\ Len(chan[l]) <= Cap /\ \A i \in DOMAIN chan[l] : chan[l][i] \in Items
                 /\ pacing[l] = "top" /\ next[l] = "none" => ~running[l]
      <3>1. /\ produced[l] <= Samples[l] /\ Len(chan[l]) <= Cap /\ sent[l] <= produced[l]
            /\ pacing[l] = "top" /\ next[l] = "none" => ~running[l]
        BY DEF LegInv, Pipe, Conserved
      <3>2. produced[l] \in Nat /\ sent[l] \in Nat /\ Samples[l] \in Nat
        BY AvSyncAssumption DEF TaskTypes
      <3> QED
        BY <3>1, <3>2, Channel
    <2>2. waiting \subseteq Legs
      BY DEF TaskTypes
    <2> QED
      BY <2>1, <2>2 DEF TypeOK, CallTypes, TaskTypes
  <1> QED
    BY <1>1, Invariance, PTL

\* The legs of an A/V source start together, whichever is spawned, paused, stopped or fails first:
\* none has sent before the other was at the barrier with a sample in hand.
THEOREM LegsStartTogether == Spec => []StartTogether
  <1>1. ASSUME IInv PROVE StartTogether
    <2> SUFFICES ASSUME HasBarrier, NEW l \in Legs, NEW m \in Legs, sent[l] > 0
                 PROVE  sent[m] > 0 \/ pacing[m] = "send" \/ outcome[m] = "transport"
      BY DEF StartTogether
    <2>1. ~NotYet(l)
      BY DEF NotYet
    <2>2. Met(m)
      BY <1>1, <2>1 DEF IInv, Together
    <2> QED
      BY <2>2 DEF Met
  <1> QED
    BY <1>1, Invariance, PTL

\* A paused or stopped leg sends the one sample it had in hand and no other, also when it held it
\* at the barrier, and however often it is paused and resumed.
THEOREM HoldsBite == Spec => []HoldBites
  <1>1. ASSUME IInv PROVE HoldBites
    <2> SUFFICES ASSUME NEW l \in Legs PROVE overrun[l] <= 1
      BY DEF HoldBites
    <2>1. overrun[l] \in Nat /\ Holds(l)
      BY <1>1 DEF IInv, Types, TaskTypes, LegInv
    <2> QED
      BY <2>1 DEF Holds, One
  <1> QED
    BY <1>1, Invariance, PTL

\* A leg that ends by end of file has sent its whole container: nothing is lost between the
\* reader, the channel, the sample in hand and the transport.
THEOREM NothingIsSkipped == Spec => []NothingSkipped
  <1>1. IInv => NothingSkipped
    BY DEF IInv, LegInv, Conserved, NothingSkipped
  <1> QED
    BY <1>1, Invariance, PTL

----------------------------------------------------------------------------
(* The refinement *)

LEMMA LifeStep ==
    ASSUME IInv, [Next]_vars
    PROVE  [Life!Next]_(Life!vars)
  <1> USE DEF IInv, Types, Life!vars
  <1>1. ASSUME NEW l \in Legs, ReaderStep(l) PROVE UNCHANGED Life!vars
    BY <1>1 DEF ReaderStep, ReaderTop, Read, ReaderSend, streamer, pacingVars
  <1>2. ASSUME NEW l \in Legs, Receive(l) \/ NoticePause(l) \/ TakeSample(l) PROVE UNCHANGED Life!vars
    <2>1. UNCHANGED <<running, armed, ending, reported>>
      BY <1>2 DEF Receive, NoticePause, TakeSample, streamer
    <2>2. \A m \in Legs : pacing'[m] # "done" <=> pacing[m] # "done"
      <3>1. CASE Receive(l)
        BY <3>1 DEF Receive, TaskTypes
      <3>2. CASE NoticePause(l)
        BY <3>2 DEF NoticePause
      <3>3. CASE TakeSample(l)
        <4>1. pacing[l] = "top" /\ pacing'[l] \in {"send", "barrier"}
          BY <3>3 DEF TakeSample, TaskTypes
        <4>2. \A m \in Legs \ {l} :
                 pacing'[m] = pacing[m] \/ (pacing[m] = "barrier" /\ pacing'[m] = "send")
          BY <3>3, TakeStep DEF Same
        <4> QED
          BY <4>1, <4>2
      <3> QED
        BY <1>2, <3>1, <3>2, <3>3
    <2> QED
      BY <2>1, <2>2
  <1>3. ASSUME NEW l \in Legs, NEW how, Finish(l, how), pacing[l] # "done",
               UNCHANGED <<running, reported>>
        PROVE  Life!End
    <2>1. \A m \in Legs : pacing'[m] = IF m = l THEN "done" ELSE pacing[m]
      BY <1>3 DEF Finish, TaskTypes
    <2>2. {m \in Legs : pacing'[m] # "done"} = {m \in Legs : pacing[m] # "done"} \ {l}
      BY <2>1
    <2>3. l \in {m \in Legs : pacing[m] # "done"}
      BY <1>3
    <2> QED
      BY <1>3, <2>2, <2>3 DEF Finish, Life!End
  <1>4. ASSUME NEW l \in Legs, EndOfLoop(l) PROVE Life!End
    <2>1. PICK how : Finish(l, how)
      BY <1>4 DEF EndOfLoop
    <2>2. pacing[l] # "done" /\ UNCHANGED <<running, reported>>
      BY <1>4 DEF EndOfLoop
    <2> QED
      BY <1>3, <2>1, <2>2
  <1>5. ASSUME NEW l \in Legs, Send(l) PROVE Life!End \/ UNCHANGED Life!vars
    <2>1. pacing[l] = "send" /\ UNCHANGED <<running, reported>>
      BY <1>5 DEF Send
    <2>2. CASE transport_closed
      <3>1. Finish(l, "transport")
        BY <1>5, <2>2 DEF Send
      <3> QED
        BY <1>3, <2>1, <3>1
    <2>3. CASE ~transport_closed
      <3>1. UNCHANGED <<armed, ending>> /\ pacing' = [pacing EXCEPT ![l] = "recv"]
        BY <1>5, <2>3 DEF Send
      <3>2. \A m \in Legs : pacing'[m] # "done" <=> pacing[m] # "done"
        BY <2>1, <3>1 DEF TaskTypes
      <3> QED
        BY <2>1, <3>1, <3>2
    <2> QED
      BY <2>2, <2>3
  <1>6. ASSUME NEW l \in Legs, ReportEnd(l) PROVE Life!Report
    BY <1>6 DEF ReportEnd, streamer, Life!Report
  <1>7. CASE (\E c \in Commands : Command(c)) \/ CloseTransport \/ UNCHANGED vars
    BY <1>7 DEF Command, CloseTransport, vars, streamer, pacingVars
  <1>8. CASE LegOperation
    <2>1. PICK o \in Operations, l \in Legs : o = Head(todo)[1] /\ l = Head(todo)[2]
      BY <1>8, Pop DEF LegOperation
    <2>2. 1 \in DOMAIN todo /\ todo[1] = <<o, l>>
      BY <1>8, <2>1, Pop DEF LegOperation
    <2>3. UNCHANGED <<ending, reported>>
      BY <1>8 DEF LegOperation
    <2>4. CASE o = "spawn"
      <3>1. Unborn(l)
        BY <2>2, <2>4 DEF Queue
      <3>2. armed' = armed /\ Spawn(l) /\ running' = [running EXCEPT ![l] = TRUE]
        BY <1>8, <2>1, <2>4 DEF LegOperation
      <3>3. \A m \in Legs : /\ pacing'[m] # "done" <=> pacing[m] # "done" \/ m = l
                            /\ running'[m] <=> running[m] \/ m = l
        BY <3>2 DEF Spawn, CallTypes, TaskTypes
      <3>4. /\ {m \in Legs : pacing'[m] # "done"} = {m \in Legs : pacing[m] # "done"} \cup {l}
            /\ {m \in Legs : running'[m]} = {m \in Legs : running[m]} \cup {l}
            /\ l \notin {m \in Legs : pacing[m] # "done"}
        BY <3>1, <3>3 DEF Unborn
      <3> QED
        BY <2>3, <3>1, <3>2, <3>4 DEF Unborn, Life!Next, Life!Start
    <2>5. CASE o = "arm"
      <3>1. l \notin armed /\ l \notin ending /\ l \in {m \in Legs : running[m]}
        BY <2>2, <2>5 DEF Queue
      <3>2. armed' = armed \cup {l} /\ UNCHANGED <<running, pacing>>
        BY <1>8, <2>1, <2>5 DEF LegOperation
      <3> QED
        BY <2>3, <3>1, <3>2 DEF Life!Next, Life!Arm
    <2>6. CASE o = "stop"
      <3>1. UNCHANGED pacing /\ armed' = armed \ {l} /\ running' = [running EXCEPT ![l] = FALSE]
        BY <1>8, <2>1, <2>6 DEF LegOperation, StopStreamer
      <3>2. \A m \in Legs : running'[m] <=> running[m] /\ m # l
        BY <3>1 DEF CallTypes
      <3>3. {m \in Legs : running'[m]} = {m \in Legs : running[m]} \ {l}
        BY <3>2
      <3>4. armed' = armed \cap ({m \in Legs : running[m]} \ {l})
        BY <3>1 DEF Callbacks, CallTypes
      <3> QED
        BY <2>3, <3>1, <3>3, <3>4 DEF Life!Next, Life!Stop
    <2>7. CASE o \in {"pause", "resume"}
      <3>1. UNCHANGED <<running, armed, pacing>>
        BY <1>8, <2>1, <2>7 DEF LegOperation
      <3> QED
        BY <2>3, <3>1
    <2> QED
      BY <2>4, <2>5, <2>6, <2>7 DEF Operations
  <1> QED
    BY <1>1, <1>2, <1>4, <1>5, <1>6, <1>7, <1>8 DEF Next, PacingStep, Life!Next

\* The legs of a source are streamers as the call sees them: callbacks only of streamers that run,
\* none left by a stop, and each end told at most once.
THEOREM LegsAreStreamers == Spec => ImplementsLife
  <1>1. Init => Life!Init
    BY DEF Init, Life!Init
  <1> QED
    BY <1>1, LifeStep, Invariance, PTL DEF Spec, ImplementsLife, Life!Spec

=============================================================================
