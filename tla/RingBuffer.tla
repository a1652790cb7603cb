----------------------------- MODULE RingBuffer -----------------------------
(***************************************************************************)
(* The byte ring that keeps the tail of a stream (utils/ringbuf.rs):       *)
(* ffmpeg's stderr is written into it chunk by chunk, and snapshot returns *)
(* the last bytes in order.  The ring is behind one mutex, so every write  *)
(* is one step.  Everything that was ever written is kept in tape.         *)
(***************************************************************************)
EXTENDS Integers, Sequences

CONSTANTS Cap,    \* the capacity; new makes it 4096 when it is asked for 0
          Bytes

VARIABLES buf, head, full,   \* the fields of Inner
          tape               \* what was written so far

ringVars == <<buf, head, full, tape>>

Places == 0 .. Cap - 1

RingInit ==
    /\ buf \in [Places -> Bytes]   \* zeros, which nothing ever returns
    /\ head = 0
    /\ full = FALSE
    /\ tape = <<>>

\* A chunk of at least Cap bytes leaves only its own tail.
WriteLong(p) ==
    /\ Len(p) >= Cap
    /\ buf' = [i \in Places |-> p[Len(p) - Cap + 1 + i]]
    /\ head' = 0
    /\ full' = TRUE

\* (seeded fault) a ring is full only when a write ends exactly at its end.
EndsAtEnd(n) == head' = 0

\* The write went past the end, or to it.
Wraps(n) == head' < n

\* A shorter one is copied from head on, and its rest to the beginning.  The sum of head and
\* length is less than twice the capacity, which is what % does here.
WriteShort(p) ==
    /\ 0 < Len(p) /\ Len(p) < Cap
    /\ buf' = [i \in Places |->
                  IF head <= i /\ i < head + Len(p) THEN p[i - head + 1]
                  ELSE IF i < head + Len(p) - Cap THEN p[Cap - head + 1 + i]
                  ELSE buf[i]]
    /\ head' = IF head + Len(p) < Cap THEN head + Len(p) ELSE head + Len(p) - Cap
    /\ full' = (full \/ Wraps(Len(p)))

Write(p) ==
    /\ WriteLong(p) \/ WriteShort(p)
    /\ tape' = tape \o p

RingNext == \E p \in Seq(Bytes) : Write(p)

RingSpec == RingInit /\ [][RingNext]_ringVars

\* The bytes from head on, then those before it; or those before it only.
Snapshot ==
    IF full
    THEN [i \in 1 .. Cap |-> IF i <= Cap - head THEN buf[head + i - 1] ELSE buf[i - (Cap - head) - 1]]
    ELSE [i \in 1 .. head |-> buf[i - 1]]

\* How many bytes the tail has, and the tail.
Kept == IF Len(tape) < Cap THEN Len(tape) ELSE Cap
LastBytes == [i \in 1 .. Kept |-> tape[Len(tape) - Kept + i]]

\* snapshot returns the last Cap bytes that were written, or all of them, in order, however
\* the chunks were cut and wherever they wrapped.
SnapshotIsTail == Snapshot = LastBytes

RingTypeOK ==
    /\ buf \in [Places -> Bytes]
    /\ head \in Places
    /\ full \in BOOLEAN
    /\ tape \in Seq(Bytes)

\* The byte in place i is the Age(i)-th from the end of the tape.
Age(i) == IF i < head THEN head - 1 - i ELSE head - 1 - i + Cap

\* Where each byte of the tape is: the strengthening that makes SnapshotIsTail inductive.
Placed ==
    /\ full => Len(tape) >= Cap /\ \A i \in Places : buf[i] = tape[Len(tape) - Age(i)]
    /\ ~full => Len(tape) = head /\ \A i \in 0 .. head - 1 : buf[i] = tape[i + 1]
=============================================================================
