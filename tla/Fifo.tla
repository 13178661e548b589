-------------------------------- MODULE Fifo --------------------------------
(***************************************************************************)
(* What klib::RingBuffer promises its users (pipes, terminals, sockets,    *)
(* input devices): a queue of at most Size elements.  A write appends as   *)
(* much of its input as fits, a read removes from the front, a truncating  *)
(* write first drops the oldest elements.                                  *)
(***************************************************************************)
EXTENDS Naturals, Sequences

CONSTANTS Size,     \* capacity of the queue
          Buffers,  \* what one write may be given: a set of sequences
          MaxCount  \* largest count passed to an operation

VARIABLES queue,    \* the elements, oldest first
          returned  \* the elements the last read handed out

vars == <<queue, returned>>

Least(a, b) == IF a <= b THEN a ELSE b

Init == queue = <<>> /\ returned = <<>>

\* Remove up to count elements and hand them to the reader.
Read(count) ==
    LET n == Least(count, Len(queue))
    IN  /\ returned' = SubSeq(queue, 1, n)
        /\ queue' = SubSeq(queue, n + 1, Len(queue))

\* Append the part of buf that fits.
Put(q, buf) == q \o SubSeq(buf, 1, Least(Len(buf), Size - Len(q)))

Write(buf) ==
    /\ queue' = Put(queue, buf)
    /\ UNCHANGED returned

\* Drop up to count of the oldest elements of q.
Drop(q, count) == SubSeq(q, Least(count, Len(q)) + 1, Len(q))

Truncate(count) ==
    /\ queue' = Drop(queue, count)
    /\ UNCHANGED returned

WriteTruncate(buf) ==
    /\ queue' = Put(IF Size - Len(queue) < Len(buf)
                    THEN Drop(queue, Len(buf)) ELSE queue, buf)
    /\ UNCHANGED returned

Peek ==
    /\ returned' = SubSeq(queue, 1, Least(1, Len(queue)))
    /\ UNCHANGED queue

Next ==
    \/ \E count \in 0 .. MaxCount : Read(count) \/ Truncate(count)
    \/ \E buf \in Buffers : Write(buf) \/ WriteTruncate(buf)
    \/ Peek

Spec == Init /\ [][Next]_vars
=============================================================================
