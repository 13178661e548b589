----------------------------- MODULE RingBuffer -----------------------------
(***************************************************************************)
(* klib::RingBuffer (klib/ring_buffer.hpp): a fixed array with two indices *)
(* that only grow and are reduced modulo the size when a slot is touched.  *)
(* The indices are machine words: they wrap at Word, and the number of     *)
(* elements is their difference modulo Word.                               *)
(***************************************************************************)
EXTENDS Integers, Sequences

CONSTANTS Size,     \* number of slots
          Word,     \* the indices are integers modulo Word (2^64 in the code)
          Values,   \* element values
          MaxCount  \* largest count passed to an operation

\* Every buffer but the stream socket's (208 KiB) has a power of two as its
\* size; such a size divides the word.
ASSUME SizeAssumption == Size \in Nat \ {0} /\ Word \in Nat \ {0}
ASSUME WordAssumption == Word % Size = 0 /\ Size < Word
ASSUME CountAssumption == MaxCount \in Nat

VARIABLES read_index, write_index,
          data,     \* the slots
          out       \* what the last read or peek copied to its caller

vars == <<read_index, write_index, data, out>>

Slots == 0 .. Size - 1
Buffers == UNION {[1 .. n -> Values] : n \in 0 .. MaxCount}

data_count == (write_index - read_index) % Word
free_count == Size - data_count
is_empty == data_count = 0
is_full == data_count = Size

Smaller(a, b) == IF a <= b THEN a ELSE b

\* Mutant: the second copy of read() starts one slot late.
CopyOut_late(n) ==
    LET offset == read_index % Size
        first == Smaller(n, Size - offset)
    IN  [i \in 1 .. n |-> IF i <= first THEN data[offset + i - 1]
                                        ELSE data[(i - first) % Size]]

\* The two copies of read(): from the slot of read_index to the end of the
\* array, then from slot 0.
CopyOut(n) ==
    LET offset == read_index % Size
        first == Smaller(n, Size - offset)
    IN  [i \in 1 .. n |-> IF i <= first THEN data[offset + i - 1]
                                        ELSE data[i - first - 1]]

\* The two copies of write().
CopyIn(buf, n, from) ==
    LET offset == from % Size
        first == Smaller(n, Size - offset)
    IN  [s \in Slots |->
            IF s >= offset /\ s < offset + first THEN buf[s - offset + 1]
            ELSE IF s < n - first THEN buf[first + s + 1]
            ELSE data[s]]

Init ==
    /\ read_index = 0 /\ write_index = 0
    /\ data \in [Slots -> Values]
    /\ out = <<>>

read(count) ==
    LET n == Smaller(count, data_count)
    IN  /\ out' = CopyOut(n)
        /\ read_index' = (read_index + n) % Word
        /\ UNCHANGED <<write_index, data>>

write(buf) ==
    LET n == Smaller(Len(buf), free_count)
    IN  /\ data' = CopyIn(buf, n, write_index)
        /\ write_index' = (write_index + n) % Word
        /\ UNCHANGED <<read_index, out>>

truncate(count) ==
    /\ read_index' = (read_index + Smaller(count, data_count)) % Word
    /\ UNCHANGED <<write_index, data, out>>

\* Drops the oldest elements when buf does not fit, then writes: the write
\* sees the indices the truncation left.
write_truncate(buf) ==
    LET dropped == IF free_count < Len(buf)
                   THEN Smaller(Len(buf), data_count) ELSE 0
        n == Smaller(Len(buf), free_count + dropped)
    IN  /\ read_index' = (read_index + dropped) % Word
        /\ data' = CopyIn(buf, n, write_index)
        /\ write_index' = (write_index + n) % Word
        /\ UNCHANGED out

peek ==
    /\ out' = IF is_empty THEN <<>> ELSE <<data[read_index % Size]>>
    /\ UNCHANGED <<read_index, write_index, data>>

Next ==
    \/ \E count \in 0 .. MaxCount : read(count)
    \/ \E count \in 0 .. MaxCount : truncate(count)
    \/ \E buf \in Buffers : write(buf)
    \/ \E buf \in Buffers : write_truncate(buf)
    \/ peek

Spec == Init /\ [][Next]_vars
-----------------------------------------------------------------------------
TypeOK ==
    /\ read_index \in 0 .. Word - 1
    /\ write_index \in 0 .. Word - 1
    /\ data \in [Slots -> Values]

\* The buffer never holds more than Size elements: the unread elements are in
\* distinct slots and no write overwrites one that was not read or dropped.
NeverOverfull == data_count <= Size

\* The elements between the two indices, oldest first.
Contents == [i \in 1 .. data_count |-> data[(read_index + i - 1) % Size]]

\* The ring buffer implements a bounded queue: elements come out once, in the
\* order they went in, across the wrap of the array and of the indices.
Queue == INSTANCE Fifo WITH queue <- Contents, returned <- out

ImplementsFifo == Queue!Spec /\ [](TypeOK /\ NeverOverfull)

=============================================================================
