--------------------------- MODULE StructureProofs --------------------------
(***************************************************************************)
(* klib::RingBuffer implements the bounded queue of module Fifo, for every *)
(* size that divides the machine word, every set of elements and every     *)
(* length of a call.                                                       *)
(*                                                                         *)
(* Then timers and futexes, for every set of threads and every duration    *)
(* that is a valid TimeSpec: a timer ends at its time, none is left on a   *)
(* stack that is gone, and a futex wakes its sleepers in their order.      *)
(*                                                                         *)
(* Then the xHCI driver, for every size of its rings and of its pool of    *)
(* requests, every layout of the ports and every set of configurations.    *)
(*                                                                         *)
(* Then the page allocator, for every memory map and every run of pages.   *)
(***************************************************************************)
EXTENDS RingBuffer, Timer, Pmm, Xhci, ListLemmas, SequenceTheorems, FiniteSetTheorems, TLAPS

\* Moving an index forward by at most a whole turn.
LEMMA AddMod ==
    ASSUME NEW a \in Int, NEW m \in Nat \ {0}, NEW b \in 0 .. m
    PROVE  (a + b) % m = IF (a % m) + b < m THEN (a % m) + b ELSE (a % m) + b - m
  <1> DEFINE q == a \div m
             r == a % m
  <1>1. r \in 0 .. m - 1 /\ q \in Int /\ a = q * m + r
    BY Division
  <1> HIDE DEF q, r
  <1>2. CASE r + b < m
    <2>1. a + b = q * m + (r + b) /\ r + b \in 0 .. m - 1
      BY <1>1, <1>2
    <2>2. (a + b) % m = r + b
      <3> DEFINE s == r + b
                 x == a + b
      <3>1. s \in 0 .. m - 1 /\ x \in Int /\ x = q * m + s
        BY <2>1
      <3> HIDE DEF s, x
      <3>2. x % m = s
        BY <3>1, <1>1, Remainder
      <3> QED BY <3>2 DEF s, x
    <2> QED BY <2>2, <1>2 DEF r
  <1>3. CASE ~(r + b < m)
    <2> DEFINE s == r + b - m
               x == a + b
               p == q + 1
    <2>1. p \in Int /\ s \in 0 .. m - 1 /\ x \in Int
      BY <1>1, <1>3
    <2>2. p * m = q * m + m
      BY <1>1
    <2>3. x = p * m + s
      <3>1. q * m \in Int
        BY <1>1
      <3> QED BY <1>1, <2>2, <3>1
    <2> HIDE DEF s, x, p
    <2>4. x % m = s
      BY <2>1, <2>3, Remainder
    <2> QED BY <2>4, <1>3 DEF s, x, r
  <1> QED BY <1>2, <1>3

\* Reducing by a multiple of the modulus first changes nothing: an index that
\* wrapped at Word is in the slot it would be in had it not wrapped.
LEMMA ModAdd ==
    ASSUME NEW a \in Int, NEW i \in Int
    PROVE  ((a % Word) + i) % Size = (a + i) % Size
  <1> DEFINE r == a % Word
             q == a \div Word
             k == Word \div Size
             b == r + i
             s == b % Size
             p == b \div Size
             c == a + i
  <1>1. r \in 0 .. Word - 1 /\ q \in Int /\ a = q * Word + r
    BY Division, SizeAssumption
  <1>2. k \in Int /\ Word = k * Size
    <2>1. k \in Int /\ Word = k * Size + (Word % Size)
      BY Division, SizeAssumption
    <2> HIDE DEF k
    <2>2. k * Size \in Int
      BY <2>1, SizeAssumption
    <2> QED BY <2>1, <2>2, WordAssumption
  <1>3. b \in Int /\ c \in Int
    BY <1>1, SizeAssumption
  <1>4. s \in 0 .. Size - 1 /\ p \in Int /\ b = p * Size + s
    <2> HIDE DEF b
    <2> QED BY <1>3, Division, SizeAssumption
  <1>5. c = q * Word + b
    <2> HIDE DEF r, q
    <2>1. q * Word \in Int
      BY <1>1, SizeAssumption
    <2> QED BY <1>1, <2>1, SizeAssumption
  <1> HIDE DEF r, q, k, s, p, b, c
  <1> DEFINE u == q * k + p
  <1>6. u \in Int /\ c = u * Size + s
    <2>1. q * Word = (q * k) * Size
      BY <1>1, <1>2, SizeAssumption
    <2>2. q * k \in Int
      BY <1>1, <1>2
    <2>3. (q * k + p) * Size = (q * k) * Size + p * Size
      BY <2>2, <1>4, SizeAssumption
    <2> QED BY <1>4, <1>5, <2>1, <2>2, <2>3, SizeAssumption
  <1> HIDE DEF u
  <1>7. c % Size = s
    BY <1>3, <1>4, <1>6, Remainder, SizeAssumption
  <1> QED BY <1>7 DEF s, b, c, r
-----------------------------------------------------------------------------
\* The slot of the element k places after index.
Slot(index, k) == (index + k) % Size

\* Slots wrap at Size, whatever the index.
LEMMA SlotWrap ==
    ASSUME NEW index \in Int, NEW k \in 0 .. Size
    PROVE  /\ index % Size \in Slots
           /\ Slot(index, k) = IF (index % Size) + k < Size THEN (index % Size) + k
                               ELSE (index % Size) + k - Size
           /\ Slot(index, k) \in Slots
  <1>1. index % Size \in 0 .. Size - 1
    BY Division, SizeAssumption
  <1>2. (index + k) % Size = IF (index % Size) + k < Size THEN (index % Size) + k
                             ELSE (index % Size) + k - Size
    BY AddMod, SizeAssumption
  <1> QED
    BY <1>1, <1>2, SizeAssumption DEF Slot, Slots

\* A whole turn leads back to the same slot.
LEMMA WholeTurn ==
    ASSUME NEW a \in Int
    PROVE  (a + Size) % Size = a % Size
  <1>1. Size \in 0 .. Size
    BY SizeAssumption
  <1>2. a % Size \in 0 .. Size - 1
    BY Division, SizeAssumption
  <1>3. (a + Size) % Size = IF (a % Size) + Size < Size THEN (a % Size) + Size
                            ELSE (a % Size) + Size - Size
    BY <1>1, AddMod, SizeAssumption
  <1> QED BY <1>2, <1>3, SizeAssumption

\* An index that is advanced by n and reduced modulo Word.
LEMMA SlotAdvance ==
    ASSUME NEW index \in Int, NEW n \in Int, NEW k \in Int
    PROVE  Slot((index + n) % Word, k) = Slot(index, n + k)
  <1> DEFINE a == index + n
  <1>1. a \in Int
    OBVIOUS
  <1>2. ((a % Word) + k) % Size = (a + k) % Size
    <2> HIDE DEF a
    <2> QED BY <1>1, ModAdd
  <1>3. a + k = index + (n + k)
    OBVIOUS
  <1> QED
    BY <1>2, <1>3 DEF Slot

\* write_index is data_count places after read_index.
LEMMA WriteIndex ==
    ASSUME TypeOK, NeverOverfull
    PROVE  /\ data_count \in 0 .. Size
           /\ (read_index + data_count) % Word = write_index
  <1> DEFINE d == write_index - read_index
             c == d % Word
  <1>1. d \in Int /\ read_index \in 0 .. Word - 1 /\ write_index \in 0 .. Word - 1
    BY SizeAssumption DEF TypeOK
  <1>2. c \in 0 .. Word - 1
    <2> HIDE DEF d
    <2> QED BY <1>1, Division, SizeAssumption
  <1>3. c = IF d >= 0 THEN d ELSE d + Word
    <2>1. CASE d >= 0
      <3>1. d \in 0 .. Word - 1 /\ d = 0 * Word + d
        BY <1>1, <2>1, SizeAssumption
      <3> HIDE DEF d
      <3>2. d % Word = d
        BY <3>1, <1>1, Remainder, SizeAssumption
      <3> QED BY <3>2, <2>1
    <2>2. CASE ~(d >= 0)
      <3> DEFINE e == d + Word
      <3>1. e \in 0 .. Word - 1 /\ d = (-1) * Word + e
        BY <1>1, <2>2, SizeAssumption
      <3> HIDE DEF d, e
      <3>2. d % Word = e
        BY <3>1, <1>1, Remainder, SizeAssumption
      <3> QED BY <3>2, <2>2 DEF e
    <2> QED BY <2>1, <2>2
  <1>4. c <= Size /\ data_count = c
    BY DEF NeverOverfull, data_count
  <1>5. (read_index + c) % Word = write_index
    <2> HIDE DEF c
    <2>1. read_index % Word = read_index
      <3>1. read_index = 0 * Word + read_index
        BY <1>1, SizeAssumption
      <3> QED BY <3>1, <1>1, Remainder, SizeAssumption
    <2>2. (read_index + c) % Word = IF (read_index % Word) + c < Word
                       THEN (read_index % Word) + c ELSE (read_index % Word) + c - Word
      <3>1. c \in 0 .. Word /\ read_index \in Int
        BY <1>1, <1>2, SizeAssumption
      <3> QED BY <3>1, AddMod, SizeAssumption
    <2> QED BY <1>1, <1>2, <1>3, <2>1, <2>2, SizeAssumption
  <1> QED
    BY <1>2, <1>4, <1>5, SizeAssumption

\* How many elements there are after d were dropped and n were added.
LEMMA CountAdvance ==
    ASSUME TypeOK, NeverOverfull,
           NEW d \in 0 .. data_count, NEW n \in 0 .. Size - (data_count - d)
    PROVE  /\ (read_index + d) % Word \in 0 .. Word - 1
           /\ (write_index + n) % Word \in 0 .. Word - 1
           /\ (((write_index + n) % Word) - ((read_index + d) % Word)) % Word
                 = data_count - d + n
  <1> DEFINE c == data_count
             r == (read_index + d) % Word
             w == (write_index + n) % Word
             e == c - d + n
             x == w - r
  <1>1. c \in 0 .. Size /\ (read_index + c) % Word = write_index
    BY WriteIndex
  <1>2. read_index \in 0 .. Word - 1 /\ write_index \in 0 .. Word - 1
    BY SizeAssumption DEF TypeOK
  <1> HIDE DEF c
  <1>3. d \in 0 .. c /\ n \in 0 .. Size - (c - d) /\ d \in 0 .. Word /\ n \in 0 .. Word
    BY <1>1, SizeAssumption, WordAssumption DEF c
  <1>4. \A a \in 0 .. Word - 1, b \in 0 .. Word :
            (a + b) % Word = IF a + b < Word THEN a + b ELSE a + b - Word
    <2> TAKE a \in 0 .. Word - 1, b \in 0 .. Word
    <2>0. a \in Int
      BY SizeAssumption
    <2>1. a % Word = a
      <3>1. a = 0 * Word + a
        BY <2>0, SizeAssumption
      <3> QED BY <2>0, <3>1, Remainder, SizeAssumption
    <2> QED BY <2>0, <2>1, AddMod, SizeAssumption
  <1>5. r = IF read_index + d < Word THEN read_index + d ELSE read_index + d - Word
    BY <1>2, <1>3, <1>4
  <1>6. w = IF write_index + n < Word THEN write_index + n ELSE write_index + n - Word
    BY <1>2, <1>3, <1>4
  <1>7. write_index = IF read_index + c < Word THEN read_index + c ELSE read_index + c - Word
    <2>1. c \in 0 .. Word
      BY <1>1, SizeAssumption, WordAssumption
    <2> QED BY <1>1, <1>2, <1>4, <2>1
  <1> HIDE DEF r, w
  <1>8. r \in 0 .. Word - 1 /\ w \in 0 .. Word - 1 /\ e \in 0 .. Word - 1 /\ x \in Int
    BY <1>1, <1>2, <1>3, <1>5, <1>6, SizeAssumption, WordAssumption
  <1>9. x = e \/ x = e - Word \/ x = e + Word
    BY <1>1, <1>2, <1>3, <1>5, <1>6, <1>7, SizeAssumption, WordAssumption
  <1>10. x = 0 * Word + e \/ x = (-1) * Word + e
    BY <1>8, <1>9, SizeAssumption
  <1> HIDE DEF e, x
  <1>11. x % Word = e
    BY <1>8, <1>10, Remainder, SizeAssumption
  <1> QED
    BY <1>8, <1>11 DEF x, e, r, w, c

\* The two copies of read() hand out the elements at read_index and after it,
\* in order.
LEMMA CopyOutSlots ==
    ASSUME TypeOK, NEW n \in 0 .. Size
    PROVE  CopyOut(n) = [i \in 1 .. n |-> data[Slot(read_index, i - 1)]]
  <1> DEFINE offset == read_index % Size
             first == Smaller(n, Size - offset)
  <1>1. read_index \in Int
    BY SizeAssumption DEF TypeOK
  <1>2. offset \in Slots
    BY <1>1, SlotWrap, SizeAssumption
  <1>3. ASSUME NEW i \in 1 .. n
        PROVE  (IF i <= first THEN offset + i - 1 ELSE i - first - 1) = Slot(read_index, i - 1)
    <2> DEFINE k == i - 1
    <2>1. k \in 0 .. Size
      BY SizeAssumption
    <2>2. Slot(read_index, k) = IF offset + k < Size THEN offset + k ELSE offset + k - Size
      <3> HIDE DEF k
      <3> QED BY <1>1, <2>1, SlotWrap
    <2> HIDE DEF offset
    <2> QED
      BY <1>2, <2>2, SizeAssumption DEF Slots, Smaller
  <1> QED
    BY <1>3 DEF CopyOut

\* The two copies of write() put buf at the index from and after it, in order,
\* and leave the other slots as they were.
LEMMA CopyInSlots ==
    ASSUME TypeOK, NEW from \in Int, NEW n \in 0 .. Size,
           NEW buf, NEW k \in 0 .. Size - 1
    PROVE  CopyIn(buf, n, from)[Slot(from, k)]
              = IF k < n THEN buf[k + 1] ELSE data[Slot(from, k)]
  <1> DEFINE offset == from % Size
             first == Smaller(n, Size - offset)
             s == Slot(from, k)
  <1>1. /\ offset \in Slots
        /\ s = IF offset + k < Size THEN offset + k ELSE offset + k - Size
        /\ s \in Slots
    <2>1. k \in 0 .. Size
      BY SizeAssumption
    <2> QED BY <2>1, SlotWrap
  <1>2. CopyIn(buf, n, from)[s] =
            IF s >= offset /\ s < offset + first THEN buf[s - offset + 1]
            ELSE IF s < n - first THEN buf[first + s + 1]
            ELSE data[s]
    <2> HIDE DEF s
    <2> QED BY <1>1 DEF CopyIn
  <1> HIDE DEF s, offset
  <1>3. CASE k < n
    <2>1. CASE offset + k < Size
      <3>1. s >= offset /\ s < offset + first /\ s - offset + 1 = k + 1
        BY <1>1, <1>3, <2>1, SizeAssumption DEF Slots, Smaller
      <3> HIDE DEF first
      <3> QED BY <1>2, <1>3, <3>1 DEF s
    <2>2. CASE ~(offset + k < Size)
      <3>1. ~(s >= offset) /\ s < n - first /\ first + s + 1 = k + 1
        BY <1>1, <1>3, <2>2, SizeAssumption DEF Slots, Smaller
      <3> HIDE DEF first
      <3> QED BY <1>2, <1>3, <3>1 DEF s
    <2> QED BY <2>1, <2>2
  <1>4. CASE ~(k < n)
    <2>1. ~(s >= offset /\ s < offset + first) /\ ~(s < n - first)
      BY <1>1, <1>4, SizeAssumption DEF Slots, Smaller
    <2> HIDE DEF first
    <2> QED BY <1>2, <1>4, <2>1 DEF s
  <1> QED BY <1>3, <1>4

\* The contents after d elements were dropped and the first n of buf were
\* added: what every operation but peek does to the queue.
LEMMA ContentsAdvance ==
    ASSUME TypeOK, NeverOverfull,
           NEW d \in 0 .. data_count, NEW n \in 0 .. Size - (data_count - d),
           NEW buf \in Seq(Values), n <= Len(buf),
           read_index' = (read_index + d) % Word,
           write_index' = (write_index + n) % Word,
           data' = CopyIn(buf, n, write_index)
    PROVE  /\ TypeOK' /\ NeverOverfull'
           /\ data_count' = data_count - d + n
           /\ Contents' = SubSeq(Contents, d + 1, data_count) \o SubSeq(buf, 1, n)
  <1> DEFINE c == data_count
             e == c - d + n
  <1>1. c \in 0 .. Size /\ (read_index + c) % Word = write_index
    BY WriteIndex
  <1>2. read_index \in Int /\ write_index \in Int
    BY SizeAssumption DEF TypeOK
  <1>3. d \in 0 .. c /\ n \in 0 .. Size /\ e \in 0 .. Size /\ n <= Size - (c - d)
    BY <1>1, SizeAssumption
  <1>4. data_count' = e /\ read_index' \in 0 .. Word - 1 /\ write_index' \in 0 .. Word - 1
    BY CountAdvance DEF data_count
  <1>5. data' \in [Slots -> Values]
    <2>1. ASSUME NEW s \in Slots
          PROVE  CopyIn(buf, n, write_index)[s] \in Values
      <3> DEFINE offset == write_index % Size
                 first == Smaller(n, Size - offset)
      <3>1. offset \in Slots
        BY <1>2, SlotWrap, SizeAssumption
      <3>2. \A i \in 1 .. n : buf[i] \in Values
        OBVIOUS
      <3> HIDE DEF offset
      <3>3. first \in 0 .. n
        BY <1>3, <3>1, SizeAssumption DEF Slots, Smaller
      <3>4. CopyIn(buf, n, write_index)[s] =
               IF s >= offset /\ s < offset + first THEN buf[s - offset + 1]
               ELSE IF s < n - first THEN buf[first + s + 1]
               ELSE data[s]
        BY DEF CopyIn, offset
      <3>5. s \in 0 .. Size - 1 /\ data[s] \in Values
        BY DEF TypeOK, Slots
      <3> HIDE DEF first
      <3> QED BY <1>3, <3>1, <3>2, <3>3, <3>4, <3>5, SizeAssumption DEF Slots
    <2> QED BY <2>1 DEF CopyIn
  <1>6. TypeOK' /\ NeverOverfull'
    BY <1>3, <1>4, <1>5 DEF TypeOK, NeverOverfull
  <1>7. Contents' = [i \in 1 .. e |-> data'[Slot(read_index', i - 1)]]
    BY <1>4 DEF Contents, Slot
  <1>8. ASSUME NEW i \in 1 .. e
        PROVE  data'[Slot(read_index', i - 1)] =
                 IF i <= c - d THEN data[Slot(read_index, d + i - 1)] ELSE buf[i - (c - d)]
    <2> DEFINE j == i - 1
    <2>1. j \in 0 .. Size - 1 /\ j \in Int /\ d \in Int
      BY <1>3, SizeAssumption
    <2>2. Slot(read_index', j) = Slot(read_index, d + j)
      <3> HIDE DEF j
      <3> QED BY <1>2, <2>1, SlotAdvance
    <2>3. CASE i <= c - d
      <3> DEFINE k == Size - c + d + j
      <3>1. k \in 0 .. Size - 1 /\ ~(k < n)
        BY <1>1, <1>3, <2>1, <2>3, SizeAssumption
      <3>2. Slot(write_index, k) = Slot(read_index, d + j)
        <4>1. Slot(write_index, k) = Slot(read_index, c + k)
          <5>1. c \in Int /\ k \in Int
            BY <1>1, <3>1, SizeAssumption
          <5> HIDE DEF k, c
          <5> QED BY <1>1, <1>2, <5>1, SlotAdvance
        <4>2. c + k = Size + (d + j)
          BY <1>1, <1>3, <2>1, SizeAssumption
        <4>3. Slot(read_index, Size + (d + j)) = Slot(read_index, d + j)
          <5> DEFINE x == read_index + (d + j)
          <5>1. x \in Int
            BY <1>2, <2>1
          <5>2. read_index + (Size + (d + j)) = x + Size
            BY <1>2, <2>1, SizeAssumption
          <5>3. (x + Size) % Size = x % Size
            <6> HIDE DEF x
            <6> QED BY <5>1, WholeTurn
          <5> QED BY <5>2, <5>3 DEF Slot
        <4> HIDE DEF k, c
        <4> QED BY <4>1, <4>2, <4>3
      <3>3. data'[Slot(write_index, k)] = data[Slot(write_index, k)]
        <4> HIDE DEF k
        <4> QED BY <1>2, <1>3, <3>1, CopyInSlots
      <3>4. d + j = d + i - 1
        BY <2>1
      <3> QED BY <2>2, <2>3, <3>2, <3>3, <3>4
    <2>4. CASE ~(i <= c - d)
      <3> DEFINE k == i - (c - d) - 1
      <3>1. k \in 0 .. Size - 1 /\ k < n
        BY <1>1, <1>3, <2>4, SizeAssumption
      <3>2. Slot(write_index, k) = Slot(read_index, c + k)
        <4>1. c \in Int /\ k \in Int
          BY <1>1, <3>1, SizeAssumption
        <4> HIDE DEF k, c
        <4> QED BY <1>1, <1>2, <4>1, SlotAdvance
      <3>3. c + k = d + j
        BY <1>1, <1>3, <2>1
      <3>4. data'[Slot(write_index, k)] = buf[k + 1]
        <4> HIDE DEF k
        <4> QED BY <1>2, <1>3, <3>1, CopyInSlots
      <3>5. k + 1 = i - (c - d)
        BY <1>1, <1>3
      <3> HIDE DEF k, c
      <3> QED BY <2>2, <2>4, <3>2, <3>3, <3>4, <3>5
    <2> QED BY <2>3, <2>4
  <1>9. SubSeq(Contents, d + 1, c) = [i \in 1 .. c - d |-> data[Slot(read_index, d + i - 1)]]
    <2>1. Contents \in Seq(Values) /\ Len(Contents) = c
      <3>1. \A i \in 1 .. c : data[(read_index + i - 1) % Size] \in Values
        <4> TAKE i \in 1 .. c
        <4> DEFINE k == i - 1
        <4>1. k \in 0 .. Size /\ read_index + i - 1 = read_index + k
          BY <1>1, <1>2, SizeAssumption
        <4>2. Slot(read_index, k) \in Slots
          <5> HIDE DEF k
          <5> QED BY <1>2, <4>1, SlotWrap
        <4> QED BY <4>1, <4>2 DEF Slot, TypeOK
      <3> QED BY <1>1, <3>1 DEF Contents
    <2>2. \A i \in 1 .. c - d : Contents[d + i] = data[Slot(read_index, d + i - 1)]
      <3> TAKE i \in 1 .. c - d
      <3>1. d + i \in 1 .. c /\ read_index + (d + i) - 1 = read_index + (d + i - 1)
        BY <1>1, <1>2, <1>3
      <3> QED BY <3>1 DEF Contents, Slot
    <2> HIDE DEF c
    <2>3. SubSeq(Contents, d + 1, c) = [i \in 1 .. c - d |-> Contents[d + i]]
      BY <1>1, <1>3, <2>1
    <2> QED BY <2>2, <2>3
  <1>10. SubSeq(buf, 1, n) = [i \in 1 .. n |-> buf[i]]
    BY <1>3
  <1>11. [i \in 1 .. c - d |-> data[Slot(read_index, d + i - 1)]] \o [i \in 1 .. n |-> buf[i]]
            = [i \in 1 .. e |-> IF i <= c - d THEN data[Slot(read_index, d + i - 1)]
                                ELSE buf[i - (c - d)]]
    <2> HIDE DEF c
    <2> QED BY <1>1, <1>3
  <1> QED
    BY <1>4, <1>6, <1>7, <1>8, <1>9, <1>10, <1>11
-----------------------------------------------------------------------------
RingInv == TypeOK /\ NeverOverfull

\* The buffers a call is given are sequences of values.
LEMMA BufferSeq ==
    ASSUME NEW buf \in Buffers
    PROVE  buf \in Seq(Values) /\ Len(buf) \in 0 .. MaxCount
  <1>1. PICK n \in 0 .. MaxCount : buf \in [1 .. n -> Values]
    BY DEF Buffers
  <1> QED BY <1>1, CountAssumption

\* Contents is a sequence as long as data_count says.
LEMMA ContentsSeq ==
    ASSUME RingInv
    PROVE  /\ Len(Contents) = data_count /\ Contents \in Seq(Values)
           /\ \A i \in 1 .. data_count : Contents[i] = data[Slot(read_index, i - 1)]
  <1>1. data_count \in 0 .. Size
    BY WriteIndex DEF RingInv
  <1>2. read_index \in Int
    BY SizeAssumption DEF RingInv, TypeOK
  <1> DEFINE c == data_count
  <1>3. ASSUME NEW i \in 1 .. c
        PROVE  data[(read_index + i - 1) % Size] \in Values
               /\ data[(read_index + i - 1) % Size] = data[Slot(read_index, i - 1)]
    <2> DEFINE k == i - 1
    <2>1. k \in 0 .. Size /\ read_index + i - 1 = read_index + k
      BY <1>1, <1>2, SizeAssumption
    <2>2. Slot(read_index, k) \in Slots
      <3> HIDE DEF k
      <3> QED BY <1>2, <2>1, SlotWrap
    <2> QED BY <2>1, <2>2 DEF Slot, RingInv, TypeOK
  <1>4. Contents = [i \in 1 .. c |-> data[(read_index + i - 1) % Size]]
    BY DEF Contents
  <1> HIDE DEF c
  <1>5. c \in 0 .. Size
    BY <1>1 DEF c
  <1>6. Len(Contents) = c /\ Contents \in Seq(Values)
    BY <1>3, <1>4, <1>5, SizeAssumption
  <1> QED BY <1>3, <1>4, <1>6 DEF c

\* Dropping up to count of the oldest elements: what truncate does, and read
\* after it has copied them out.
LEMMA DropStep ==
    ASSUME RingInv, NEW count \in 0 .. MaxCount,
           read_index' = (read_index + Smaller(count, data_count)) % Word,
           UNCHANGED <<write_index, data>>
    PROVE  /\ RingInv'
           /\ Contents' = SubSeq(Contents, Smaller(count, data_count) + 1, data_count)
  <1> DEFINE c == data_count
             d == Smaller(count, c)
             buf == <<>>
  <1>1. c \in 0 .. Size /\ write_index \in 0 .. Word - 1 /\ d \in 0 .. c
    BY WriteIndex, CountAssumption DEF RingInv, TypeOK, Smaller
  <1>2. buf \in Seq(Values) /\ Len(buf) = 0 /\ 0 \in 0 .. Size - (c - d)
    BY <1>1, SizeAssumption
  <1>3. write_index' = (write_index + 0) % Word
    <2>1. write_index = 0 * Word + write_index /\ write_index \in Int
          /\ write_index + 0 = write_index
      BY <1>1, SizeAssumption
    <2>2. write_index % Word = write_index
      BY <1>1, <2>1, Remainder, SizeAssumption
    <2> QED BY <2>1, <2>2
  <1>4. data' = CopyIn(buf, 0, write_index)
    <2>1. CopyIn(buf, 0, write_index) = data
      <3> DEFINE offset == write_index % Size
      <3>1. write_index \in Int
        BY <1>1, SizeAssumption
      <3>2. offset \in Slots
        BY <3>1, Division, SizeAssumption DEF Slots
      <3> HIDE DEF offset
      <3>3. Smaller(0, Size - offset) = 0
        BY <3>2, SizeAssumption DEF Smaller, Slots
      <3>4. CopyIn(buf, 0, write_index) = [s \in Slots |->
                IF s >= offset /\ s < offset + 0 THEN buf[s - offset + 1]
                ELSE IF s < 0 - 0 THEN buf[0 + s + 1]
                ELSE data[s]]
        BY <3>3 DEF CopyIn, offset
      <3>5. data \in [Slots -> Values]
        BY DEF RingInv, TypeOK
      <3> QED BY <3>2, <3>4, <3>5, SizeAssumption DEF Slots
    <2> QED BY <2>1
  <1> HIDE DEF buf
  <1>5. /\ TypeOK' /\ NeverOverfull'
        /\ Contents' = SubSeq(Contents, d + 1, data_count) \o SubSeq(buf, 1, 0)
    <2>1. TypeOK /\ NeverOverfull /\ read_index' = (read_index + d) % Word
      BY DEF RingInv
    <2>2. 0 <= Len(buf)
      BY <1>2
    <2> HIDE DEF d
    <2> QED BY <1>1, <1>2, <1>3, <1>4, <2>1, <2>2, ContentsAdvance
  <1>6. SubSeq(Contents, d + 1, c) \in Seq(Values)
    <2>1. Len(Contents) = c /\ Contents \in Seq(Values)
      BY ContentsSeq
    <2> HIDE DEF c, d
    <2> QED BY <1>1, <2>1
  <1>7. SubSeq(buf, 1, 0) = <<>>
    BY <1>2
  <1>8. SubSeq(Contents, d + 1, c) \o <<>> = SubSeq(Contents, d + 1, c)
    <2> DEFINE q == SubSeq(Contents, d + 1, c)
    <2> HIDE DEF q
    <2>1. q \o <<>> = q
      BY <1>6, ConcatEmptySeq DEF q
    <2> QED BY <2>1 DEF q
  <1> QED
    BY <1>5, <1>7, <1>8 DEF RingInv

\* read removes from the front of the queue what it hands out.
LEMMA ReadStep ==
    ASSUME RingInv, NEW count \in 0 .. MaxCount, read(count)
    PROVE  RingInv' /\ Queue!Read(count)
  <1> DEFINE c == data_count
             n == Smaller(count, c)
  <1>1. c \in 0 .. Size /\ n \in 0 .. c /\ n \in 0 .. Size
    BY WriteIndex, CountAssumption, SizeAssumption DEF RingInv, Smaller
  <1>2. Len(Contents) = c /\ Contents \in Seq(Values)
    BY ContentsSeq
  <1>3. RingInv' /\ Contents' = SubSeq(Contents, n + 1, c)
    <2>1. read_index' = (read_index + n) % Word /\ UNCHANGED <<write_index, data>>
      BY DEF read
    <2> QED BY <2>1, DropStep
  <1>4. out' = SubSeq(Contents, 1, n)
    <2>1. out' = [i \in 1 .. n |-> data[Slot(read_index, i - 1)]]
      <3>1. out' = CopyOut(n) /\ TypeOK
        BY DEF read, RingInv
      <3> HIDE DEF n
      <3> QED BY <1>1, <3>1, CopyOutSlots
    <2>2. \A i \in 1 .. c : Contents[i] = data[Slot(read_index, i - 1)]
      BY ContentsSeq
    <2> HIDE DEF n, c
    <2>3. SubSeq(Contents, 1, n) = [i \in 1 .. n |-> Contents[i]]
      BY <1>1, <1>2
    <2>4. \A i \in 1 .. n : Contents[i] = data[Slot(read_index, i - 1)]
      BY <1>1, <2>2
    <2> QED BY <2>1, <2>3, <2>4
  <1>5. n = Queue!Least(count, Len(Contents))
    BY <1>2 DEF Queue!Least, Smaller
  <1> QED
    BY <1>2, <1>3, <1>4, <1>5 DEF Queue!Read

\* truncate drops the oldest elements.
LEMMA TruncateStep ==
    ASSUME RingInv, NEW count \in 0 .. MaxCount, truncate(count)
    PROVE  RingInv' /\ Queue!Truncate(count)
  <1> DEFINE n == Smaller(count, data_count)
  <1>1. Len(Contents) = data_count
    BY ContentsSeq
  <1>2. RingInv' /\ Contents' = SubSeq(Contents, n + 1, data_count)
    BY DropStep DEF truncate
  <1>3. n = Queue!Least(count, Len(Contents))
    BY <1>1 DEF Queue!Least, Smaller
  <1> QED
    BY <1>1, <1>2, <1>3 DEF Queue!Truncate, Queue!Drop, truncate

\* write_truncate drops, in one step with the write, as many of the oldest
\* elements as it needs; write is the case in which it drops none.
LEMMA PutStep ==
    ASSUME RingInv, NEW buf \in Buffers, NEW d \in 0 .. data_count,
           read_index' = (read_index + d) % Word,
           LET n == Smaller(Len(buf), free_count + d)
           IN  /\ data' = CopyIn(buf, n, write_index)
               /\ write_index' = (write_index + n) % Word
    PROVE  /\ RingInv'
           /\ Contents' = Queue!Put(SubSeq(Contents, d + 1, data_count), buf)
  <1> DEFINE c == data_count
             n == Smaller(Len(buf), free_count + d)
             q == SubSeq(Contents, d + 1, c)
  <1>1. c \in 0 .. Size /\ d \in 0 .. c /\ free_count = Size - c
    BY WriteIndex DEF RingInv, free_count
  <1>2. buf \in Seq(Values) /\ Len(buf) \in Nat
    BY BufferSeq
  <1>3. Len(Contents) = c /\ Contents \in Seq(Values)
    BY ContentsSeq
  <1> HIDE DEF c
  <1>4. n \in 0 .. Size - (c - d) /\ n <= Len(buf)
    BY <1>1, <1>2, SizeAssumption DEF Smaller
  <1>5. RingInv' /\ Contents' = q \o SubSeq(buf, 1, n)
    <2>1. TypeOK /\ NeverOverfull /\ data' = CopyIn(buf, n, write_index)
          /\ write_index' = (write_index + n) % Word
      BY DEF RingInv
    <2> HIDE DEF n
    <2> QED BY <1>2, <1>4, <2>1, ContentsAdvance DEF RingInv, c
  <1>6. Len(q) = c - d
    BY <1>1, <1>3
  <1>7. n = Queue!Least(Len(buf), Size - Len(q))
    <2> HIDE DEF q
    <2>1. Size - Len(q) = free_count + d
      BY <1>1, <1>6, SizeAssumption
    <2> QED BY <2>1 DEF Queue!Least, Smaller
  <1> QED
    BY <1>5, <1>7 DEF Queue!Put, c

LEMMA WriteStep ==
    ASSUME RingInv, NEW buf \in Buffers, write(buf)
    PROVE  RingInv' /\ Queue!Write(buf)
  <1> DEFINE d == 0
  <1>1. data_count \in 0 .. Size /\ read_index \in 0 .. Word - 1
    BY WriteIndex DEF RingInv, TypeOK
  <1>2. d \in 0 .. data_count /\ free_count + d = free_count
    BY <1>1, SizeAssumption DEF free_count
  <1>3. read_index' = (read_index + d) % Word
    <2>1. read_index = 0 * Word + read_index /\ read_index \in Int /\ read_index + d = read_index
      BY <1>1, SizeAssumption
    <2>2. read_index % Word = read_index
      BY <1>1, <2>1, Remainder, SizeAssumption
    <2> QED BY <2>1, <2>2 DEF write
  <1>4. LET n == Smaller(Len(buf), free_count + d)
        IN  data' = CopyIn(buf, n, write_index) /\ write_index' = (write_index + n) % Word
    BY <1>2 DEF write
  <1>5. RingInv' /\ Contents' = Queue!Put(SubSeq(Contents, d + 1, data_count), buf)
    <2> HIDE DEF d
    <2> QED BY <1>2, <1>3, <1>4, PutStep
  <1>6. SubSeq(Contents, d + 1, data_count) = Contents
    <2>1. Len(Contents) = data_count /\ Contents \in Seq(Values)
      BY ContentsSeq
    <2> QED BY <1>1, <2>1
  <1> QED
    BY <1>5, <1>6 DEF Queue!Write, write

LEMMA WriteTruncateStep ==
    ASSUME RingInv, NEW buf \in Buffers, write_truncate(buf)
    PROVE  RingInv' /\ Queue!WriteTruncate(buf)
  <1> DEFINE c == data_count
             d == IF free_count < Len(buf) THEN Smaller(Len(buf), c) ELSE 0
             q == IF Size - Len(Contents) < Len(buf)
                  THEN Queue!Drop(Contents, Len(buf)) ELSE Contents
  <1>1. c \in 0 .. Size
    BY WriteIndex DEF RingInv
  <1>2. Len(buf) \in Nat
    BY BufferSeq
  <1>3. d \in 0 .. c
    BY <1>1, <1>2 DEF Smaller
  <1>4. read_index' = (read_index + d) % Word
    BY DEF write_truncate
  <1>5. LET n == Smaller(Len(buf), free_count + d)
        IN  data' = CopyIn(buf, n, write_index) /\ write_index' = (write_index + n) % Word
    BY DEF write_truncate
  <1>6. RingInv' /\ Contents' = Queue!Put(SubSeq(Contents, d + 1, c), buf)
    <2> HIDE DEF d
    <2> QED BY <1>3, <1>4, <1>5, PutStep
  <1>7. Len(Contents) = c /\ Contents \in Seq(Values)
    BY ContentsSeq
  <1>8. SubSeq(Contents, d + 1, c) = q
    <2>1. CASE free_count < Len(buf)
      <3>1. d = Queue!Least(Len(buf), Len(Contents))
        BY <1>7, <2>1 DEF Smaller, Queue!Least
      <3>2. q = Queue!Drop(Contents, Len(buf))
        BY <1>7, <2>1 DEF free_count
      <3> HIDE DEF d, q
      <3> QED BY <1>7, <3>1, <3>2 DEF Queue!Drop
    <2>2. CASE ~(free_count < Len(buf))
      <3>1. d = 0 /\ q = Contents
        BY <1>7, <2>2 DEF free_count
      <3>2. SubSeq(Contents, 0 + 1, c) = Contents
        BY <1>1, <1>7
      <3> HIDE DEF d, q
      <3> QED BY <3>1, <3>2
    <2> QED BY <2>1, <2>2
  <1> QED
    BY <1>6, <1>8 DEF Queue!WriteTruncate, write_truncate

LEMMA PeekStep ==
    ASSUME RingInv, peek
    PROVE  RingInv' /\ Queue!Peek
  <1> DEFINE c == data_count
  <1>1. c \in 0 .. Size /\ read_index \in Int
    BY WriteIndex, SizeAssumption DEF RingInv, TypeOK
  <1>2. /\ Len(Contents) = c /\ Contents \in Seq(Values)
        /\ \A i \in 1 .. c : Contents[i] = data[Slot(read_index, i - 1)]
    BY ContentsSeq
  <1>3. RingInv' /\ Contents' = Contents
    BY DEF peek, RingInv, TypeOK, NeverOverfull, Contents, data_count
  <1>4. out' = SubSeq(Contents, 1, Queue!Least(1, Len(Contents)))
    <2>1. CASE c = 0
      <3>1. out' = <<>>
        BY <2>1 DEF peek, is_empty
      <3>2. Queue!Least(1, Len(Contents)) = 0
        BY <1>2, <2>1 DEF Queue!Least
      <3>3. SubSeq(Contents, 1, 0) = <<>>
        BY SubSeqEmpty
      <3> QED BY <3>1, <3>2, <3>3
    <2>2. CASE c # 0
      <3>1. out' = <<data[read_index % Size]>>
        BY <2>2 DEF peek, is_empty
      <3>2. Contents[1] = data[read_index % Size]
        <4>1. Slot(read_index, 1 - 1) = read_index % Size
          BY <1>1 DEF Slot
        <4> QED BY <1>1, <1>2, <2>2, <4>1
      <3>3. Queue!Least(1, Len(Contents)) = 1
        BY <1>1, <1>2, <2>2 DEF Queue!Least
      <3> HIDE DEF c
      <3>4. SubSeq(Contents, 1, 1) = <<Contents[1]>>
        <4>1. SubSeq(Contents, 1, 1) = [i \in 1 .. 1 |-> Contents[i]]
          BY <1>1, <1>2, <2>2, SizeAssumption
        <4>2. [i \in 1 .. 1 |-> Contents[i]] = <<Contents[1]>>
          OBVIOUS
        <4> QED BY <4>1, <4>2
      <3> QED BY <3>1, <3>2, <3>3, <3>4
    <2> QED BY <2>1, <2>2
  <1> QED
    BY <1>3, <1>4 DEF Queue!Peek

\* RingBuffer implements Fifo: its two indices, wrapping at the array and at the
\* machine word, never lose, duplicate, reorder or overwrite an element.
THEOREM RingRefinesFifo == Spec => ImplementsFifo
  <1>1. Init => RingInv /\ Queue!Init
    <2> SUFFICES ASSUME Init PROVE RingInv /\ Queue!Init
      OBVIOUS
    <2>1. 0 = 0 * Word + 0 /\ 0 \in 0 .. Word - 1
      BY SizeAssumption
    <2>2. 0 % Word = 0
      BY <2>1, Remainder, SizeAssumption
    <2>3. data_count = 0
      BY <2>2 DEF Init, data_count
    <2>4. RingInv
      BY <2>1, <2>3, SizeAssumption DEF Init, RingInv, TypeOK, NeverOverfull
    <2>5. Contents = <<>>
      BY <2>3 DEF Contents
    <2> QED
      BY <2>4, <2>5 DEF Queue!Init, Init
  <1>2. RingInv /\ [Next]_vars => RingInv' /\ [Queue!Next]_(Queue!vars)
    <2> SUFFICES ASSUME RingInv, [Next]_vars
                 PROVE  RingInv' /\ [Queue!Next]_(Queue!vars)
      OBVIOUS
    <2>1. ASSUME NEW count \in 0 .. MaxCount, read(count)
          PROVE  RingInv' /\ Queue!Next
      BY <2>1, ReadStep DEF Queue!Next
    <2>2. ASSUME NEW count \in 0 .. MaxCount, truncate(count)
          PROVE  RingInv' /\ Queue!Next
      BY <2>2, TruncateStep DEF Queue!Next
    <2>3. ASSUME NEW buf \in Buffers, write(buf)
          PROVE  RingInv' /\ Queue!Next
      BY <2>3, WriteStep DEF Queue!Next
    <2>4. ASSUME NEW buf \in Buffers, write_truncate(buf)
          PROVE  RingInv' /\ Queue!Next
      BY <2>4, WriteTruncateStep DEF Queue!Next
    <2>5. CASE peek
      BY <2>5, PeekStep DEF Queue!Next
    <2>6. CASE UNCHANGED vars
      BY <2>6 DEF vars, RingInv, TypeOK, NeverOverfull, data_count, Contents, Queue!vars
    <2> QED
      BY <2>1, <2>2, <2>3, <2>4, <2>5, <2>6 DEF Next
  <1> QED
    BY <1>1, <1>2, PTL DEF Spec, ImplementsFifo, Queue!Spec, RingInv

-----------------------------------------------------------------------------
ThreadRecords ==
    [pc : {"run", "sleep", "awake", "returned", "zombie", "gone"},
     call : {"none", "nanosleep", "futex"}, by : {"none", "signal", "timer", "futex"},
     signal : BOOLEAN]
Timers ==
    [armed : BOOLEAN, remaining : TimeSpecs, fired : BOOLEAN, duration : TimeSpecs,
     elapsed : Int, ticks : Int]
Itimers == [armed : BOOLEAN, remaining : TimeSpecs, interval : TimeSpecs]

TimerType ==
    /\ tim_thread \in [TimThreads -> ThreadRecords]
    /\ tim_timer \in [TimThreads -> Timers]
    /\ tim_itimer \in [TimThreads -> Itimers]
    /\ fut_list \in Seq(TimThreads)

\* What one timer promises.
ExactTimer(it) ==
    LET rest == Nanos(it.duration) - it.elapsed
    IN  /\ it.armed => /\ Nanos(it.remaining) \in rest - it.ticks .. rest
                       /\ it.ticks > 0 => it.remaining # ZeroTime
        /\ it.fired => rest <= it.ticks
        /\ ~(it.armed /\ it.fired) /\ it.ticks >= 0

\* Who wakes a thread has reason to: a timer that has fired, or the futex on
\* which the thread is listed.
WokenFor(th, it) ==
    th.pc \in {"awake", "returned"} =>
        /\ th.by = "timer" => it.fired
        /\ th.by = "futex" => th.call = "futex"
        /\ th.by # "none"

\* The threads on the list of the futex are those that sleep there, or have been
\* woken or terminated and did not run since; each is listed once.
FutexListed ==
    /\ \A i \in 1 .. Len(fut_list) :
          /\ tim_thread[fut_list[i]].pc \in {"sleep", "awake", "zombie"}
          /\ tim_thread[fut_list[i]].call = "futex"
    /\ \A i, j \in 1 .. Len(fut_list) : fut_list[i] = fut_list[j] => i = j

\* What holds of a thread with the timer of its sleep and its interval timer.
ThreadSafe(th, it, al) ==
    ExactTimer(it) /\ WokenFor(th, it) /\ (it.armed \/ al.armed => th.pc # "gone")

\* The inductive invariant of TimerSafe.
TimerInv ==
    /\ TimerType /\ FutexListed /\ FutexOrder
    /\ \A t \in TimThreads : ThreadSafe(tim_thread[t], tim_timer[t], tim_itimer[t])

LEMMA SpecFacts ==
    /\ ZeroTime \in TimeSpecs /\ Nanos(ZeroTime) = 0 /\ NanosPerSecond \in Nat \ {0}
    /\ \A a \in TimeSpecs : a[1] \in Nat /\ a[2] \in 0 .. NanosPerSecond - 1 /\ Nanos(a) \in Nat
<1>1. ZeroTime \in TimeSpecs /\ Nanos(ZeroTime) = 0 /\ NanosPerSecond \in Nat \ {0}
  BY TimerAssumption DEF ZeroTime, TimeSpecs, Nanos
<1>2. ASSUME NEW a \in TimeSpecs
      PROVE  a[1] \in Nat /\ a[2] \in 0 .. NanosPerSecond - 1 /\ Nanos(a) \in Nat
  <2>1. a[1] \in Nat /\ a[2] \in 0 .. NanosPerSecond - 1
    BY DEF TimeSpecs
  <2> QED BY <1>1, <2>1 DEF Nanos
<1> QED BY <1>1, <1>2

\* TimeSpec -= is exact, or a nanosecond short, or stops at zero.
LEMMA MinusFacts ==
    ASSUME NEW a \in TimeSpecs, NEW b \in TimeSpecs
    PROVE  /\ Minus(a, b) \in TimeSpecs
           /\ \/ Minus(a, b) = ZeroTime /\ Nanos(a) < Nanos(b)
              \/ Nanos(Minus(a, b)) \in Nanos(a) - Nanos(b) - 1 .. Nanos(a) - Nanos(b)
<1> DEFINE N == NanosPerSecond
           a1 == a[1]
           a2 == a[2]
           b1 == b[1]
           b2 == b[2]
<1>1. /\ a1 \in Nat /\ a2 \in 0 .. N - 1 /\ b1 \in Nat /\ b2 \in 0 .. N - 1 /\ N \in Nat \ {0}
      /\ Nanos(a) = a1 * N + a2 /\ Nanos(b) = b1 * N + b2
  BY SpecFacts DEF Nanos
<1>2. \A x \in Nat, y \in 0 .. N - 1 : <<x, y>> \in TimeSpecs /\ Nanos(<<x, y>>) = x * N + y
  BY DEF TimeSpecs, Nanos
<1>3. Minus(a, b) = IF b2 > a2
    THEN IF a1 = 0 \/ b1 > a1 - 1 THEN ZeroTime ELSE <<a1 - 1 - b1, N - 1 - (b2 - a2)>>
    ELSE IF b1 > a1 THEN ZeroTime ELSE <<a1 - b1, a2 - b2>>
  BY DEF Minus
<1> HIDE DEF N, a1, a2, b1, b2
<1>a. b1 > a1 => (a1 + 1) * N <= b1 * N
  BY <1>1
<1>b. b1 >= a1 => a1 * N <= b1 * N
  BY <1>1
<1>4. CASE b2 > a2 /\ (a1 = 0 \/ b1 > a1 - 1)
  <2>1. a1 * N <= b1 * N
    BY <1>1, <1>4, <1>b
  <2> QED BY <1>1, <1>3, <1>4, <2>1, SpecFacts
<1>5. CASE b2 > a2 /\ ~(a1 = 0 \/ b1 > a1 - 1)
  <2> DEFINE x == a1 - 1 - b1
             y == N - 1 - (b2 - a2)
  <2>1. x \in Nat /\ y \in 0 .. N - 1
    BY <1>1, <1>5
  <2>2. x * N + y = Nanos(a) - Nanos(b) - 1
    BY <1>1
  <2>3. Minus(a, b) = <<x, y>>
    BY <1>3, <1>5
  <2> HIDE DEF x, y
  <2> QED BY <1>1, <1>2, <2>1, <2>2, <2>3
<1>6. CASE ~(b2 > a2) /\ b1 > a1
  BY <1>1, <1>3, <1>6, <1>a, SpecFacts
<1>7. CASE ~(b2 > a2) /\ ~(b1 > a1)
  <2> DEFINE x == a1 - b1
             y == a2 - b2
  <2>1. x \in Nat /\ y \in 0 .. N - 1
    BY <1>1, <1>7
  <2>2. x * N + y = Nanos(a) - Nanos(b)
    BY <1>1
  <2>3. Minus(a, b) = <<x, y>>
    BY <1>3, <1>7
  <2> HIDE DEF x, y
  <2> QED BY <1>1, <1>2, <2>1, <2>2, <2>3
<1> QED BY <1>4, <1>5, <1>6, <1>7

LEMMA DisarmedFacts ==
    /\ Disarmed \in Timers /\ ExactTimer(Disarmed) /\ ~Disarmed.armed
    /\ \A time \in TimeSpecs : arm(time) \in Timers /\ ExactTimer(arm(time))
<1>1. Disarmed \in Timers
  BY SpecFacts DEF Disarmed, Timers
<1>2. ~Disarmed.armed /\ ~Disarmed.fired /\ Disarmed.ticks = 0 /\ Disarmed.elapsed = 0
  BY DEF Disarmed
<1>3. ASSUME NEW time \in TimeSpecs
      PROVE  arm(time) \in Timers /\ ExactTimer(arm(time))
  <2>1. /\ arm(time) \in Timers /\ arm(time).armed /\ arm(time).remaining = time
        /\ arm(time).duration = time /\ ~arm(time).fired
        /\ arm(time).ticks = 0 /\ arm(time).elapsed = 0
    BY <1>1, <1>2 DEF arm, Timers
  <2>2. Nanos(time) \in Nat
    BY SpecFacts
  <2> QED BY <2>1, <2>2 DEF ExactTimer
<1> QED BY <1>1, <1>2, <1>3 DEF ExactTimer

\* update_time keeps a timer exact.
LEMMA CountedExact ==
    ASSUME NEW it \in Timers, it.armed, ExactTimer(it), NEW b \in TimeSpecs
    PROVE  Counted(it, b) \in Timers /\ ExactTimer(Counted(it, b))
<1> DEFINE left == Minus(it.remaining, b)
           e == it.elapsed + Nanos(b)
           k == it.ticks + 1
           c == [it EXCEPT !.remaining = left, !.elapsed = e, !.ticks = k,
                           !.fired = (left = ZeroTime), !.armed = (left # ZeroTime)]
<1>1. Counted(it, b) = c
  BY DEF Counted
<1>2. /\ it.remaining \in TimeSpecs /\ it.duration \in TimeSpecs /\ it.elapsed \in Int
      /\ it.ticks \in Int
  BY DEF Timers
<1>3. /\ Nanos(b) \in Nat /\ Nanos(it.remaining) \in Nat /\ Nanos(it.duration) \in Nat
      /\ Nanos(ZeroTime) = 0
  BY <1>2, SpecFacts
<1>4. /\ left \in TimeSpecs
      /\ \/ left = ZeroTime /\ Nanos(it.remaining) < Nanos(b)
         \/ Nanos(left) \in Nanos(it.remaining) - Nanos(b) - 1 .. Nanos(it.remaining) - Nanos(b)
  BY <1>2, MinusFacts
<1>5. /\ Nanos(it.remaining) \in (Nanos(it.duration) - it.elapsed) - it.ticks
                                 .. (Nanos(it.duration) - it.elapsed)
      /\ it.ticks >= 0
  BY DEF ExactTimer
<1>6. e \in Int /\ k \in Int /\ e = it.elapsed + Nanos(b) /\ k = it.ticks + 1
  BY <1>2, <1>3
<1> HIDE DEF left, e, k
<1>7. /\ c \in Timers /\ c.remaining = left /\ c.elapsed = e /\ c.ticks = k
      /\ c.duration = it.duration /\ c.fired = (left = ZeroTime) /\ c.armed = (left # ZeroTime)
  BY <1>4, <1>6 DEF Timers
<1> HIDE DEF c
<1>8. ASSUME left = ZeroTime
      PROVE  Nanos(it.duration) - e <= k
  BY <1>2, <1>3, <1>4, <1>5, <1>6, <1>8
<1>9. ASSUME left # ZeroTime
      PROVE  Nanos(left) \in (Nanos(it.duration) - e) - k .. (Nanos(it.duration) - e)
  BY <1>2, <1>3, <1>4, <1>5, <1>6, <1>9, SpecFacts
<1>10. k >= 0
  BY <1>2, <1>5, <1>6
<1>11. ExactTimer(c)
  BY <1>7, <1>8, <1>9, <1>10 DEF ExactTimer
<1> QED BY <1>1, <1>7, <1>11
-----------------------------------------------------------------------------
LEMMA TimerStarts == TimerInit => TimerInv
<1> SUFFICES ASSUME TimerInit PROVE TimerInv
  OBVIOUS
<1>1. TimerType
  BY DisarmedFacts, SpecFacts DEF TimerInit, TimerType, ThreadRecords, Itimers
<1>2. FutexListed /\ FutexOrder
  BY DEF TimerInit, FutexListed, FutexOrder
<1>3. ASSUME NEW t \in TimThreads
      PROVE  ThreadSafe(tim_thread[t], tim_timer[t], tim_itimer[t])
  BY DisarmedFacts DEF TimerInit, ThreadSafe, WokenFor
<1> QED BY <1>1, <1>2, <1>3 DEF TimerInv

\* Steps in which no listed thread falls asleep or is told by the futex.
LEMMA ListKept ==
    ASSUME TimerType, FutexListed, FutexOrder, fut_list' = fut_list,
           \A u \in TimThreads : tim_thread[u].pc \in {"sleep", "awake", "zombie"} =>
              /\ tim_thread'[u].pc \in {"sleep", "awake", "zombie"}
              /\ tim_thread'[u].call = tim_thread[u].call
              /\ tim_thread'[u].pc = "sleep" => tim_thread[u].pc = "sleep"
              /\ tim_thread'[u].pc = "awake" /\ tim_thread'[u].by = "futex" =>
                    tim_thread[u].pc = "awake" /\ tim_thread[u].by = "futex"
    PROVE  FutexListed' /\ FutexOrder'
<1>1. fut_list \in Seq(TimThreads) /\ DOMAIN fut_list = 1 .. Len(fut_list)
  BY DEF TimerType
<1>2. \A i \in 1 .. Len(fut_list) : fut_list[i] \in TimThreads
  BY <1>1
<1>3. FutexListed'
  BY <1>2 DEF FutexListed
<1>4. FutexOrder'
  BY <1>1, <1>2 DEF FutexListed, FutexOrder
<1> QED BY <1>3, <1>4

\* Entries of a selection are in the order of the list.
LEMMA SelectOrder ==
    ASSUME NEW S, NEW s \in Seq(S), NEW A
    PROVE  \A i, j \in 1 .. Len(Select(s, A)) : i < j =>
              \E p, q \in 1 .. Len(s) : p < q /\ Select(s, A)[i] = s[p] /\ Select(s, A)[j] = s[q]
<1> DEFINE r == Select(s, A)
<1>1. r \in Seq(S) /\ Selection(r, s, A)
  BY SelectIsSelection
<1> HIDE DEF r
<1>2. PICK f : Enumerates(f, r, s, A)
  BY <1>1 DEF Selection
<1>3. ASSUME NEW i \in 1 .. Len(r), NEW j \in 1 .. Len(r), i < j
      PROVE  \E p, q \in 1 .. Len(s) : p < q /\ r[i] = s[p] /\ r[j] = s[q]
  <2>1. f[i] < f[j] /\ f[i] \in 1 .. Len(s) /\ f[j] \in 1 .. Len(s) /\ r[i] = s[f[i]] /\ r[j] = s[f[j]]
    BY <1>2, <1>3 DEF Enumerates
  <2> QED BY <2>1
<1> QED BY <1>3 DEF r

\* The listener of a thread is taken off the list.
LEMMA ListRemoved ==
    ASSUME TimerType, FutexListed, FutexOrder, NEW t \in TimThreads,
           fut_list' = Without(fut_list, t),
           \A u \in TimThreads \ {t} : tim_thread'[u] = tim_thread[u]
    PROVE  fut_list' \in Seq(TimThreads) /\ FutexListed' /\ FutexOrder'
<1> DEFINE s == fut_list
           A == TimThreads \ {t}
           r == Select(s, A)
<1>1. s \in Seq(TimThreads) /\ DOMAIN s = 1 .. Len(s)
  BY DEF TimerType
<1>2. fut_list' = r
  BY DEF Without
<1> HIDE DEF s, A
<1>3. /\ r \in Seq(TimThreads)
      /\ \A i \in 1 .. Len(r) : r[i] \in A /\ \E p \in 1 .. Len(s) : r[i] = s[p]
  BY <1>1, SelectMembers
<1>4. \A i, j \in 1 .. Len(r) : i < j =>
         \E p, q \in 1 .. Len(s) : p < q /\ r[i] = s[p] /\ r[j] = s[q]
  BY <1>1, SelectOrder
<1> HIDE DEF r
<1>5. \A i \in 1 .. Len(r) : r[i] \in TimThreads /\ tim_thread'[r[i]] = tim_thread[r[i]]
  BY <1>3 DEF A
<1>6. Len(r) \in Nat /\ DOMAIN r = 1 .. Len(r) /\ Len(s) \in Nat
  BY <1>1, <1>3
<1>7. FutexListed'
  <2>1. ASSUME NEW i \in 1 .. Len(r)
        PROVE  /\ tim_thread'[r[i]].pc \in {"sleep", "awake", "zombie"}
               /\ tim_thread'[r[i]].call = "futex"
    BY <1>3, <1>5 DEF FutexListed, s
  <2>2. ASSUME NEW i \in 1 .. Len(r), NEW j \in 1 .. Len(r), r[i] = r[j], i < j
        PROVE  FALSE
    <3>1. PICK p \in 1 .. Len(s), q \in 1 .. Len(s) : p < q /\ r[i] = s[p] /\ r[j] = s[q]
      BY <1>4, <2>2
    <3>2. s[p] = s[q]
      BY <3>1, <2>2
    <3>3. p = q
      BY <1>1, <3>2 DEF FutexListed, s
    <3> QED BY <1>6, <3>1, <3>3
  <2>3. ASSUME NEW i \in 1 .. Len(r), NEW j \in 1 .. Len(r), r[i] = r[j]
        PROVE  i = j
    <3>1. ~(i < j) /\ ~(j < i)
      BY <2>2, <2>3
    <3> QED BY <1>6, <3>1
  <2> QED BY <1>2, <2>1, <2>3 DEF FutexListed
<1>8. FutexOrder'
  <2> SUFFICES ASSUME NEW i \in 1 .. Len(r), NEW j \in 1 .. Len(r), i < j,
                      tim_thread'[r[j]].pc = "awake", tim_thread'[r[j]].by = "futex"
               PROVE  tim_thread'[r[i]].pc # "sleep"
    BY <1>2, <1>6 DEF FutexOrder
  <2>1. PICK p, q \in 1 .. Len(s) : p < q /\ r[i] = s[p] /\ r[j] = s[q]
    BY <1>4
  <2> QED BY <1>1, <1>5, <2>1 DEF FutexOrder, s
<1> QED BY <1>2, <1>3, <1>7, <1>8

\* A step of one thread.
LEMMA OneThread ==
    ASSUME TimerInv, NEW t \in TimThreads, NEW th \in ThreadRecords, NEW it \in Timers,
           NEW al \in Itimers, ThreadSafe(th, it, al),
           tim_thread' = [tim_thread EXCEPT ![t] = th], tim_timer' = [tim_timer EXCEPT ![t] = it],
           tim_itimer' = [tim_itimer EXCEPT ![t] = al],
           fut_list' \in Seq(TimThreads), FutexListed', FutexOrder'
    PROVE  TimerInv'
<1>1. /\ tim_thread \in [TimThreads -> ThreadRecords] /\ tim_timer \in [TimThreads -> Timers]
      /\ tim_itimer \in [TimThreads -> Itimers]
  BY DEF TimerInv, TimerType
<1>2. TimerType'
  BY <1>1 DEF TimerType
<1>3. ASSUME NEW u \in TimThreads
      PROVE  ThreadSafe(tim_thread'[u], tim_timer'[u], tim_itimer'[u])
  <2>1. CASE u = t
    BY <1>1, <2>1
  <2>2. CASE u # t
    <3>1. /\ tim_thread'[u] = tim_thread[u] /\ tim_timer'[u] = tim_timer[u]
          /\ tim_itimer'[u] = tim_itimer[u]
      BY <1>1, <2>2
    <3> QED BY <3>1 DEF TimerInv
  <2> QED BY <2>1, <2>2
<1> QED BY <1>2, <1>3 DEF TimerInv

LEMMA TypeFacts ==
    ASSUME TimerInv, NEW t \in TimThreads
    PROVE  /\ TimerType /\ FutexListed /\ FutexOrder /\ fut_list \in Seq(TimThreads)
           /\ tim_thread[t] \in ThreadRecords /\ tim_timer[t] \in Timers
           /\ tim_itimer[t] \in Itimers /\ tim_itimer[t].armed \in BOOLEAN
           /\ ThreadSafe(tim_thread[t], tim_timer[t], tim_itimer[t])
           /\ tim_thread = [tim_thread EXCEPT ![t] = tim_thread[t]]
           /\ tim_timer = [tim_timer EXCEPT ![t] = tim_timer[t]]
           /\ tim_itimer = [tim_itimer EXCEPT ![t] = tim_itimer[t]]
BY DEF TimerInv, TimerType, Itimers

\* A thread that is not on the list of the futex changes.
LEMMA UnlistedThread ==
    ASSUME TimerInv, NEW t \in TimThreads, NEW th \in ThreadRecords,
           tim_thread' = [tim_thread EXCEPT ![t] = th], fut_list' = fut_list,
           tim_thread[t].pc \notin {"sleep", "awake", "zombie"}
    PROVE  FutexListed' /\ FutexOrder'
<1>1. tim_thread \in [TimThreads -> ThreadRecords]
  BY DEF TimerInv, TimerType
<1>2. \A u \in TimThreads : tim_thread[u].pc \in {"sleep", "awake", "zombie"} =>
         tim_thread'[u] = tim_thread[u]
  BY <1>1
<1> QED BY <1>2, ListKept DEF TimerInv

LEMMA NanosleepStep ==
    ASSUME TimerInv, NEW t \in TimThreads, NEW time \in Durations, clock_nanosleep(t, time)
    PROVE  TimerInv'
<1> DEFINE th == [tim_thread[t] EXCEPT !.pc = "sleep", !.call = "nanosleep"]
           it == arm(time)
<1>1. /\ tim_thread' = [tim_thread EXCEPT ![t] = th] /\ tim_timer' = [tim_timer EXCEPT ![t] = it]
      /\ tim_itimer' = tim_itimer /\ fut_list' = fut_list /\ tim_thread[t].pc = "run"
  BY DEF clock_nanosleep, TimerInv, TimerType
<1>2. th \in ThreadRecords /\ th.pc = "sleep"
  <2>1. tim_thread[t] \in ThreadRecords
    BY TypeFacts
  <2> QED BY <2>1 DEF ThreadRecords
<1>3. it \in Timers /\ ExactTimer(it)
  BY DisarmedFacts, TimerAssumption
<1> HIDE DEF th, it
<1>4. ThreadSafe(th, it, tim_itimer[t])
  BY <1>2, <1>3 DEF ThreadSafe, WokenFor
<1>5. FutexListed' /\ FutexOrder'
  BY <1>1, <1>2, UnlistedThread
<1> QED BY <1>1, <1>2, <1>3, <1>4, <1>5, TypeFacts, OneThread

LEMMA SetitimerStep ==
    ASSUME TimerInv, NEW t \in TimThreads, NEW time \in Durations,
           NEW i \in {ZeroTime} \cup Intervals, setitimer(t, time, i)
    PROVE  TimerInv'
<1> DEFINE al == IF time = ZeroTime THEN [armed |-> FALSE, remaining |-> ZeroTime,
                                          interval |-> ZeroTime]
                 ELSE [armed |-> TRUE, remaining |-> time, interval |-> i]
<1>1. /\ tim_itimer' = [tim_itimer EXCEPT ![t] = al] /\ tim_thread[t].pc = "run"
      /\ UNCHANGED <<tim_thread, tim_timer, fut_word, fut_list>>
  BY DEF setitimer
<1>2. al \in Itimers
  BY SpecFacts, TimerAssumption DEF Itimers
<1> HIDE DEF al
<1>3. ThreadSafe(tim_thread[t], tim_timer[t], al)
  BY <1>1, TypeFacts DEF ThreadSafe
<1>4. FutexListed' /\ FutexOrder'
  BY <1>1, TypeFacts DEF FutexListed, FutexOrder
<1> QED BY <1>1, <1>2, <1>3, <1>4, TypeFacts, OneThread

LEMMA FutexWaitStep ==
    ASSUME TimerInv, NEW t \in TimThreads, NEW e \in {0, 1},
           NEW timeouts \in {{}} \cup {{time} : time \in Durations}, futex_wait(t, e, timeouts)
    PROVE  TimerInv'
<1> DEFINE th == [tim_thread[t] EXCEPT !.pc = "sleep", !.call = "futex"]
           it == IF timeouts = {} THEN Disarmed ELSE arm(CHOOSE time \in timeouts : TRUE)
           s == fut_list
           r == Append(s, t)
           n == Len(s) + 1
<1>1. /\ tim_thread' = [tim_thread EXCEPT ![t] = th] /\ tim_timer' = [tim_timer EXCEPT ![t] = it]
      /\ tim_itimer' = tim_itimer /\ fut_list' = r /\ tim_thread[t].pc = "run"
  BY DEF futex_wait, futex_listed, TimerInv, TimerType
<1>2. th \in ThreadRecords /\ th.pc = "sleep" /\ th.call = "futex"
  <2>1. tim_thread[t] \in ThreadRecords
    BY TypeFacts
  <2> QED BY <2>1 DEF ThreadRecords
<1>3. it \in Timers /\ ExactTimer(it)
  BY DisarmedFacts, TimerAssumption
<1> HIDE DEF th, it
<1>4. ThreadSafe(th, it, tim_itimer[t])
  BY <1>2, <1>3 DEF ThreadSafe, WokenFor
<1>5. s \in Seq(TimThreads) /\ DOMAIN s = 1 .. Len(s)
  BY TypeFacts
<1>6. /\ r \in Seq(TimThreads) /\ Len(r) = n /\ Len(s) \in Nat /\ r[n] = t
      /\ DOMAIN r = 1 .. n /\ \A i \in 1 .. Len(s) : r[i] = s[i]
  <2> HIDE DEF s
  <2> QED BY <1>5
<1>7. \A i \in 1 .. Len(s) : s[i] \in TimThreads /\ s[i] # t /\ tim_thread'[s[i]] = tim_thread[s[i]]
  <2>1. \A i \in 1 .. Len(s) : s[i] \in TimThreads
    BY <1>5
  <2>2. \A i \in 1 .. Len(s) : tim_thread[s[i]].pc # "run"
    BY TypeFacts DEF FutexListed
  <2> QED BY <1>1, <2>1, <2>2 DEF TimerInv, TimerType
<1>8. tim_thread'[t] = th
  BY <1>1 DEF TimerInv, TimerType
<1>9. FutexListed /\ FutexOrder
  BY DEF TimerInv
<1> HIDE DEF r
<1>a. \A i \in 1 .. n : i = n \/ i \in 1 .. Len(s)
  BY <1>6
<1>10. FutexListed'
  <2>1. ASSUME NEW i \in 1 .. n
        PROVE  /\ tim_thread'[r[i]].pc \in {"sleep", "awake", "zombie"}
               /\ tim_thread'[r[i]].call = "futex"
    <3>1. CASE i = n
      BY <1>2, <1>6, <1>8, <3>1
    <3>2. CASE i \in 1 .. Len(s)
      BY <1>6, <1>7, <1>9, <3>2 DEF FutexListed
    <3> QED BY <1>a, <3>1, <3>2
  <2>2. ASSUME NEW i \in 1 .. n, NEW j \in 1 .. n, r[i] = r[j]
        PROVE  i = j
    <3>1. CASE i = n
      BY <1>6, <1>7, <1>a, <2>2, <3>1
    <3>2. CASE j = n
      BY <1>6, <1>7, <1>a, <2>2, <3>2
    <3>3. CASE i \in 1 .. Len(s) /\ j \in 1 .. Len(s)
      BY <1>6, <1>9, <2>2, <3>3 DEF FutexListed
    <3> QED BY <1>a, <3>1, <3>2, <3>3
  <2> QED BY <1>1, <1>6, <2>1, <2>2 DEF FutexListed
<1>11. FutexOrder'
  <2> SUFFICES ASSUME NEW i \in 1 .. n, NEW j \in 1 .. n, i < j,
                      tim_thread'[r[j]].pc = "awake", tim_thread'[r[j]].by = "futex"
               PROVE  tim_thread'[r[i]].pc # "sleep"
    BY <1>1, <1>6 DEF FutexOrder
  <2>1. j # n
    BY <1>2, <1>6, <1>8
  <2>2. j \in 1 .. Len(s) /\ i \in 1 .. Len(s)
    BY <1>6, <1>a, <2>1
  <2> QED BY <1>5, <1>6, <1>7, <1>9, <2>2 DEF FutexOrder
<1> QED BY <1>1, <1>2, <1>3, <1>4, <1>6, <1>10, <1>11, TypeFacts, OneThread

LEMMA ReturnStep ==
    ASSUME TimerInv, NEW t \in TimThreads, sleep_return(t)
    PROVE  TimerInv'
<1> DEFINE th == [tim_thread[t] EXCEPT !.pc = "returned"]
           it == [tim_timer[t] EXCEPT !.armed = FALSE, !.remaining = ZeroTime]
<1>0. /\ tim_thread[t] \in ThreadRecords /\ tim_timer[t] \in Timers
      /\ ThreadSafe(tim_thread[t], tim_timer[t], tim_itimer[t])
  BY TypeFacts
<1>1. /\ tim_thread' = [tim_thread EXCEPT ![t] = th] /\ tim_timer' = [tim_timer EXCEPT ![t] = it]
      /\ tim_itimer' = tim_itimer /\ fut_list' = Without(fut_list, t) /\ tim_thread[t].pc = "awake"
  BY <1>0 DEF sleep_return, wait_result, TimerInv, TimerType, ThreadRecords
<1>2. /\ th \in ThreadRecords /\ th.pc = "returned" /\ th.by = tim_thread[t].by
      /\ th.call = tim_thread[t].call
  BY <1>0 DEF ThreadRecords
<1>3. /\ it \in Timers /\ ~it.armed /\ it.fired = tim_timer[t].fired
      /\ it.duration = tim_timer[t].duration /\ it.elapsed = tim_timer[t].elapsed
      /\ it.ticks = tim_timer[t].ticks
  BY <1>0, SpecFacts DEF Timers
<1> HIDE DEF th, it
<1>4. ThreadSafe(th, it, tim_itimer[t])
  BY <1>0, <1>1, <1>2, <1>3 DEF ThreadSafe, WokenFor, ExactTimer
<1>5. fut_list' \in Seq(TimThreads) /\ FutexListed' /\ FutexOrder'
  <2>1. \A u \in TimThreads \ {t} : tim_thread'[u] = tim_thread[u]
    BY <1>1 DEF TimerInv, TimerType
  <2> QED BY <1>1, <2>1, TypeFacts, ListRemoved
<1> QED BY <1>1, <1>2, <1>3, <1>4, <1>5, TypeFacts, OneThread

LEMMA EndsStep ==
    ASSUME TimerInv, NEW t \in TimThreads, sleep_ends(t)
    PROVE  TimerInv'
<1> DEFINE th == [pc |-> "run", call |-> "none", by |-> "none", signal |-> FALSE]
<1>1. /\ tim_thread' = [tim_thread EXCEPT ![t] = th]
      /\ tim_timer' = [tim_timer EXCEPT ![t] = Disarmed]
      /\ tim_itimer' = tim_itimer /\ fut_list' = fut_list /\ tim_thread[t].pc = "returned"
  BY DEF sleep_ends
<1>2. th \in ThreadRecords /\ th.pc = "run"
  BY DEF ThreadRecords
<1> HIDE DEF th
<1>3. ThreadSafe(th, Disarmed, tim_itimer[t])
  BY <1>2, DisarmedFacts DEF ThreadSafe, WokenFor
<1>4. FutexListed' /\ FutexOrder'
  BY <1>1, <1>2, UnlistedThread
<1> QED BY <1>1, <1>2, <1>3, <1>4, DisarmedFacts, TypeFacts, OneThread

\* Signals and the end of a thread: its timers are left alone.
LEMMA SignalledStep ==
    ASSUME TimerInv, NEW t \in TimThreads, tim_signal(t) \/ tim_dispatch(t) \/ tim_terminate(t)
    PROVE  TimerInv'
<1>0. /\ tim_thread[t] \in ThreadRecords /\ tim_thread \in [TimThreads -> ThreadRecords]
      /\ ThreadSafe(tim_thread[t], tim_timer[t], tim_itimer[t])
  BY TypeFacts DEF TimerType
<1>1. UNCHANGED <<tim_timer, tim_itimer, fut_list>>
  BY DEF tim_signal, tim_dispatch, tim_terminate
<1>a. /\ tim_timer' = [tim_timer EXCEPT ![t] = tim_timer[t]]
      /\ tim_itimer' = [tim_itimer EXCEPT ![t] = tim_itimer[t]] /\ fut_list' \in Seq(TimThreads)
      /\ tim_timer[t] \in Timers /\ tim_itimer[t] \in Itimers
  BY <1>1, TypeFacts
<1>2. ASSUME NEW b \in BOOLEAN, tim_thread[t].pc = "run",
             tim_thread' = [tim_thread EXCEPT ![t].signal = b]
      PROVE  TimerInv'
  <2> DEFINE th == [tim_thread[t] EXCEPT !.signal = b]
  <2>1. tim_thread' = [tim_thread EXCEPT ![t] = th]
    BY <1>0, <1>2
  <2>2. th \in ThreadRecords /\ th.pc = "run"
    BY <1>0, <1>2 DEF ThreadRecords
  <2> HIDE DEF th
  <2>3. ThreadSafe(th, tim_timer[t], tim_itimer[t])
    BY <1>0, <2>2 DEF ThreadSafe, WokenFor
  <2>4. FutexListed' /\ FutexOrder'
    BY <1>1, <1>2, <2>1, <2>2, UnlistedThread
  <2> QED BY <1>a, <2>1, <2>2, <2>3, <2>4, OneThread
<1>3. CASE tim_thread[t].pc = "sleep" /\ tim_thread' = Woken(tim_thread, t, "signal")
  <2> DEFINE th == [tim_thread[t] EXCEPT !.pc = "awake", !.by = "signal"]
  <2>1. tim_thread' = [tim_thread EXCEPT ![t] = th]
    BY <1>0, <1>3 DEF Woken
  <2>2. th \in ThreadRecords /\ th.pc = "awake" /\ th.by = "signal" /\ th.call = tim_thread[t].call
    BY <1>0 DEF ThreadRecords
  <2> HIDE DEF th
  <2>3. ThreadSafe(th, tim_timer[t], tim_itimer[t])
    BY <1>0, <2>2 DEF ThreadSafe, WokenFor
  <2>4. FutexListed' /\ FutexOrder'
    BY <1>0, <1>1, <2>1, <2>2, TypeFacts, ListKept
  <2> QED BY <1>a, <2>1, <2>2, <2>3, <2>4, OneThread
<1>4. CASE tim_terminate(t)
  <2> DEFINE th == [tim_thread[t] EXCEPT !.pc = "zombie"]
  <2>1. tim_thread' = [tim_thread EXCEPT ![t] = th]
    BY <1>0, <1>4 DEF tim_terminate
  <2>2. th \in ThreadRecords /\ th.pc = "zombie" /\ th.call = tim_thread[t].call
    BY <1>0 DEF ThreadRecords
  <2> HIDE DEF th
  <2>3. ThreadSafe(th, tim_timer[t], tim_itimer[t])
    BY <1>0, <2>2 DEF ThreadSafe, WokenFor
  <2>4. FutexListed' /\ FutexOrder'
    BY <1>0, <1>1, <2>1, <2>2, TypeFacts, ListKept
  <2> QED BY <1>a, <2>1, <2>2, <2>3, <2>4, OneThread
<1> QED BY <1>2, <1>3, <1>4 DEF tim_signal, tim_dispatch

LEMMA DestroyStep ==
    ASSUME TimerInv, NEW t \in TimThreads, tim_destroy(t)
    PROVE  TimerInv'
<1> DEFINE th == [tim_thread[t] EXCEPT !.pc = "gone"]
           al == [tim_itimer[t] EXCEPT !.armed = FALSE]
<1>0. tim_thread[t] \in ThreadRecords /\ tim_itimer[t] \in Itimers
  BY TypeFacts
<1>1. /\ tim_thread' = [tim_thread EXCEPT ![t] = th]
      /\ tim_timer' = [tim_timer EXCEPT ![t] = Disarmed]
      /\ tim_itimer' = [tim_itimer EXCEPT ![t] = al] /\ fut_list' = Without(fut_list, t)
  BY DEF tim_destroy, TimerInv, TimerType
<1>2. th \in ThreadRecords /\ th.pc = "gone" /\ al \in Itimers /\ ~al.armed
  BY <1>0 DEF ThreadRecords, Itimers
<1> HIDE DEF th, al
<1>3. ThreadSafe(th, Disarmed, al)
  BY <1>2, DisarmedFacts DEF ThreadSafe, WokenFor
<1>4. fut_list' \in Seq(TimThreads) /\ FutexListed' /\ FutexOrder'
  <2>1. \A u \in TimThreads \ {t} : tim_thread'[u] = tim_thread[u]
    BY <1>1 DEF TimerInv, TimerType
  <2> QED BY <1>1, <2>1, TypeFacts, ListRemoved
<1> QED BY <1>1, <1>2, <1>3, <1>4, DisarmedFacts, OneThread

\* FUTEX_WAKE: the first listeners are told.
LEMMA FutexWakeStep ==
    ASSUME TimerInv, NEW n \in Int, tim_thread' = futex_wake(n),
           UNCHANGED <<tim_timer, tim_itimer, fut_list>>
    PROVE  TimerInv'
<1> DEFINE s == fut_list
           told == {s[i] : i \in {j \in DOMAIN s : j <= n}}
<1>0. /\ TimerType /\ FutexListed /\ FutexOrder /\ s \in Seq(TimThreads)
      /\ tim_thread \in [TimThreads -> ThreadRecords] /\ DOMAIN s = 1 .. Len(s)
  BY DEF TimerInv, TimerType
<1>1. \A i \in 1 .. Len(s) : s[i] \in TimThreads
  BY <1>0
<1>2. ASSUME NEW t \in TimThreads
      PROVE  /\ tim_thread'[t] = tim_thread[t]
                \/ /\ t \in told /\ tim_thread[t].pc \in {"sleep", "awake"}
                   /\ tim_thread'[t] = [tim_thread[t] EXCEPT !.pc = "awake",
                         !.by = IF tim_thread[t].pc = "awake" /\ @ = "signal" THEN @ ELSE "futex"]
             /\ t \in told => tim_thread'[t].pc # "sleep"
             /\ tim_thread'[t] \in ThreadRecords
             /\ tim_thread'[t].call = tim_thread[t].call
  <2> DEFINE b == IF tim_thread[t].pc = "awake" /\ tim_thread[t].by = "signal"
                  THEN tim_thread[t].by ELSE "futex"
             th == [tim_thread[t] EXCEPT !.pc = "awake", !.by = b]
  <2>1. tim_thread[t] \in ThreadRecords
    BY <1>0
  <2>2. tim_thread'[t] = IF t \notin told \/ tim_thread[t].pc \notin {"sleep", "awake"}
                         THEN tim_thread[t] ELSE th
    BY DEF futex_wake
  <2>3. b \in {"none", "signal", "timer", "futex"}
    OBVIOUS
  <2> HIDE DEF told
  <2>4. th \in ThreadRecords /\ th.pc = "awake" /\ th.call = tim_thread[t].call
    <3> HIDE DEF b
    <3> QED BY <2>1, <2>3 DEF ThreadRecords
  <2> QED BY <2>1, <2>2, <2>4
<1>3. ASSUME NEW t \in told
      PROVE  t \in TimThreads /\ tim_thread[t].call = "futex"
  BY <1>0, <1>1 DEF FutexListed
<1>4. \A i \in 1 .. Len(s) : s[i] \in told => i <= n
  BY <1>0 DEF FutexListed
<1>5. \A i \in 1 .. Len(s) : i <= n => s[i] \in told
  BY <1>0
<1> HIDE DEF told
<1>6. ASSUME NEW t \in TimThreads
      PROVE  ThreadSafe(tim_thread'[t], tim_timer'[t], tim_itimer'[t])
  <2>0. ThreadSafe(tim_thread[t], tim_timer[t], tim_itimer[t]) /\ tim_thread[t] \in ThreadRecords
    BY <1>0 DEF TimerInv
  <2>1. CASE tim_thread'[t] = tim_thread[t]
    BY <2>0, <2>1
  <2> DEFINE b == IF tim_thread[t].pc = "awake" /\ tim_thread[t].by = "signal"
                  THEN tim_thread[t].by ELSE "futex"
  <2>2. CASE /\ t \in told /\ tim_thread[t].pc \in {"sleep", "awake"}
             /\ tim_thread'[t] = [tim_thread[t] EXCEPT !.pc = "awake", !.by = b]
    <3>1. b \in {"signal", "futex"}
      OBVIOUS
    <3> HIDE DEF b
    <3>2. /\ tim_thread'[t].pc = "awake" /\ tim_thread'[t].by = b
          /\ tim_thread'[t].call = tim_thread[t].call
      BY <2>0, <2>2 DEF ThreadRecords
    <3>3. tim_thread[t].call = "futex"
      BY <1>3, <2>2
    <3> QED BY <2>0, <3>1, <3>2, <3>3 DEF ThreadSafe, WokenFor
  <2> QED BY <1>2, <2>1, <2>2
<1>7. \A t \in TimThreads : tim_thread'[t] \in ThreadRecords
  BY <1>2
<1>8. TimerType'
  <2>1. tim_thread' = [t \in TimThreads |-> tim_thread'[t]]
    BY DEF futex_wake
  <2> QED BY <1>0, <1>7, <2>1 DEF TimerType
<1>9. FutexListed'
  <2>1. ASSUME NEW i \in 1 .. Len(s)
        PROVE  /\ tim_thread'[s[i]].pc \in {"sleep", "awake", "zombie"}
               /\ tim_thread'[s[i]].call = "futex"
    <3>1. s[i] \in TimThreads /\ tim_thread[s[i]].pc \in {"sleep", "awake", "zombie"}
          /\ tim_thread[s[i]].call = "futex" /\ tim_thread[s[i]] \in ThreadRecords
      BY <1>0, <1>1 DEF FutexListed
    <3> DEFINE t == s[i]
               b == IF tim_thread[t].pc = "awake" /\ tim_thread[t].by = "signal"
                    THEN tim_thread[t].by ELSE "futex"
    <3> HIDE DEF t
    <3>2. CASE tim_thread'[t] = tim_thread[t]
      BY <3>1, <3>2 DEF t
    <3>3. CASE tim_thread'[t] = [tim_thread[t] EXCEPT !.pc = "awake", !.by = b]
      <4>1. tim_thread[t] \in ThreadRecords /\ tim_thread[t].call = "futex"
        BY <3>1 DEF t
      <4> HIDE DEF b
      <4>2. tim_thread'[t].pc = "awake" /\ tim_thread'[t].call = "futex"
        BY <3>3, <4>1 DEF ThreadRecords
      <4> QED BY <4>2 DEF t
    <3> QED BY <1>2, <3>1, <3>2, <3>3 DEF t
  <2> QED BY <1>0, <2>1 DEF FutexListed
<1>10. FutexOrder'
  <2> SUFFICES ASSUME NEW i \in 1 .. Len(s), NEW j \in 1 .. Len(s), i < j,
                      tim_thread'[s[j]].pc = "awake", tim_thread'[s[j]].by = "futex"
               PROVE  tim_thread'[s[i]].pc # "sleep"
    BY <1>0 DEF FutexOrder
  <2>1. CASE tim_thread'[s[j]] = tim_thread[s[j]]
    <3>1. tim_thread[s[i]].pc # "sleep"
      BY <1>0, <2>1 DEF FutexOrder
    <3>2. tim_thread'[s[i]] = tim_thread[s[i]] \/ s[i] \in told
      BY <1>1, <1>2
    <3> QED BY <1>1, <1>2, <3>1, <3>2
  <2>2. CASE s[j] \in told
    <3>1. i <= n
      BY <1>0, <1>4, <2>2
    <3> QED BY <1>1, <1>2, <1>5, <3>1
  <2> QED BY <1>1, <1>2, <2>1, <2>2
<1> QED BY <1>6, <1>8, <1>9, <1>10 DEF TimerInv

\* The timer interrupt.
LEMMA UpdateStep ==
    ASSUME TimerInv, NEW interval \in Intervals, update_time(interval)
    PROVE  TimerInv'
<1>0. /\ TimerType /\ FutexListed /\ FutexOrder /\ interval \in TimeSpecs
      /\ fut_list' = fut_list
  BY TimerAssumption DEF TimerInv, update_time
<1> DEFINE Fires(t) == tim_timer[t].armed /\ tim_timer'[t].fired
           Alarm(t) == Alarmed(t, interval)
<1>1. PICK first \in {"timer", "signal"} :
         tim_thread' = [t \in TimThreads |->
            LET th == tim_thread[t]
                fires == tim_timer[t].armed /\ tim_timer'[t].fired
                alarm == Alarmed(t, interval)
            IN  CASE th.pc = "sleep" /\ (fires \/ alarm) ->
                       [th EXCEPT !.pc = "awake",
                          !.by = IF alarm /\ (~fires \/ first = "signal") THEN "signal" ELSE "timer"]
                  [] th.pc = "awake" /\ fires /\ th.by # "signal" -> [th EXCEPT !.by = "timer"]
                  [] th.pc = "run" /\ alarm -> [th EXCEPT !.signal = TRUE]
                  [] OTHER -> th]
  BY DEF update_time
<1>2. ASSUME NEW t \in TimThreads
      PROVE  /\ tim_timer'[t] \in Timers /\ ExactTimer(tim_timer'[t])
             /\ tim_timer'[t].armed => tim_timer[t].armed
             /\ tim_timer[t].fired => tim_timer'[t].fired
  <2>1. tim_timer[t] \in Timers /\ ExactTimer(tim_timer[t])
    BY DEF TimerInv, TimerType, ThreadSafe
  <2>2. tim_timer'[t] = IF tim_timer[t].armed THEN Counted(tim_timer[t], interval)
                        ELSE tim_timer[t]
    BY DEF update_time
  <2>3. CASE tim_timer[t].armed
    <3>1. ~tim_timer[t].fired
      BY <2>1, <2>3 DEF ExactTimer
    <3> QED BY <1>0, <2>1, <2>2, <2>3, <3>1, CountedExact
  <2>4. CASE ~tim_timer[t].armed
    BY <2>1, <2>2, <2>4
  <2> QED BY <2>3, <2>4
<1>3. ASSUME NEW t \in TimThreads
      PROVE  tim_itimer'[t] \in Itimers /\ (tim_itimer'[t].armed => tim_itimer[t].armed)
  <2>1. tim_itimer[t] \in Itimers
    BY <1>0 DEF TimerType
  <2>2. tim_itimer'[t] = IF tim_itimer[t].armed THEN CountedItimer(tim_itimer[t], interval)
                         ELSE tim_itimer[t]
    BY DEF update_time
  <2>3. CASE tim_itimer[t].armed
    <3> DEFINE left == Minus(tim_itimer[t].remaining, interval)
    <3>1. left \in TimeSpecs
      BY <1>0, <2>1, MinusFacts DEF Itimers
    <3>2. CountedItimer(tim_itimer[t], interval) =
             [tim_itimer[t] EXCEPT
                !.remaining = IF left = ZeroTime THEN tim_itimer[t].interval ELSE left,
                !.armed = (left # ZeroTime \/ tim_itimer[t].interval # ZeroTime)]
      BY DEF CountedItimer
    <3> HIDE DEF left
    <3>3. CountedItimer(tim_itimer[t], interval) \in Itimers
      BY <2>1, <3>1, <3>2 DEF Itimers
    <3> QED BY <2>2, <2>3, <3>3
  <2>4. CASE ~tim_itimer[t].armed
    BY <2>1, <2>2, <2>4
  <2> QED BY <2>3, <2>4
<1>4. ASSUME NEW t \in TimThreads
      PROVE  \/ tim_thread'[t] = tim_thread[t]
             \/ /\ tim_thread[t].pc = "sleep"
                /\ tim_thread'[t] = [tim_thread[t] EXCEPT !.pc = "awake", !.by = "signal"]
             \/ /\ tim_thread[t].pc = "sleep" /\ Fires(t)
                /\ tim_thread'[t] = [tim_thread[t] EXCEPT !.pc = "awake", !.by = "timer"]
             \/ /\ tim_thread[t].pc = "awake" /\ Fires(t)
                /\ tim_thread'[t] = [tim_thread[t] EXCEPT !.by = "timer"]
             \/ /\ tim_thread[t].pc = "run"
                /\ tim_thread'[t] = [tim_thread[t] EXCEPT !.signal = TRUE]
  <2> DEFINE th == tim_thread[t]
             fires == Fires(t)
             alarm == Alarm(t)
             c1 == th.pc = "sleep" /\ (fires \/ alarm)
             c2 == th.pc = "awake" /\ fires /\ th.by # "signal"
             c3 == th.pc = "run" /\ alarm
             v1 == [th EXCEPT !.pc = "awake",
                      !.by = IF alarm /\ (~fires \/ first = "signal") THEN "signal" ELSE "timer"]
             v2 == [th EXCEPT !.by = "timer"]
             v3 == [th EXCEPT !.signal = TRUE]
  <2>1. tim_thread'[t] = CASE c1 -> v1 [] c2 -> v2 [] c3 -> v3 [] OTHER -> th
    BY <1>1
  <2>2. ~(c1 /\ c2) /\ ~(c1 /\ c3) /\ ~(c2 /\ c3)
    OBVIOUS
  <2> HIDE DEF c1, c2, c3, v1, v2, v3
  <2>3. CASE c1
    <3>1. tim_thread'[t] = v1
      BY <2>1, <2>2, <2>3
    <3>2. CASE alarm /\ (~fires \/ first = "signal")
      BY <2>3, <3>1, <3>2 DEF c1, v1
    <3>3. CASE ~(alarm /\ (~fires \/ first = "signal"))
      <4>1. fires
        BY <2>3, <3>3 DEF c1
      <4> QED BY <2>3, <3>1, <3>3, <4>1 DEF c1, v1
    <3> QED BY <3>2, <3>3
  <2>4. CASE c2
    <3>1. tim_thread'[t] = v2
      BY <2>1, <2>2, <2>4
    <3> QED BY <2>4, <3>1 DEF c2, v2
  <2>5. CASE c3
    <3>1. tim_thread'[t] = v3
      BY <2>1, <2>2, <2>5
    <3> QED BY <2>5, <3>1 DEF c3, v3
  <2>6. CASE ~c1 /\ ~c2 /\ ~c3
    BY <2>1, <2>6
  <2> QED BY <2>3, <2>4, <2>5, <2>6
<1> HIDE DEF Fires
<1>5. ASSUME NEW t \in TimThreads
      PROVE  /\ tim_thread'[t] \in ThreadRecords
             /\ ThreadSafe(tim_thread'[t], tim_timer'[t], tim_itimer'[t])
             /\ tim_thread[t].pc \in {"sleep", "awake", "zombie"} =>
                  /\ tim_thread'[t].pc \in {"sleep", "awake", "zombie"}
                  /\ tim_thread'[t].call = tim_thread[t].call
                  /\ tim_thread'[t].pc = "sleep" => tim_thread[t].pc = "sleep"
                  /\ tim_thread'[t].pc = "awake" /\ tim_thread'[t].by = "futex" =>
                        tim_thread[t].pc = "awake" /\ tim_thread[t].by = "futex"
  <2> DEFINE th == tim_thread[t]
             it == tim_timer[t]
             nt == tim_thread'[t]
             ni == tim_timer'[t]
  <2>0. th \in ThreadRecords /\ ThreadSafe(th, it, tim_itimer[t])
    BY <1>0 DEF TimerInv, TimerType
  <2>a. /\ ExactTimer(ni) /\ (ni.armed => it.armed) /\ (it.fired => ni.fired)
        /\ (tim_itimer'[t].armed => tim_itimer[t].armed)
    BY <1>2, <1>3
  <2>b. Fires(t) => ni.fired
    BY DEF Fires
  <2>1. CASE nt = th
    BY <2>0, <2>1, <2>a DEF ThreadSafe, WokenFor
  <2>2. ASSUME NEW b \in {"signal", "timer"}, b = "timer" => ni.fired, th.pc \in {"sleep", "awake"},
               nt = [th EXCEPT !.pc = "awake", !.by = b]
        PROVE  /\ nt \in ThreadRecords /\ ThreadSafe(nt, ni, tim_itimer'[t]) /\ nt.pc = "awake"
               /\ nt.call = th.call /\ nt.by # "futex"
    <3>1. nt \in ThreadRecords /\ nt.pc = "awake" /\ nt.by = b /\ nt.call = th.call
      BY <2>0, <2>2 DEF ThreadRecords
    <3> QED BY <2>a, <2>2, <3>1 DEF ThreadSafe, WokenFor
  <2>3. CASE th.pc = "awake" /\ Fires(t) /\ nt = [th EXCEPT !.by = "timer"]
    <3>1. nt = [th EXCEPT !.pc = "awake", !.by = "timer"]
      BY <2>0, <2>3 DEF ThreadRecords
    <3> QED BY <2>2, <2>3, <2>b, <3>1
  <2>4. CASE th.pc = "run" /\ nt = [th EXCEPT !.signal = TRUE]
    <3>1. nt \in ThreadRecords /\ nt.pc = "run"
      BY <2>0, <2>4 DEF ThreadRecords
    <3> QED BY <2>4, <2>a, <3>1 DEF ThreadSafe, WokenFor
  <2> QED BY <1>4, <2>1, <2>2, <2>3, <2>4, <2>b
<1>6. TimerType'
  <2>1. /\ tim_thread' = [t \in TimThreads |-> tim_thread'[t]]
        /\ tim_timer' = [t \in TimThreads |-> tim_timer'[t]]
        /\ tim_itimer' = [t \in TimThreads |-> tim_itimer'[t]]
    BY DEF update_time
  <2> QED BY <1>0, <1>2, <1>3, <1>5, <2>1 DEF TimerType
<1>7. FutexListed' /\ FutexOrder'
  BY <1>0, <1>5, ListKept
<1> QED BY <1>5, <1>6, <1>7 DEF TimerInv

\* For any threads, durations and lengths of an interrupt: a timer fires in the
\* interrupt that completes its time and never much earlier (update_time, TimeSpec
\* -=), none that is armed belongs to a destroyed thread, the assertion of
\* nanosleep holds, and a futex wakes its waiters in their order.
THEOREM TimersSafe == TimerSpec => []TimerSafe
<1>1. TimerInv /\ [TimerNext]_timer_vars => TimerInv'
  <2> SUFFICES ASSUME TimerInv, [TimerNext]_timer_vars
               PROVE  TimerInv'
    OBVIOUS
  <2>1. CASE TimerSleeps
    BY <2>1, NanosleepStep, SetitimerStep DEF TimerSleeps
  <2>2. CASE FutexCalls
    <3>1. ASSUME NEW t \in TimThreads, NEW e \in {0, 1},
                 NEW timeouts \in {{}} \cup {{time} : time \in Durations}, futex_wait(t, e, timeouts)
          PROVE  TimerInv'
      BY <3>1, FutexWaitStep
    <3>2. ASSUME NEW t \in TimThreads, NEW v \in {0, 1},
                 NEW n \in {0, 1, Cardinality(TimThreads)}, syscall_futex_wake(t, v, n)
          PROVE  TimerInv'
      BY <3>2, TimerAssumption, FS_CardinalityType, FutexWakeStep DEF syscall_futex_wake
    <3> QED BY <2>2, <3>1, <3>2 DEF FutexCalls
  <2>3. CASE TimerEvents
    BY <2>3, ReturnStep, EndsStep, SignalledStep, DestroyStep, UpdateStep DEF TimerEvents
  <2>4. CASE UNCHANGED timer_vars
    BY <2>4 DEF timer_vars, TimerInv, TimerType, FutexListed, FutexOrder
  <2> QED BY <2>1, <2>2, <2>3, <2>4 DEF TimerNext
<1>2. TimerInv => TimerSafe
  <2> SUFFICES ASSUME TimerInv PROVE TimerExact /\ TimerStacks /\ TimerAssert
    BY DEF TimerInv, TimerSafe
  <2>1. TimerExact
    BY DEF TimerInv, ThreadSafe, ExactTimer, TimerExact
  <2>2. TimerStacks
    BY DEF TimerInv, ThreadSafe, TimerStacks
  <2>3. TimerAssert
    <3> SUFFICES ASSUME NEW t \in TimThreads, tim_thread[t].pc = "returned",
                        tim_thread[t].call = "nanosleep", tim_thread[t].by # "signal"
                 PROVE  tim_timer[t].fired
      BY DEF TimerAssert
    <3>1. tim_thread[t] \in ThreadRecords /\ WokenFor(tim_thread[t], tim_timer[t])
      BY DEF TimerInv, TimerType, ThreadSafe
    <3> QED BY <3>1 DEF WokenFor, ThreadRecords
  <2> QED BY <2>1, <2>2, <2>3
<1> QED BY <1>1, <1>2, TimerStarts, PTL DEF TimerSpec
-----------------------------------------------------------------------------
\* The rings of the xHCI driver.  The last slot of an EnqueueRing is the link.
LastSlot == TrbRingSize - 1
Bit == {0, 1}
Turn(p, k, n) == IF p + k < n THEN p + k ELSE p + k - n
StageSet == {"none", "command", "setup", "data", "status", "event_data", "normal"}
Trb == [stage : StageSet, request : Nat]
RingSlots == [0 .. LastSlot -> [trb : Trb, cycle : Bit]]
RingRecord == [slot : RingSlots, enqueue_index : 0 .. LastSlot - 1, cycle_bit : Bit,
               hc_index : 0 .. LastSlot, hc_cycle : Bit, halted : BOOLEAN, due : Seq(Trb)]

\* The slots before the driver's index have its cycle bit, the others not.
Cycled(r) == \A i \in 0 .. LastSlot - 1 :
    r.slot[i].cycle = IF i < r.enqueue_index THEN r.cycle_bit ELSE 1 - r.cycle_bit
\* The controller at h with cycle bit d, behind the driver in the same turn or
\* before the link that the driver has passed.
Between(r, h, d) ==
    \/ d = r.cycle_bit /\ h <= r.enqueue_index /\ Len(r.due) = r.enqueue_index - h
    \/ /\ d = 1 - r.cycle_bit /\ r.enqueue_index < h
       /\ Len(r.due) = LastSlot - h + r.enqueue_index
       /\ r.slot[LastSlot].cycle = d
Holds(r, h) == \A k \in 1 .. Len(r.due) : r.slot[Turn(h, k - 1, LastSlot)].trb = r.due[k]
RingAt(r, h, d) == h \in 0 .. LastSlot - 1 /\ d \in Bit /\ Between(r, h, d) /\ Holds(r, h)
RingWell(r) == /\ r \in RingRecord
               /\ Cycled(r)
               /\ r.hc_index = LastSlot => r.slot[LastSlot].cycle = r.hc_cycle
               /\ RingAt(r, HcAt(r)[1], HcAt(r)[2])

\* The same of the event ring, where the controller writes and the driver reads.
EventTrb == [stage : StageSet, trb_phy : Nat \X Nat, ok : BOOLEAN, request : Nat]
EventSlots == [0 .. EventRingSize - 1 -> [trb : EventTrb \cup {NoTRB}, cycle : Bit]]
EventRecord == [slot : EventSlots, dequeue_index : 0 .. EventRingSize - 1, cycle_bit : Bit,
                hc_index : 0 .. EventRingSize - 1, hc_cycle : Bit, due : Seq(EventTrb)]
EventsCycled(e) == \A i \in 0 .. EventRingSize - 1 :
    e.slot[i].cycle = IF i < e.hc_index THEN e.hc_cycle ELSE 1 - e.hc_cycle
EventsBetween(e) ==
    \/ /\ e.hc_cycle = e.cycle_bit /\ e.dequeue_index <= e.hc_index
       /\ Len(e.due) = e.hc_index - e.dequeue_index
    \/ /\ e.hc_cycle = 1 - e.cycle_bit /\ e.hc_index < e.dequeue_index
       /\ Len(e.due) = EventRingSize - e.dequeue_index + e.hc_index
EventsHold(e) == \A k \in 1 .. Len(e.due) :
    e.slot[Turn(e.dequeue_index, k - 1, EventRingSize)].trb = e.due[k]
EventsWell(e) == e \in EventRecord /\ EventsCycled(e) /\ EventsBetween(e) /\ EventsHold(e)

\* Every ring is well.
RingsWell == /\ xhci_ring \in [Rings -> RingRecord]
             /\ \A r \in Rings : RingWell(xhci_ring[r])

\* The coroutine is between two co_awaits, or has not started, or has returned.
Busy == {"sent", "checked", "suspended"}
Steps == {"none", "enable_slot", "address_device", "first_descriptor", "evaluate_context",
          "descriptor", "language", "string", "configuration", "config_string", "hid_report",
          "set_configuration", "configure_endpoint", "set_protocol"}
SetupRecord == [pc : {"start", "failed", "reset", "idle"} \cup Busy, port : Nat \ {0},
                again : Ports \cup {0}, step : Steps, has_result : BOOLEAN, ok : BOOLEAN,
                config : Seq(STRING), ptr : Nat]
SetupWell == /\ xhci_setup \in SetupRecord
             /\ xhci_setup.pc \in Busy => xhci_setup.port \in Ports
             /\ xhci_setup.pc \notin Busy => xhci_setup.step = "none"

\* The free list holds a request once.
Distinct(s) == \A i, j \in DOMAIN s : s[i] = s[j] => i = j
PoolWell == /\ xhci_request \in [free : Seq(1 .. Requests), trb_phy : [1 .. Requests -> Nat \X Nat]]
            /\ Distinct(xhci_request.free)

\* What one request leaves: nothing but reports.
Quiet(e) == \A i \in DOMAIN e.due : e.due[i].stage = "normal"
Drained(rings) == /\ rings[CommandRing].due = <<>> /\ rings[ControlRing].due = <<>>
                  /\ ~rings[ControlRing].halted
\* The request q is in the command ring, in the control ring, where a stage may
\* have failed, or in exactly one event.
OfTransfer == {"setup", "data", "status"}
CommandSent(q, rings, e, phy) ==
    /\ rings[CommandRing].due = <<[stage |-> "command", request |-> q]>>
    /\ rings[ControlRing].due = <<>> /\ ~rings[ControlRing].halted
    /\ phy = TrbPhy(CommandRing, rings[CommandRing]) /\ Quiet(e)
Transfer(s, q) == /\ Len(s) \in 1 .. 4 /\ s[Len(s)] = [stage |-> "event_data", request |-> q]
                  /\ \A i \in 1 .. Len(s) - 1 : s[i].stage \in OfTransfer /\ s[i].request = 0
Stray(ev, phy) == ev.stage \in OfTransfer /\ ev.request = 0 /\ ev.trb_phy # phy
TransferSent(q, rings, e, phy) ==
    /\ rings[CommandRing].due = <<>> /\ Transfer(rings[ControlRing].due, q)
    /\ phy = TrbPhy(ControlRing, rings[ControlRing])
    /\ \A i \in DOMAIN e.due : \/ e.due[i].stage = "normal"
                               \/ rings[ControlRing].halted /\ Stray(e.due[i], phy)
Answer(ev, q, phy) == \/ ev.stage = "event_data" /\ ev.request = q
                      \/ ev.stage = "command" /\ ev.request = 0 /\ ev.trb_phy = phy
Answered(q, rings, e, phy) ==
    /\ Drained(rings)
    /\ \E i \in DOMAIN e.due : /\ Answer(e.due[i], q, phy)
                               /\ \A j \in DOMAIN e.due : j # i => e.due[j].stage = "normal"
Tracked(q, rings, e, phy) == \/ CommandSent(q, rings, e, phy)
                             \/ TransferSent(q, rings, e, phy)
                             \/ Answered(q, rings, e, phy)
\* At most one request is in flight: the one the coroutine waits for.
Awaiting == xhci_setup.pc \in Busy /\ ~xhci_setup.has_result
RequestsWell ==
    /\ ~Awaiting => InFlight = {} /\ Drained(xhci_ring) /\ Quiet(xhci_events)
    /\ Awaiting => \E q \in 1 .. Requests :
                      /\ InFlight = {q}
                      /\ Tracked(q, xhci_ring, xhci_events, xhci_request.trb_phy[q])

\* A port's report is in its ring or in an event, never in both, and only of a
\* device that was found usable and whose port the setup has passed.
DeviceRecord == [hid_device : {"none", "mouse", "keyboard"}, endpoint : BOOLEAN, reports : Nat]
NormalTRB == [stage |-> "normal", request |-> 0]
IsReport(e, i) == e.due[i].stage = "normal"
ReportPort(e, i) == e.due[i].trb_phy[1]
DevicesWell(dev, rings) ==
    /\ dev \in [Ports -> DeviceRecord]
    /\ \A p \in Ports : /\ rings[p].due \in {<<>>, <<NormalTRB>>}
                        /\ rings[p].due # <<>> => dev[p].reports > 0
                        /\ dev[p].reports > 0 => Usable(dev[p])
ReportEvents(e, dev, rings) ==
    /\ \A i \in DOMAIN e.due : IsReport(e, i) =>
          /\ ReportPort(e, i) \in Ports
          /\ dev[ReportPort(e, i)].reports > 0
          /\ rings[ReportPort(e, i)].due = <<>>
    /\ \A i, j \in DOMAIN e.due :
          IsReport(e, i) /\ IsReport(e, j) /\ ReportPort(e, i) = ReportPort(e, j) => i = j
SetUp == {"set_configuration", "configure_endpoint", "set_protocol"}
FreshWell(s, dev) ==
    /\ \A p \in Ports : s.pc \in {"start", "failed", "reset"} \/ s.port <= p => dev[p].reports = 0
    /\ s.step \in SetUp => Usable(dev[s.port])
ReportsWell == /\ DevicesWell(xhci_device, xhci_ring)
               /\ ReportEvents(xhci_events, xhci_device, xhci_ring)
               /\ FreshWell(xhci_setup, xhci_device)

\* The inductive invariant of the driver.
XhciInv == RingsWell /\ EventsWell(xhci_events) /\ SetupWell /\ PoolWell /\ RequestsWell /\ ReportsWell

\* A controller on which every USB 3 port has its USB 2 companion.
Usb3Paired == \A p \in Ports : PortLayout[p].type = "usb3" => PairsOf(p) # {}
\* Never are both ports of a pair active.
PairInv == /\ xhci_port \in [Ports -> BOOLEAN]
           /\ xhci_setup.again \in Ports \cup {0}
           /\ \A p \in Ports : \A q \in PairsOf(p) : ~(xhci_port[p] /\ xhci_port[q])

LEMMA RingSize == LastSlot \in Nat /\ LastSlot >= 5 /\ TrbRingSize = LastSlot + 1
  BY XhciAssumption DEF LastSlot

\* What enqueue changes.
Enqueued(r, t, s) ==
    /\ s \in RingRecord
    /\ \A i \in 0 .. LastSlot - 1 :
          s.slot[i] = IF i = r.enqueue_index THEN [trb |-> t, cycle |-> r.cycle_bit] ELSE r.slot[i]
    /\ s.slot[LastSlot].cycle = IF r.enqueue_index + 1 = LastSlot THEN r.cycle_bit
                                ELSE r.slot[LastSlot].cycle
    /\ s.enqueue_index = IF r.enqueue_index + 1 = LastSlot THEN 0 ELSE r.enqueue_index + 1
    /\ s.cycle_bit = IF r.enqueue_index + 1 = LastSlot THEN 1 - r.cycle_bit ELSE r.cycle_bit
    /\ s.hc_index = r.hc_index /\ s.hc_cycle = r.hc_cycle /\ s.halted = r.halted
    /\ s.due = Append(r.due, t)

LEMMA EnqueueChanges ==
    ASSUME NEW r \in RingRecord, NEW t \in Trb
    PROVE  Enqueued(r, t, enqueue(r, t))
  <1> DEFINE last == r.enqueue_index + 1 = LastSlot
             x == [trb |-> t, cycle |-> r.cycle_bit]
             f == [r.slot EXCEPT ![r.enqueue_index] = x]
             slot2 == IF last THEN [f EXCEPT ![LastSlot].cycle = r.cycle_bit] ELSE f
  <1>1. r.slot \in RingSlots /\ r.enqueue_index \in 0 .. LastSlot - 1 /\ r.cycle_bit \in Bit
        /\ r.hc_index \in 0 .. LastSlot /\ r.hc_cycle \in Bit /\ r.halted \in BOOLEAN
        /\ r.due \in Seq(Trb)
    BY DEF RingRecord
  <1>2. slot2 \in RingSlots
        /\ \A i \in 0 .. LastSlot - 1 :
             slot2[i] = IF i = r.enqueue_index THEN [trb |-> t, cycle |-> r.cycle_bit] ELSE r.slot[i]
    <2>2. x \in [trb : Trb, cycle : Bit]
      BY <1>1
    <2> HIDE DEF x
    <2>3. f \in RingSlots /\ \A i \in 0 .. LastSlot : f[i] = IF i = r.enqueue_index THEN x ELSE r.slot[i]
      BY <1>1, <2>2, RingSize DEF RingSlots
    <2> HIDE DEF f, last
    <2>5. LastSlot \in 0 .. LastSlot /\ \A i \in 0 .. LastSlot - 1 : i \in 0 .. LastSlot /\ i # LastSlot
      BY RingSize
    <2>6. slot2 \in RingSlots
      BY <1>1, <2>3, <2>5 DEF RingSlots
    <2>7. \A i \in 0 .. LastSlot - 1 : slot2[i] = f[i]
      BY <2>3, <2>5 DEF RingSlots
    <2> QED BY <2>3, <2>5, <2>6, <2>7 DEF x
  <1>3. slot2[LastSlot].cycle = IF last THEN r.cycle_bit ELSE r.slot[LastSlot].cycle
    BY <1>1, RingSize DEF RingSlots
  <1>4. enqueue(r, t) = [r EXCEPT !.slot = slot2,
              !.enqueue_index = IF last THEN 0 ELSE @ + 1,
              !.cycle_bit = IF last THEN 1 - @ ELSE @,
              !.due = Append(@, t)]
    BY DEF enqueue, LastSlot
  <1> HIDE DEF slot2
  <1>5. enqueue(r, t) = [slot |-> slot2,
              enqueue_index |-> IF last THEN 0 ELSE r.enqueue_index + 1,
              cycle_bit |-> IF last THEN 1 - r.cycle_bit ELSE r.cycle_bit,
              hc_index |-> r.hc_index, hc_cycle |-> r.hc_cycle, halted |-> r.halted,
              due |-> Append(r.due, t)]
    BY <1>4 DEF RingRecord
  <1>6. Append(r.due, t) \in Seq(Trb)
    BY <1>1
  <1>7. (IF last THEN 0 ELSE r.enqueue_index + 1) \in 0 .. LastSlot - 1
        /\ (IF last THEN 1 - r.cycle_bit ELSE r.cycle_bit) \in Bit
    BY <1>1, RingSize DEF Bit
  <1>8. enqueue(r, t) \in RingRecord
    BY <1>1, <1>2, <1>5, <1>6, <1>7 DEF RingRecord
  <1> QED BY <1>2, <1>3, <1>5, <1>8 DEF Enqueued

\* The controller's place: behind the link it starts again, in the next turn.
LEMMA HcPlace ==
    ASSUME NEW r, RingWell(r)
    PROVE  /\ r.hc_index # LastSlot => HcAt(r) = <<r.hc_index, r.hc_cycle>>
           /\ r.hc_index = LastSlot => /\ HcAt(r) = <<0, 1 - r.hc_cycle>>
                                       /\ r.slot[LastSlot].cycle = r.hc_cycle
  BY DEF RingWell, HcAt, LastSlot

\* A ring with room stays well when a TRB is put in, and the controller's place
\* is the same.
LEMMA EnqueueWell ==
    ASSUME NEW r, NEW s, NEW t \in Trb, RingWell(r), Len(r.due) + 1 < LastSlot,
           Enqueued(r, t, s)
    PROVE  RingWell(s) /\ HcAt(s) = HcAt(r)
  <1> DEFINE n == LastSlot
             e == r.enqueue_index
             c == r.cycle_bit
             h == HcAt(r)[1]
             d == HcAt(r)[2]
             m == Len(r.due)
  <1>1. /\ e \in 0 .. n - 1 /\ c \in Bit /\ h \in 0 .. n - 1 /\ d \in Bit
        /\ m \in Nat /\ n \in Nat /\ n >= 5 /\ m + 1 < n /\ r.due \in Seq(Trb)
    BY RingSize DEF RingWell, RingRecord, RingAt
  <1>2. Between(r, h, d) /\ Holds(r, h) /\ Cycled(r)
    BY DEF RingWell, RingAt
  <1>3. e + 1 = n => d = c
    BY <1>1, <1>2 DEF Between
  <1>4. s.due = Append(r.due, t) /\ Len(s.due) = m + 1
    BY <1>1 DEF Enqueued
  <1>5. HcAt(s) = HcAt(r)
    <2>1. CASE r.hc_index = n
      <3>1. h = 0 /\ d = 1 - r.hc_cycle /\ r.hc_cycle \in Bit /\ r.slot[n].cycle = r.hc_cycle
        BY <2>1, HcPlace DEF RingWell, RingRecord
      <3>2. e + 1 # n
        BY <1>1, <1>2, <3>1 DEF Between
      <3>3. s.slot[n].cycle = r.slot[n].cycle /\ s.hc_index = r.hc_index /\ s.hc_cycle = r.hc_cycle
        BY <3>2 DEF Enqueued
      <3> QED BY <2>1, <3>1, <3>3 DEF HcAt, LastSlot
    <2>2. CASE r.hc_index # n
      BY <2>2 DEF HcAt, LastSlot, Enqueued
    <2> QED BY <2>1, <2>2
  <1>6. s.hc_index = n => s.slot[n].cycle = s.hc_cycle
    <2> SUFFICES ASSUME r.hc_index = n PROVE s.slot[n].cycle = s.hc_cycle
      BY DEF Enqueued
    <2>1. h = 0 /\ r.slot[n].cycle = r.hc_cycle
      BY HcPlace
    <2>2. e + 1 # n
      BY <1>1, <1>2, <2>1 DEF Between
    <2> QED BY <2>1, <2>2 DEF Enqueued
  <1>7. Cycled(s)
    <2> SUFFICES ASSUME NEW i \in 0 .. n - 1
                 PROVE  s.slot[i].cycle = IF i < s.enqueue_index THEN s.cycle_bit ELSE 1 - s.cycle_bit
      BY DEF Cycled
    <2>1. s.slot[i].cycle = IF i = e THEN c ELSE r.slot[i].cycle
      BY DEF Enqueued
    <2>2. r.slot[i].cycle = IF i < e THEN c ELSE 1 - c
      BY <1>2 DEF Cycled
    <2>3. s.enqueue_index = (IF e + 1 = n THEN 0 ELSE e + 1) /\ s.cycle_bit = IF e + 1 = n THEN 1 - c ELSE c
      BY DEF Enqueued
    <2> HIDE DEF n, e, c
    <2> QED BY <1>1, <2>1, <2>2, <2>3 DEF Bit
  <1>8. Between(s, h, d)
    <2>1. s.enqueue_index = (IF e + 1 = n THEN 0 ELSE e + 1) /\ s.cycle_bit = (IF e + 1 = n THEN 1 - c ELSE c)
          /\ s.slot[n].cycle = (IF e + 1 = n THEN c ELSE r.slot[n].cycle)
      BY DEF Enqueued
    <2> HIDE DEF n, e, c, h, d, m
    <2>2. CASE e + 1 = n
      <3>1. d = c /\ h <= e /\ m = e - h
        BY <1>1, <1>2, <1>3, <2>2 DEF Between, Bit, n, e, c, m
      <3>2. d = 1 - s.cycle_bit /\ s.enqueue_index < h /\ m + 1 = n - h + s.enqueue_index
            /\ s.slot[n].cycle = d
        BY <1>1, <2>1, <2>2, <3>1 DEF Bit
      <3> QED BY <3>2, <1>4 DEF Between, n
    <2>3. CASE e + 1 # n
      <3>1. \/ d = c /\ h <= e /\ m = e - h
            \/ d = 1 - c /\ e < h /\ m = n - h + e /\ r.slot[n].cycle = d
        BY <1>2 DEF Between, n, e, c, m
      <3>2. \/ d = s.cycle_bit /\ h <= s.enqueue_index /\ m + 1 = s.enqueue_index - h
            \/ d = 1 - s.cycle_bit /\ s.enqueue_index < h /\ m + 1 = n - h + s.enqueue_index
               /\ s.slot[n].cycle = d
        BY <1>1, <2>1, <2>3, <3>1 DEF Bit
      <3> QED BY <3>2, <1>4 DEF Between, n
    <2> QED BY <2>2, <2>3
  <1>9. Holds(s, h)
    <2> SUFFICES ASSUME NEW k \in 1 .. m + 1
                 PROVE  s.slot[Turn(h, k - 1, n)].trb = s.due[k]
      BY <1>4 DEF Holds
    <2>1. Turn(h, k - 1, n) \in 0 .. n - 1 /\ (Turn(h, k - 1, n) = e <=> k = m + 1)
      <3>1. \/ h <= e /\ m = e - h
            \/ e < h /\ m = n - h + e
        BY <1>2 DEF Between
      <3> HIDE DEF n, e, c, h, d, m
      <3> QED BY <1>1, <3>1 DEF Turn
    <2>2. s.slot[Turn(h, k - 1, n)].trb = IF k = m + 1 THEN t ELSE r.slot[Turn(h, k - 1, n)].trb
      BY <2>1 DEF Enqueued
    <2>3. k # m + 1 => r.slot[Turn(h, k - 1, n)].trb = r.due[k]
      <3>1. k # m + 1 => k \in 1 .. m
        BY <1>1
      <3> QED BY <3>1, <1>2 DEF Holds
    <2>4. s.due[k] = IF k = m + 1 THEN t ELSE r.due[k]
      BY <1>1, <1>4
    <2> QED BY <2>2, <2>3, <2>4
  <1> QED
    <2>1. RingAt(s, h, d)
      BY <1>1, <1>8, <1>9 DEF RingAt
    <2>2. s \in RingRecord
      BY DEF Enqueued
    <2> QED BY <1>5, <1>6, <1>7, <2>1, <2>2 DEF RingWell

\* The controller finds a TRB exactly when there is one, the first.
LEMMA HcFinds ==
    ASSUME NEW r, RingWell(r)
    PROVE  /\ HcAt(r)[1] \in 0 .. LastSlot - 1 /\ HcAt(r)[2] \in Bit
           /\ HcReady(r) <=> r.due # <<>>
           /\ r.due # <<>> => r.slot[HcAt(r)[1]].trb = r.due[1]
  <1> DEFINE n == LastSlot
             h == HcAt(r)[1]
             d == HcAt(r)[2]
  <1>1. /\ r.enqueue_index \in 0 .. n - 1 /\ r.cycle_bit \in Bit /\ h \in 0 .. n - 1 /\ d \in Bit
        /\ n \in Nat /\ r.due \in Seq(Trb) /\ Len(r.due) \in Nat
    BY RingSize DEF RingWell, RingRecord, RingAt
  <1>2. Between(r, h, d) /\ Holds(r, h) /\ Cycled(r)
    BY DEF RingWell, RingAt
  <1>3. r.due # <<>> <=> Len(r.due) > 0
    BY <1>1
  <1>4. r.slot[h].cycle = IF h < r.enqueue_index THEN r.cycle_bit ELSE 1 - r.cycle_bit
    BY <1>1, <1>2 DEF Cycled
  <1>5. HcReady(r) <=> h # n /\ r.slot[h].cycle = d
    BY DEF HcReady, LastSlot
  <1>6. HcReady(r) <=> Len(r.due) > 0
    <2>1. \/ d = r.cycle_bit /\ h <= r.enqueue_index /\ Len(r.due) = r.enqueue_index - h
          \/ d = 1 - r.cycle_bit /\ r.enqueue_index < h /\ Len(r.due) = n - h + r.enqueue_index
      BY <1>2 DEF Between
    <2> HIDE DEF h, d, n
    <2> QED BY <1>1, <1>4, <1>5, <2>1 DEF Bit
  <1>7. r.due # <<>> => r.slot[h].trb = r.due[1]
    <2>1. Turn(h, 1 - 1, n) = h
      BY <1>1 DEF Turn
    <2>2. r.due # <<>> => 1 \in 1 .. Len(r.due)
      BY <1>1, <1>3
    <2> QED BY <2>1, <2>2, <1>2 DEF Holds
  <1> QED BY <1>1, <1>3, <1>6, <1>7

\* What the controller changes when it takes a TRB.
Taken(r, s) ==
    /\ s \in RingRecord
    /\ s.slot = r.slot /\ s.enqueue_index = r.enqueue_index /\ s.cycle_bit = r.cycle_bit
    /\ s.hc_index = HcAt(r)[1] + 1 /\ s.hc_cycle = HcAt(r)[2] /\ s.halted = r.halted
    /\ s.due = Tail(r.due)

LEMMA HcTakenChanges ==
    ASSUME NEW r, RingWell(r), r.due # <<>>
    PROVE  Taken(r, HcTaken(r))
  <1>1. HcAt(r)[1] + 1 \in 0 .. LastSlot /\ HcAt(r)[2] \in Bit
    BY HcFinds, RingSize
  <1>2. r \in RingRecord
    BY DEF RingWell
  <1>3. r.due \in Seq(Trb)
    BY <1>2 DEF RingRecord
  <1>4. Tail(r.due) \in Seq(Trb)
    BY <1>3
  <1>5. HcTaken(r) = [slot |-> r.slot, enqueue_index |-> r.enqueue_index, cycle_bit |-> r.cycle_bit,
                      hc_index |-> HcAt(r)[1] + 1, hc_cycle |-> HcAt(r)[2], halted |-> r.halted,
                      due |-> Tail(r.due)]
    <2> DEFINE a == HcAt(r)[1] + 1
               b == HcAt(r)[2]
    <2>1. HcTaken(r) = [r EXCEPT !.hc_index = a, !.hc_cycle = b, !.due = Tail(r.due)]
      BY DEF HcTaken
    <2> HIDE DEF a, b
    <2>2. HcTaken(r) = [slot |-> r.slot, enqueue_index |-> r.enqueue_index, cycle_bit |-> r.cycle_bit,
                      hc_index |-> a, hc_cycle |-> b, halted |-> r.halted, due |-> Tail(r.due)]
      BY <1>2, <2>1 DEF RingRecord
    <2> QED BY <2>2 DEF a, b
  <1> QED BY <1>1, <1>2, <1>4, <1>5 DEF Taken, RingRecord

LEMMA HcTakenWell ==
    ASSUME NEW r, NEW s, RingWell(r), r.due # <<>>, Taken(r, s)
    PROVE  RingWell(s)
  <1> DEFINE n == LastSlot
             h == HcAt(r)[1]
             d == HcAt(r)[2]
             e == r.enqueue_index
             c == r.cycle_bit
             m == Len(r.due)
             h2 == IF h + 1 = n THEN 0 ELSE h + 1
             d2 == IF h + 1 = n THEN 1 - d ELSE d
  <1>1. /\ e \in 0 .. n - 1 /\ c \in Bit /\ h \in 0 .. n - 1 /\ d \in Bit
        /\ n \in Nat /\ n >= 5 /\ r.due \in Seq(Trb) /\ m \in Nat /\ m > 0
    BY RingSize DEF RingWell, RingRecord, RingAt
  <1>2. Between(r, h, d) /\ Holds(r, h) /\ Cycled(r)
    BY DEF RingWell, RingAt
  <1>3. /\ s.slot = r.slot /\ s.enqueue_index = e /\ s.cycle_bit = c
        /\ s.hc_index = h + 1 /\ s.hc_cycle = d
        /\ s.due = Tail(r.due) /\ Len(s.due) = m - 1
    BY <1>1 DEF Taken
  <1>4. \/ d = c /\ h <= e /\ m = e - h
        \/ d = 1 - c /\ e < h /\ m = n - h + e /\ r.slot[n].cycle = d
    BY <1>2 DEF Between
  <1> HIDE DEF h, d, e, c, m, n
  <1>5. h + 1 = n => d = 1 - c /\ r.slot[n].cycle = d
    BY <1>1, <1>4 DEF Bit
  <1>6. HcAt(s) = <<h2, d2>>
    BY <1>1, <1>3, <1>5 DEF HcAt, LastSlot, n
  <1>7. h2 \in 0 .. n - 1 /\ d2 \in Bit
    BY <1>1 DEF Bit
  <1>8. \/ d2 = c /\ h2 <= e /\ m - 1 = e - h2
        \/ d2 = 1 - c /\ e < h2 /\ m - 1 = n - h2 + e /\ s.slot[n].cycle = d2
    BY <1>1, <1>3, <1>4, <1>5 DEF Bit
  <1>9. Between(s, h2, d2)
    BY <1>3, <1>8 DEF Between, n
  <1>10. Cycled(s)
    BY <1>2, <1>3 DEF Cycled, e, c
  <1>11. Holds(s, h2)
    <2> SUFFICES ASSUME NEW k \in 1 .. m - 1 PROVE s.slot[Turn(h2, k - 1, n)].trb = s.due[k]
      BY <1>3 DEF Holds, n
    <2>1. k + 1 \in 1 .. m /\ (k + 1) - 1 = k
      BY <1>1
    <2>2. Turn(h2, k - 1, n) = Turn(h, (k + 1) - 1, n)
      <3>1. k - 1 < n
        BY <1>1, <1>4
      <3> QED BY <1>1, <2>1, <3>1 DEF Turn
    <2>3. r.slot[Turn(h, (k + 1) - 1, n)].trb = r.due[k + 1]
      BY <1>2, <2>1 DEF Holds, n, m
    <2>4. s.due[k] = r.due[k + 1]
      BY <1>1, <1>3 DEF m
    <2> QED BY <1>3, <2>2, <2>3, <2>4
  <1> QED
    <2>1. RingAt(s, h2, d2)
      BY <1>7, <1>9, <1>11 DEF RingAt, n
    <2>2. s.hc_index = LastSlot => s.slot[LastSlot].cycle = s.hc_cycle
      BY <1>3, <1>5 DEF n
    <2>3. s \in RingRecord
      BY DEF Taken
    <2> QED BY <1>6, <1>10, <2>1, <2>2, <2>3 DEF RingWell

\* The last TRB put in is where TrbPhy says.
LEMMA LastPlace ==
    ASSUME NEW r, RingWell(r), r.due # <<>>, NEW x
    PROVE  /\ Len(r.due) = 1 => TrbPhy(x, r) = <<x, HcAt(r)[1]>>
           /\ Len(r.due) \in 2 .. LastSlot - 1 => TrbPhy(x, r) # <<x, HcAt(r)[1]>>
  <1> DEFINE n == LastSlot
             h == HcAt(r)[1]
             d == HcAt(r)[2]
             e == r.enqueue_index
             l == IF e = 0 THEN n - 1 ELSE e - 1
  <1>1. /\ e \in 0 .. n - 1 /\ h \in 0 .. n - 1 /\ n \in Nat /\ n >= 5 /\ Len(r.due) \in Nat
    BY RingSize DEF RingWell, RingRecord, RingAt
  <1>2. \/ h <= e /\ Len(r.due) = e - h
        \/ e < h /\ Len(r.due) = n - h + e
    BY DEF RingWell, RingAt, Between
  <1>3. TrbPhy(x, r) = <<x, l>>
    BY RingSize DEF TrbPhy
  <1> DEFINE m == Len(r.due)
  <1> HIDE DEF h, e, n, m
  <1>4. /\ m = 1 => l = h
        /\ m \in 2 .. n - 1 => l # h
    <2>1. e \in 0 .. n - 1 /\ h \in 0 .. n - 1 /\ n \in Nat /\ m \in Nat
          /\ ((h <= e /\ m = e - h) \/ (e < h /\ m = n - h + e))
      BY <1>1, <1>2 DEF m
    <2> QED BY ONLY <2>1
  <1> HIDE DEF l
  <1> QED BY <1>3, <1>4 DEF h, n, m

\* The controller finds exactly what the driver put in.
LEMMA VisibleIsDue ==
    ASSUME NEW r, RingWell(r), Len(r.due) < LastSlot
    PROVE  HcVisible(r) = r.due
  <1> DEFINE n == LastSlot
             h == HcAt(r)[1]
             d == HcAt(r)[2]
             e == r.enqueue_index
             c == r.cycle_bit
             m == Len(r.due)
             ready(k) == LET i == h + k IN
                         IF i < n THEN r.slot[i].cycle = d
                         ELSE r.slot[n].cycle = d /\ r.slot[i - n].cycle = 1 - d
             found == {k \in 0 .. n - 1 : \A j \in 0 .. k : ready(j)}
  <1>1. /\ e \in 0 .. n - 1 /\ c \in Bit /\ h \in 0 .. n - 1 /\ d \in Bit
        /\ n \in Nat /\ n >= 5 /\ r.due \in Seq(Trb) /\ m \in Nat /\ m < n
    BY RingSize DEF RingWell, RingRecord, RingAt
  <1>2. Holds(r, h) /\ Cycled(r)
    BY DEF RingWell, RingAt
  <1>3. \/ d = c /\ h <= e /\ m = e - h
        \/ d = 1 - c /\ e < h /\ m = n - h + e /\ r.slot[n].cycle = d
    BY DEF RingWell, RingAt, Between
  <1>4. HcVisible(r) = [k \in 1 .. Cardinality(found) |-> r.slot[(h + k - 1) % n].trb]
    BY DEF HcVisible, LastSlot
  <1>5. \A i \in 0 .. n - 1 : r.slot[i].cycle = IF i < e THEN c ELSE 1 - c
    BY <1>2 DEF Cycled
  <1> HIDE DEF n, h, d, e, c
  <1>6. ASSUME NEW k \in 0 .. m - 1 PROVE ready(k)
    <2>1. k \in Nat /\ k < m /\ h + k < n + n
      BY <1>1
    <2>2. CASE h + k < n
      <3>1. h + k \in 0 .. n - 1
        BY <1>1, <2>1, <2>2
      <3>2. r.slot[h + k].cycle = IF h + k < e THEN c ELSE 1 - c
        BY <3>1, <1>5
      <3>3. r.slot[h + k].cycle = d
        <4> HIDE DEF m
        <4> QED BY <1>1, <1>3, <2>1, <3>2
      <3> QED BY <2>2, <3>3
    <2>3. CASE ~(h + k < n)
      <3>1. h + k - n \in 0 .. n - 1
        BY <1>1, <2>1, <2>3
      <3>2. r.slot[h + k - n].cycle = IF h + k - n < e THEN c ELSE 1 - c
        BY <3>1, <1>5
      <3>3. r.slot[h + k - n].cycle = 1 - d /\ r.slot[n].cycle = d
        <4> HIDE DEF m
        <4> QED BY <1>1, <1>3, <2>1, <2>3, <3>2 DEF Bit
      <3>4. h + k - n = (h + k) - n
        BY <1>1, <2>1
      <3> QED BY <2>3, <3>3, <3>4
    <2> QED BY <2>2, <2>3
  <1>7. ~ready(m)
    <2>2. CASE h + m < n
      <3>1. h + m \in 0 .. n - 1 /\ h + m = e
        <4> HIDE DEF m
        <4> QED BY <1>1, <1>3, <2>2
      <3>2. r.slot[h + m].cycle = 1 - c
        BY <3>1, <1>5, <1>1
      <3>3. d = c
        <4> HIDE DEF m
        <4> QED BY <1>1, <1>3, <2>2
      <3> QED BY <2>2, <3>2, <3>3, <1>1 DEF Bit
    <2>3. CASE ~(h + m < n)
      <3>1. h + m - n \in 0 .. n - 1 /\ h + m - n = e /\ d = 1 - c
        <4> HIDE DEF m
        <4> QED BY <1>1, <1>3, <2>3
      <3>2. r.slot[h + m - n].cycle = 1 - c
        BY <3>1, <1>5, <1>1
      <3> QED BY <2>3, <3>1, <3>2, <1>1 DEF Bit
    <2> QED BY <2>2, <2>3
  <1>8. found = 0 .. m - 1
    <2> HIDE DEF ready, m
    <2>1. ASSUME NEW k \in 0 .. m - 1 PROVE k \in found
      <3>1. k \in 0 .. n - 1 /\ \A j \in 0 .. k : j \in 0 .. m - 1
        BY <1>1, <2>1
      <3> QED BY <3>1, <1>6
    <2>2. ASSUME NEW k \in found PROVE k \in 0 .. m - 1
      <3>1. k \in 0 .. n - 1 /\ \A j \in 0 .. k : ready(j)
        OBVIOUS
      <3>2. m \notin 0 .. k
        BY <3>1, <1>7
      <3> QED BY <1>1, <3>1, <3>2
    <2> QED BY <2>1, <2>2
  <1> HIDE DEF found
  <1>9. Cardinality(found) = m
    <2> HIDE DEF m
    <2>1. Cardinality(0 .. m - 1) = IF 0 > m - 1 THEN 0 ELSE (m - 1) - 0 + 1
      BY <1>1, FS_Interval
    <2> QED BY <2>1, <1>8, <1>1
  <1>10. ASSUME NEW k \in 1 .. m PROVE (h + k - 1) % n = Turn(h, k - 1, n)
    <2> HIDE DEF m
    <2> DEFINE x == h + k - 1
               y == Turn(h, k - 1, n)
               q == IF h + (k - 1) < n THEN 0 ELSE 1
    <2>1. x \in Int /\ n \in Nat \ {0} /\ q \in Int /\ y \in 0 .. n - 1
      BY <1>1 DEF Turn
    <2>2. x = q * n + y
      BY <1>1 DEF Turn
    <2> HIDE DEF x, y, q
    <2>3. x % n = y
      BY <2>1, <2>2, Remainder
    <2> QED BY <2>3 DEF x, y
  <1>11. ASSUME NEW k \in 1 .. m PROVE r.slot[(h + k - 1) % n].trb = r.due[k]
    BY <1>10, <1>2 DEF Holds, n
  <1>12. HcVisible(r) = [k \in 1 .. m |-> r.due[k]]
    BY <1>4, <1>9, <1>11
  <1> QED BY <1>1, <1>12

-----------------------------------------------------------------------------
LEMMA EventSize == EventRingSize \in Nat /\ EventRingSize >= 2
  BY XhciAssumption

\* The driver finds an event exactly when there is one, the first.
LEMMA EventFound ==
    ASSUME NEW e, EventsWell(e)
    PROVE  /\ (e.slot[e.dequeue_index].cycle = e.cycle_bit) <=> e.due # <<>>
           /\ e.due # <<>> => e.slot[e.dequeue_index].trb = e.due[1]
  <1> DEFINE n == EventRingSize
             h == e.hc_index
             d == e.hc_cycle
             p == e.dequeue_index
             c == e.cycle_bit
             m == Len(e.due)
  <1>1. /\ p \in 0 .. n - 1 /\ c \in Bit /\ h \in 0 .. n - 1 /\ d \in Bit
        /\ n \in Nat /\ n >= 2 /\ e.due \in Seq(EventTrb) /\ m \in Nat
    BY EventSize DEF EventsWell, EventRecord
  <1>2. EventsHold(e) /\ EventsCycled(e)
    BY DEF EventsWell
  <1>3. \/ d = c /\ p <= h /\ m = h - p
        \/ d = 1 - c /\ h < p /\ m = n - p + h
    BY DEF EventsWell, EventsBetween
  <1>4. e.slot[p].cycle = IF p < h THEN d ELSE 1 - d
    BY <1>1, <1>2 DEF EventsCycled
  <1>5. e.due # <<>> <=> m > 0
    BY <1>1
  <1>6. e.slot[p].cycle = c <=> m > 0
    <2> HIDE DEF n, h, d, p, c, m
    <2> QED BY <1>1, <1>3, <1>4 DEF Bit
  <1>7. m > 0 => e.slot[p].trb = e.due[1]
    <2>1. Turn(p, 1 - 1, n) = p
      BY <1>1 DEF Turn
    <2>2. m > 0 => 1 \in 1 .. m
      BY <1>1
    <2> QED BY <1>2, <2>1, <2>2 DEF EventsHold
  <1> QED BY <1>5, <1>6, <1>7

\* What the controller changes when it posts an event.
Posted(e, t, f) ==
    /\ f \in EventRecord
    /\ \A i \in 0 .. EventRingSize - 1 :
          f.slot[i] = IF i = e.hc_index THEN [trb |-> t, cycle |-> e.hc_cycle] ELSE e.slot[i]
    /\ f.hc_index = IF e.hc_index + 1 = EventRingSize THEN 0 ELSE e.hc_index + 1
    /\ f.hc_cycle = IF e.hc_index + 1 = EventRingSize THEN 1 - e.hc_cycle ELSE e.hc_cycle
    /\ f.dequeue_index = e.dequeue_index /\ f.cycle_bit = e.cycle_bit
    /\ f.due = Append(e.due, t)

LEMMA PostChanges ==
    ASSUME NEW e \in EventRecord, NEW t \in EventTrb
    PROVE  Posted(e, t, HcPosted(e, t))
  <1> DEFINE last == e.hc_index + 1 = EventRingSize
             x == [trb |-> t, cycle |-> e.hc_cycle]
             slot2 == [e.slot EXCEPT ![e.hc_index] = x]
             i2 == IF last THEN 0 ELSE e.hc_index + 1
             c2 == IF last THEN 1 - e.hc_cycle ELSE e.hc_cycle
  <1>1. e.slot \in EventSlots /\ e.hc_index \in 0 .. EventRingSize - 1 /\ e.hc_cycle \in Bit
        /\ e.dequeue_index \in 0 .. EventRingSize - 1 /\ e.cycle_bit \in Bit
        /\ e.due \in Seq(EventTrb)
    BY DEF EventRecord
  <1>2. x \in [trb : EventTrb \cup {NoTRB}, cycle : Bit]
    BY <1>1
  <1> HIDE DEF x
  <1>3. slot2 \in EventSlots
        /\ \A i \in 0 .. EventRingSize - 1 : slot2[i] = IF i = e.hc_index THEN x ELSE e.slot[i]
    BY <1>1, <1>2 DEF EventSlots
  <1>4. HcPosted(e, t) = [e EXCEPT !.slot = slot2, !.hc_index = i2, !.hc_cycle = c2,
                                   !.due = Append(e.due, t)]
    BY DEF HcPosted, x
  <1>5. i2 \in 0 .. EventRingSize - 1 /\ c2 \in Bit
    BY <1>1, EventSize DEF Bit
  <1>6. Append(e.due, t) \in Seq(EventTrb)
    BY <1>1
  <1> HIDE DEF slot2, i2, c2
  <1>7. HcPosted(e, t) = [slot |-> slot2, dequeue_index |-> e.dequeue_index,
             cycle_bit |-> e.cycle_bit, hc_index |-> i2, hc_cycle |-> c2, due |-> Append(e.due, t)]
    BY <1>4 DEF EventRecord
  <1>8. HcPosted(e, t) \in EventRecord
    BY <1>1, <1>3, <1>5, <1>6, <1>7 DEF EventRecord
  <1> QED BY <1>3, <1>7, <1>8 DEF Posted, x, i2, c2

LEMMA PostWell ==
    ASSUME NEW e, NEW f, NEW t \in EventTrb, EventsWell(e), HcRoom(e), Posted(e, t, f)
    PROVE  EventsWell(f)
  <1> DEFINE n == EventRingSize
             h == e.hc_index
             d == e.hc_cycle
             p == e.dequeue_index
             c == e.cycle_bit
             m == Len(e.due)
             h2 == IF h + 1 = n THEN 0 ELSE h + 1
             d2 == IF h + 1 = n THEN 1 - d ELSE d
  <1>1. /\ p \in 0 .. n - 1 /\ c \in Bit /\ h \in 0 .. n - 1 /\ d \in Bit
        /\ n \in Nat /\ n >= 2 /\ e.due \in Seq(EventTrb) /\ m \in Nat
    BY EventSize DEF EventsWell, EventRecord
  <1>2. EventsHold(e) /\ EventsCycled(e)
    BY DEF EventsWell
  <1>3. \/ d = c /\ p <= h /\ m = h - p
        \/ d = 1 - c /\ h < p /\ m = n - p + h
    BY DEF EventsWell, EventsBetween
  <1>4. h2 # p
    <2>1. (h + 1) % n # p
      BY DEF HcRoom
    <2> DEFINE x == h + 1
               q == IF h + 1 = n THEN 1 ELSE 0
    <2>2. x \in Int /\ n \in Nat \ {0} /\ q \in Int /\ h2 \in 0 .. n - 1
      BY <1>1
    <2>3. x = q * n + h2
      BY <1>1
    <2> HIDE DEF x, q, h2
    <2>4. x % n = h2
      BY <2>2, <2>3, Remainder
    <2> QED BY <2>1, <2>4 DEF x
  <1>5. /\ f.hc_index = h2 /\ f.hc_cycle = d2 /\ f.dequeue_index = p /\ f.cycle_bit = c
        /\ f.due = Append(e.due, t) /\ Len(f.due) = m + 1
        /\ \A i \in 0 .. n - 1 : f.slot[i] = IF i = h THEN [trb |-> t, cycle |-> d] ELSE e.slot[i]
    BY <1>1 DEF Posted
  <1>6. \A i \in 0 .. n - 1 : e.slot[i].cycle = IF i < h THEN d ELSE 1 - d
    BY <1>2 DEF EventsCycled
  <1> HIDE DEF n, h, d, p, c, m
  <1>7. \/ d2 = c /\ p <= h2 /\ m + 1 = h2 - p
        \/ d2 = 1 - c /\ h2 < p /\ m + 1 = n - p + h2
    BY <1>1, <1>3, <1>4 DEF Bit
  <1>8. EventsBetween(f)
    BY <1>5, <1>7 DEF EventsBetween, n
  <1>9. EventsCycled(f)
    <2> SUFFICES ASSUME NEW i \in 0 .. n - 1
                 PROVE  f.slot[i].cycle = IF i < h2 THEN d2 ELSE 1 - d2
      BY <1>5 DEF EventsCycled, n
    <2>1. f.slot[i].cycle = IF i = h THEN d ELSE e.slot[i].cycle
      BY <1>5
    <2>2. e.slot[i].cycle = IF i < h THEN d ELSE 1 - d
      BY <1>6
    <2> QED BY <1>1, <2>1, <2>2 DEF Bit
  <1>10. EventsHold(f)
    <2> SUFFICES ASSUME NEW k \in 1 .. m + 1 PROVE f.slot[Turn(p, k - 1, n)].trb = f.due[k]
      BY <1>5 DEF EventsHold, n
    <2>1. Turn(p, k - 1, n) \in 0 .. n - 1 /\ (Turn(p, k - 1, n) = h <=> k = m + 1)
      BY <1>1, <1>3, <1>4 DEF Turn
    <2>2. f.slot[Turn(p, k - 1, n)].trb = IF k = m + 1 THEN t ELSE e.slot[Turn(p, k - 1, n)].trb
      BY <2>1, <1>5
    <2>3. k # m + 1 => k \in 1 .. m
      BY <1>1
    <2>4. k # m + 1 => e.slot[Turn(p, k - 1, n)].trb = e.due[k]
      BY <2>3, <1>2 DEF EventsHold, p, n, m
    <2>5. f.due[k] = IF k = m + 1 THEN t ELSE e.due[k]
      BY <1>1, <1>5 DEF m
    <2> QED BY <2>2, <2>4, <2>5
  <1> QED BY <1>8, <1>9, <1>10 DEF EventsWell, Posted

\* What the driver changes when it reads an event.
Dequeued(e, f) ==
    /\ f \in EventRecord
    /\ f.slot = e.slot /\ f.hc_index = e.hc_index /\ f.hc_cycle = e.hc_cycle
    /\ f.dequeue_index = IF e.dequeue_index + 1 = EventRingSize THEN 0 ELSE e.dequeue_index + 1
    /\ f.cycle_bit = IF e.dequeue_index + 1 = EventRingSize THEN 1 - e.cycle_bit ELSE e.cycle_bit
    /\ f.due = Tail(e.due)

LEMMA DequeueChanges ==
    ASSUME NEW e \in EventRecord, e.due # <<>>
    PROVE  Dequeued(e, dequeue(e))
  <1> DEFINE last == e.dequeue_index + 1 = EventRingSize
             i2 == IF last THEN 0 ELSE e.dequeue_index + 1
             c2 == IF last THEN 1 - e.cycle_bit ELSE e.cycle_bit
  <1>1. e.slot \in EventSlots /\ e.hc_index \in 0 .. EventRingSize - 1 /\ e.hc_cycle \in Bit
        /\ e.dequeue_index \in 0 .. EventRingSize - 1 /\ e.cycle_bit \in Bit
        /\ e.due \in Seq(EventTrb)
    BY DEF EventRecord
  <1>2. dequeue(e) = [e EXCEPT !.dequeue_index = i2, !.cycle_bit = c2, !.due = Tail(e.due)]
    BY DEF dequeue
  <1>3. i2 \in 0 .. EventRingSize - 1 /\ c2 \in Bit
    BY <1>1, EventSize DEF Bit
  <1>4. Tail(e.due) \in Seq(EventTrb)
    BY <1>1
  <1> HIDE DEF i2, c2
  <1>5. dequeue(e) = [slot |-> e.slot, dequeue_index |-> i2, cycle_bit |-> c2,
                      hc_index |-> e.hc_index, hc_cycle |-> e.hc_cycle, due |-> Tail(e.due)]
    BY <1>2 DEF EventRecord
  <1>6. dequeue(e) \in EventRecord
    BY <1>1, <1>3, <1>4, <1>5 DEF EventRecord
  <1> QED BY <1>5, <1>6 DEF Dequeued, i2, c2

LEMMA DequeueWell ==
    ASSUME NEW e, NEW f, EventsWell(e), e.due # <<>>, Dequeued(e, f)
    PROVE  EventsWell(f)
  <1> DEFINE n == EventRingSize
             h == e.hc_index
             d == e.hc_cycle
             p == e.dequeue_index
             c == e.cycle_bit
             m == Len(e.due)
             p2 == IF p + 1 = n THEN 0 ELSE p + 1
             c2 == IF p + 1 = n THEN 1 - c ELSE c
  <1>1. /\ p \in 0 .. n - 1 /\ c \in Bit /\ h \in 0 .. n - 1 /\ d \in Bit
        /\ n \in Nat /\ n >= 2 /\ e.due \in Seq(EventTrb) /\ m \in Nat /\ m > 0
    BY EventSize DEF EventsWell, EventRecord
  <1>2. EventsHold(e) /\ EventsCycled(e)
    BY DEF EventsWell
  <1>3. \/ d = c /\ p <= h /\ m = h - p
        \/ d = 1 - c /\ h < p /\ m = n - p + h
    BY DEF EventsWell, EventsBetween
  <1>5. /\ f.hc_index = h /\ f.hc_cycle = d /\ f.dequeue_index = p2 /\ f.cycle_bit = c2
        /\ f.due = Tail(e.due) /\ Len(f.due) = m - 1 /\ f.slot = e.slot
    BY <1>1 DEF Dequeued
  <1> HIDE DEF n, h, d, p, c, m
  <1>7. \/ d = c2 /\ p2 <= h /\ m - 1 = h - p2
        \/ d = 1 - c2 /\ h < p2 /\ m - 1 = n - p2 + h
    BY <1>1, <1>3 DEF Bit
  <1>8. EventsBetween(f)
    BY <1>5, <1>7 DEF EventsBetween, n
  <1>9. EventsCycled(f)
    BY <1>2, <1>5 DEF EventsCycled, h, d
  <1>10. EventsHold(f)
    <2> SUFFICES ASSUME NEW k \in 1 .. m - 1 PROVE e.slot[Turn(p2, k - 1, n)].trb = f.due[k]
      BY <1>5 DEF EventsHold, n
    <2>1. k + 1 \in 1 .. m /\ (k + 1) - 1 = k /\ k < n
      BY <1>1, <1>3
    <2>2. Turn(p2, k - 1, n) = Turn(p, (k + 1) - 1, n)
      BY <1>1, <2>1 DEF Turn
    <2>3. e.slot[Turn(p, (k + 1) - 1, n)].trb = e.due[k + 1]
      BY <1>2, <2>1 DEF EventsHold, n, m, p
    <2>4. f.due[k] = e.due[k + 1]
      BY <1>1, <1>5 DEF m
    <2> QED BY <2>2, <2>3, <2>4
  <1> QED BY <1>8, <1>9, <1>10 DEF EventsWell, Dequeued

-----------------------------------------------------------------------------
\* EnqueueAll is a loop of enqueue.
EnqueueRun(f, r, trbs) ==
    /\ f[0] = r /\ EnqueueAll(r, trbs) = f[Len(trbs)]
    /\ \A k \in 1 .. Len(trbs) : f[k] = enqueue(f[k - 1], trbs[k])
LEMMA EnqueueRuns ==
    ASSUME NEW r \in RingRecord, NEW trbs \in Seq(Trb)
    PROVE  \E f : EnqueueRun(f, r, trbs)
  <1> DEFINE n == Len(trbs)
             Body(g) == [k \in 0 .. n |-> IF k = 0 THEN r ELSE enqueue(g[k - 1], trbs[k])]
             F == CHOOSE g : g = Body(g)
             next == [k \in 1 .. n |-> [x \in RingRecord |-> enqueue(x, trbs[k])]]
  <1>1. n \in Nat /\ \A k \in 1 .. n : trbs[k] \in Trb
    OBVIOUS
  <1>2. EnqueueAll(r, trbs) = F[n]
    BY DEF EnqueueAll
  <1>3. ASSUME NEW k \in 1 .. n, NEW x \in RingRecord PROVE enqueue(x, trbs[k]) \in RingRecord
    BY <1>1, EnqueueChanges DEF Enqueued
  <1>4. next \in [1 .. n -> [RingRecord -> RingRecord]]
    BY <1>3
  <1>5. \A k \in 1 .. n, x \in RingRecord : next[k][x] = enqueue(x, trbs[k])
    OBVIOUS
  <1> HIDE DEF next, n
  <1>6. PICK f : f \in [0 .. n -> RingRecord] /\ f[0] = r /\ \A k \in 1 .. n : f[k] = next[k][f[k - 1]]
    <2>1. LoopSteps(next, n, RingRecord)
      BY <1>1, <1>4 DEF LoopSteps
    <2>2. \E f : LoopRun(f, next, n, RingRecord, r)
      BY <2>1, LoopRuns
    <2> QED BY <2>2 DEF LoopRun
  <1>7. \A k \in 1 .. n : f[k] = enqueue(f[k - 1], trbs[k])
    <2> SUFFICES ASSUME NEW k \in 1 .. n PROVE f[k] = enqueue(f[k - 1], trbs[k])
      OBVIOUS
    <2>1. k - 1 \in 0 .. n
      BY <1>1
    <2> QED BY <1>5, <1>6, <2>1
  <1>8. f = Body(f)
    <2>1. \A k \in 0 .. n : f[k] = Body(f)[k]
      <3> SUFFICES ASSUME NEW k \in 0 .. n PROVE f[k] = Body(f)[k]
        OBVIOUS
      <3>1. CASE k = 0
        BY <1>6, <3>1
      <3>2. CASE k # 0
        <4>1. k \in 1 .. n
          BY <1>1, <3>2
        <4> QED BY <1>7, <3>2, <4>1
      <3> QED BY <3>1, <3>2
    <2>2. f = [k \in 0 .. n |-> f[k]] /\ Body(f) = [k \in 0 .. n |-> Body(f)[k]]
      BY <1>6
    <2> HIDE DEF Body
    <2> QED BY <2>1, <2>2
  <1>9. F = Body(F)
    <2> HIDE DEF Body
    <2> QED BY <1>8
  <1> HIDE DEF F
  <1>10. F[0] = r /\ \A k \in 1 .. n : F[k] = enqueue(F[k - 1], trbs[k])
    <2>1. \A k \in 0 .. n : F[k] = Body(F)[k]
      <3> HIDE DEF Body
      <3> QED BY <1>9
    <2>2. 0 \in 0 .. n /\ \A k \in 1 .. n : k \in 0 .. n /\ k # 0
      BY <1>1
    <2> QED BY <2>1, <2>2
  <1> QED BY <1>2, <1>10 DEF EnqueueRun, n

\* A transfer that is put into an empty ring is what the ring then has.
LEMMA EnqueueAllWell ==
    ASSUME NEW r, RingWell(r), r.due = <<>>, NEW trbs \in Seq(Trb), Len(trbs) \in 1 .. 4
    PROVE  LET s == EnqueueAll(r, trbs) IN
           s \in RingRecord /\ RingWell(s) /\ s.due = trbs /\ s.halted = r.halted
  <1> DEFINE n == Len(trbs)
             Good(s, k) == /\ RingWell(s) /\ s.halted = r.halted
                           /\ Len(s.due) = k /\ \A j \in 1 .. k : s.due[j] = trbs[j]
  <1>1. n \in 1 .. 4 /\ (\A k \in 1 .. n : trbs[k] \in Trb) /\ r \in RingRecord
    BY DEF RingWell
  <1>2. PICK f : EnqueueRun(f, r, trbs)
    BY <1>1, EnqueueRuns
  <1>3. f[0] = r /\ EnqueueAll(r, trbs) = f[n] /\ \A k \in 1 .. n : f[k] = enqueue(f[k - 1], trbs[k])
    BY <1>2 DEF EnqueueRun
  <1>4. ASSUME NEW k \in 0 .. n - 1, Good(f[k], k) PROVE Good(f[k + 1], k + 1)
    <2> HIDE DEF n
    <2> DEFINE x == f[k]
               t == trbs[k + 1]
               y == f[k + 1]
    <2>1. k + 1 \in 1 .. n /\ (k + 1) - 1 = k /\ k \in Nat /\ k < 4
      BY <1>1
    <2>2. y = enqueue(x, t) /\ t \in Trb
      BY <1>1, <1>3, <2>1
    <2>3. RingWell(x) /\ x.halted = r.halted /\ Len(x.due) = k /\ \A j \in 1 .. k : x.due[j] = trbs[j]
      BY <1>4
    <2> HIDE DEF x, y, t
    <2>4. x \in RingRecord /\ x.due \in Seq(Trb)
      BY <2>3 DEF RingWell, RingRecord
    <2>5. Enqueued(x, t, y)
      BY <2>2, <2>4, EnqueueChanges
    <2>6. Len(x.due) + 1 < LastSlot
      BY <2>1, <2>3, RingSize
    <2>7. RingWell(y)
      BY <2>2, <2>3, <2>5, <2>6, EnqueueWell
    <2>8. y.halted = r.halted /\ y.due = Append(x.due, t)
      BY <2>3, <2>5 DEF Enqueued
    <2>9. Len(y.due) = k + 1 /\ \A j \in 1 .. k + 1 : y.due[j] = IF j = k + 1 THEN t ELSE x.due[j]
      BY <2>1, <2>3, <2>4, <2>8
    <2>10. \A j \in 1 .. k + 1 : y.due[j] = trbs[j]
      <3> SUFFICES ASSUME NEW j \in 1 .. k + 1 PROVE y.due[j] = trbs[j]
        OBVIOUS
      <3>1. j = k + 1 \/ j \in 1 .. k
        BY <2>1
      <3> QED BY <3>1, <2>3, <2>9 DEF t
    <2> QED BY <2>7, <2>8, <2>9, <2>10 DEF y
  <1>5. Good(f[0], 0)
    BY <1>3
  <1>6. Good(f[n], n)
    <2> DEFINE S == {k \in 0 .. n : Good(f[k], k)}
    <2> HIDE DEF Good
    <2>1. 0 \in S
      BY <1>1, <1>5
    <2>2. \A k \in 0 .. n - 1 : k \in S => k + 1 \in S
      BY <1>1, <1>4
    <2>3. n \in Nat
      BY <1>1
    <2> HIDE DEF S
    <2>4. 0 .. n \subseteq S
      BY <2>1, <2>2, <2>3, UpTo
    <2> QED BY <2>3, <2>4 DEF S
  <1>7. f[n].due = trbs
    <2>1. f[n].due \in Seq(Trb)
      BY <1>6 DEF RingWell, RingRecord
    <2>2. Len(f[n].due) = n /\ \A j \in 1 .. n : f[n].due[j] = trbs[j]
      BY <1>6
    <2> QED BY <2>1, <2>2
  <1> QED BY <1>3, <1>6, <1>7 DEF RingWell

-----------------------------------------------------------------------------
\* The requests of the pool that are not on the free list s.
Unused(s) == (1 .. Requests) \ {s[i] : i \in DOMAIN s}
\* What a completion gives back: the request in flight, if there is one.
GivenBack(s, back) == \/ back = <<>> /\ Unused(s) = {}
                      \/ \E q \in 1 .. Requests : back = <<q>> /\ Unused(s) = {q}

LEMMA PoolReturn ==
    ASSUME NEW s \in Seq(1 .. Requests), Distinct(s), NEW back, GivenBack(s, back)
    PROVE  s \o back \in Seq(1 .. Requests) /\ Distinct(s \o back) /\ Unused(s \o back) = {}
  <1>1. CASE back = <<>> /\ Unused(s) = {}
    <2>1. s \o back = s
      BY <1>1
    <2> QED BY <1>1, <2>1
  <1>2. CASE \E q \in 1 .. Requests : back = <<q>> /\ Unused(s) = {q}
    <2>1. PICK q \in 1 .. Requests : back = <<q>> /\ Unused(s) = {q}
      BY <1>2
    <2> DEFINE t == s \o <<q>>
               m == Len(s)
    <2>2. /\ t \in Seq(1 .. Requests) /\ m \in Nat /\ DOMAIN s = 1 .. m /\ DOMAIN t = 1 .. m + 1
          /\ \A i \in 1 .. m + 1 : t[i] = IF i = m + 1 THEN q ELSE s[i]
      OBVIOUS
    <2> HIDE DEF t, m
    <2>3. \A i \in 1 .. m : s[i] # q
      BY <2>1, <2>2 DEF Unused
    <2>4. \A i \in 1 .. m + 1 : i = m + 1 \/ i \in 1 .. m
      BY <2>2
    <2>5. Distinct(t)
      BY <2>2, <2>3, <2>4 DEF Distinct
    <2>6. Unused(t) = {}
      <3> SUFFICES ASSUME NEW x \in 1 .. Requests PROVE \E i \in DOMAIN t : t[i] = x
        BY DEF Unused
      <3>1. CASE x = q
        BY <2>2, <3>1
      <3>2. CASE x # q
        <4>1. PICK i \in DOMAIN s : s[i] = x
          BY <2>1, <3>2 DEF Unused
        <4>2. i \in 1 .. m + 1 /\ i # m + 1
          BY <2>2, <4>1
        <4> QED BY <2>2, <4>1, <4>2
      <3> QED BY <3>1, <3>2
    <2> QED BY <2>1, <2>2, <2>5, <2>6 DEF t
  <1> QED BY <1>1, <1>2 DEF GivenBack

LEMMA PoolAlloc ==
    ASSUME NEW s \in Seq(1 .. Requests), Distinct(s), NEW back, GivenBack(s, back)
    PROVE  /\ s # <<>> /\ Head(s) \in 1 .. Requests
           /\ Tail(s) \o back \in Seq(1 .. Requests) /\ Distinct(Tail(s) \o back)
           /\ Unused(Tail(s) \o back) = {Head(s)}
  <1> DEFINE t == s \o back
             u == Tail(s) \o back
             a == Head(s)
             m == Len(t)
  <1>1. t \in Seq(1 .. Requests) /\ Distinct(t) /\ Unused(t) = {}
    BY PoolReturn
  <1>2. s # <<>>
    <2>1. PICK x \in 1 .. Requests : x \notin Unused(s)
      <3>1. 1 \in 1 .. Requests /\ 2 \in 1 .. Requests
        BY XhciAssumption
      <3> QED BY <3>1 DEF GivenBack
    <2> QED BY <2>1 DEF Unused
  <1>3. back \in Seq(1 .. Requests)
    <2>1. CASE back = <<>>
      BY <2>1
    <2>2. ASSUME NEW q \in 1 .. Requests, back = <<q>> PROVE back \in Seq(1 .. Requests)
      BY <2>2
    <2> QED BY <2>1, <2>2 DEF GivenBack
  <1>4. /\ u = Tail(t) /\ a = t[1] /\ m \in Nat /\ m >= 1 /\ a \in 1 .. Requests
        /\ u \in Seq(1 .. Requests)
    <2>1. Len(s) \in Nat /\ Len(s) >= 1 /\ Len(back) \in Nat
      BY <1>2, <1>3
    <2>2. /\ a = s[1] /\ Tail(s) \in Seq(1 .. Requests) /\ Len(Tail(s)) = Len(s) - 1
          /\ \A i \in 1 .. Len(s) - 1 : Tail(s)[i] = s[i + 1]
      BY <1>2, <2>1
    <2>3. a \in 1 .. Requests
      BY <1>2, HeadTailProperties
    <2>4. m = Len(s) + Len(back) /\ \A i \in 1 .. m : t[i] = IF i <= Len(s) THEN s[i] ELSE back[i - Len(s)]
      BY <1>3, ConcatProperties
    <2>5. /\ u \in Seq(1 .. Requests) /\ Len(u) = m - 1
          /\ \A i \in 1 .. m - 1 : u[i] = IF i <= Len(s) - 1 THEN Tail(s)[i] ELSE back[i - (Len(s) - 1)]
      BY <1>3, <2>1, <2>2, <2>4, ConcatProperties
    <2>6. m \in Nat /\ m >= 1 /\ t[1] = s[1]
      BY <2>1, <2>4
    <2>7. Tail(t) \in Seq(1 .. Requests) /\ Len(Tail(t)) = m - 1 /\ \A i \in 1 .. m - 1 : Tail(t)[i] = t[i + 1]
      BY <1>1, <2>6
    <2>8. ASSUME NEW i \in 1 .. m - 1 PROVE u[i] = t[i + 1]
      <3>1. i + 1 \in 1 .. m
        BY <2>6
      <3>2. CASE i <= Len(s) - 1
        <4>1. i \in 1 .. Len(s) - 1 /\ i + 1 <= Len(s)
          BY <2>1, <3>2
        <4> QED BY <2>2, <2>4, <2>5, <3>1, <3>2, <4>1
      <3>3. CASE ~(i <= Len(s) - 1)
        <4>1. ~(i + 1 <= Len(s)) /\ i - (Len(s) - 1) = (i + 1) - Len(s)
          BY <2>1, <3>3
        <4> QED BY <2>4, <2>5, <3>1, <3>3, <4>1
      <3> QED BY <3>2, <3>3
    <2>9. u = Tail(t)
      <3> HIDE DEF u, t, m
      <3> QED BY <2>5, <2>6, <2>7, <2>8
    <2> QED BY <2>2, <2>3, <2>5, <2>6, <2>9
  <1> HIDE DEF t, u, a
  <1>5. DOMAIN u = 1 .. m - 1 /\ DOMAIN t = 1 .. m /\ \A i \in 1 .. m - 1 : u[i] = t[i + 1]
    BY <1>1, <1>4
  <1> HIDE DEF m
  <1>6. Distinct(u)
    <2> SUFFICES ASSUME NEW i \in 1 .. m - 1, NEW j \in 1 .. m - 1, u[i] = u[j] PROVE i = j
      BY <1>5 DEF Distinct
    <2>1. i + 1 \in 1 .. m /\ j + 1 \in 1 .. m /\ t[i + 1] = t[j + 1]
      BY <1>4, <1>5
    <2>2. i + 1 = j + 1
      BY <1>1, <1>5, <2>1 DEF Distinct
    <2> QED BY <2>2
  <1>7. ASSUME NEW i \in 1 .. m - 1 PROVE u[i] # a
    <2>1. i + 1 \in 1 .. m /\ 1 \in 1 .. m /\ i + 1 # 1
      BY <1>4
    <2> QED BY <1>1, <1>4, <1>5, <2>1 DEF Distinct
  <1>8. ASSUME NEW x \in 1 .. Requests, x # a PROVE \E i \in 1 .. m - 1 : u[i] = x
    <2>1. PICK i \in 1 .. m : t[i] = x
      BY <1>1, <1>5 DEF Unused
    <2>2. i - 1 \in 1 .. m - 1 /\ (i - 1) + 1 = i
      BY <1>4, <1>8, <2>1
    <2>3. u[i - 1] = x
      BY <1>5, <2>1, <2>2
    <2> QED BY <2>2, <2>3
  <1>9. Unused(u) = {a}
    <2>1. ASSUME NEW x \in Unused(u) PROVE x = a
      BY <1>5, <1>8 DEF Unused
    <2>2. a \in Unused(u)
      BY <1>4, <1>5, <1>7 DEF Unused
    <2> QED BY <2>1, <2>2
  <1> QED BY <1>2, <1>4, <1>6, <1>9 DEF u, a
-----------------------------------------------------------------------------
\* A ring as init leaves it.
LEMMA FreshRing == /\ RingWell(EnqueueRing_init) /\ EnqueueRing_init \in RingRecord
                   /\ EnqueueRing_init.due = <<>> /\ ~EnqueueRing_init.halted
  <1> DEFINE r == EnqueueRing_init
             slots == [i \in 0 .. LastSlot |-> [trb |-> NoTRB, cycle |-> IF i = LastSlot THEN 1 ELSE 0]]
  <1>1. r = [slot |-> slots, enqueue_index |-> 0, cycle_bit |-> 1,
             hc_index |-> 0, hc_cycle |-> 1, halted |-> FALSE, due |-> <<>>]
    BY DEF EnqueueRing_init, LastSlot
  <1>2. NoTRB \in Trb
    BY DEF NoTRB, Trb, StageSet
  <1>3. slots \in RingSlots
    BY <1>2 DEF RingSlots, Bit
  <1>4. r \in RingRecord
    <2> HIDE DEF slots
    <2>1. <<>> \in Seq(Trb)
      OBVIOUS
    <2> QED BY <1>1, <1>3, <2>1, RingSize DEF RingRecord, Bit
  <1>5. Cycled(r)
    BY <1>1, RingSize DEF Cycled
  <1>6. HcAt(r) = <<0, 1>> /\ r.hc_index # LastSlot
    BY <1>1, RingSize DEF HcAt, LastSlot
  <1>7. RingAt(r, 0, 1)
    BY <1>1, RingSize DEF RingAt, Between, Holds, Bit
  <1> QED
    <2> HIDE DEF r
    <2>1. RingWell(r)
      BY <1>4, <1>5, <1>6, <1>7 DEF RingWell
    <2> QED BY <1>1, <1>4, <2>1 DEF r

\* The TRBs of a request.
LEMMA TRBsWell ==
    ASSUME NEW step, NEW q \in 1 .. Requests
    PROVE  /\ TRBs(step, q) \in Seq(Trb) /\ Len(TRBs(step, q)) \in 1 .. 4
           /\ step \in Commands => TRBs(step, q) = <<[stage |-> "command", request |-> q]>>
           /\ step \notin Commands => Transfer(TRBs(step, q), q)
  <1> DEFINE a == [stage |-> "setup", request |-> 0]
             b == [stage |-> "data", request |-> 0]
             c == [stage |-> "status", request |-> 0]
             e == [stage |-> "event_data", request |-> q]
             k == [stage |-> "command", request |-> q]
             Short(x) == x.stage \in OfTransfer /\ x.request = 0
  <1>1. {a, b, c, e, k} \subseteq Trb /\ Short(a) /\ Short(b) /\ Short(c)
    BY XhciAssumption DEF Trb, StageSet, OfTransfer
  <1>2. TRBs(step, q) = IF step \in Commands THEN <<k>>
                        ELSE IF step \in NoData THEN <<a, c, e>> ELSE <<a, b, c, e>>
    BY DEF TRBs, Stage
  <1> HIDE DEF a, b, c, e, k
  <1>3. <<k>> \in Seq(Trb) /\ <<a, c, e>> \in Seq(Trb) /\ <<a, b, c, e>> \in Seq(Trb)
    BY <1>1
  <1>4. Len(<<k>>) = 1 /\ Len(<<a, c, e>>) = 3 /\ Len(<<a, b, c, e>>) = 4
    OBVIOUS
  <1>5. Transfer(<<a, c, e>>, q)
    <2>1. \A i \in 1 .. 3 - 1 : i = 1 \/ i = 2
      OBVIOUS
    <2>2. \A i \in 1 .. 3 - 1 : Short(<<a, c, e>>[i])
      <3> HIDE DEF Short
      <3> QED BY <1>1, <2>1
    <2>3. <<a, c, e>>[3] = e
      OBVIOUS
    <2> QED BY <1>4, <2>2, <2>3 DEF Transfer, e
  <1>6. Transfer(<<a, b, c, e>>, q)
    <2>1. \A i \in 1 .. 4 - 1 : i = 1 \/ i = 2 \/ i = 3
      OBVIOUS
    <2>2. \A i \in 1 .. 4 - 1 : Short(<<a, b, c, e>>[i])
      <3> HIDE DEF Short
      <3> QED BY <1>1, <2>1
    <2>3. <<a, b, c, e>>[4] = e
      OBVIOUS
    <2> QED BY <1>4, <2>2, <2>3 DEF Transfer, e
  <1> QED BY <1>2, <1>3, <1>4, <1>5, <1>6 DEF k

-----------------------------------------------------------------------------
LEMMA PortsAre ==
    /\ Ports = 1 .. Len(PortLayout) /\ Len(PortLayout) \in Nat
    /\ CommandRing \in Rings /\ ControlRing \in Rings /\ CommandRing # ControlRing
    /\ \A p \in Ports : p \in Rings /\ p # CommandRing /\ p # ControlRing /\ p \in Nat \ {0}
    /\ \A r \in Rings : r \in Nat /\ (r \in Ports \/ r = CommandRing \/ r = ControlRing)
  <1>1. Ports = 1 .. Len(PortLayout) /\ Len(PortLayout) \in Nat
    BY XhciAssumption DEF Ports
  <1> QED BY <1>1 DEF CommandRing, ControlRing, Rings

\* What the request that is in flight when nothing else is.
LEMMA InFlightIs == InFlight = Unused(xhci_request.free)
  BY DEF InFlight, Unused

\* The state after a request is sent from s: it alone is in flight.
SentFrom(step, s) ==
    /\ RingsWell' /\ PoolWell' /\ RequestsWell'
    /\ xhci_setup' \in SetupRecord /\ xhci_setup'.pc \in Busy
    /\ xhci_setup'.port = s.port /\ xhci_setup'.step = step
    /\ \A p \in Ports : xhci_ring'[p] = xhci_ring[p]

LEMMA SendWell ==
    ASSUME RingsWell, PoolWell, Drained(xhci_ring), Quiet(xhci_events'),
           NEW back, GivenBack(xhci_request.free, back),
           NEW step \in Steps, NEW s \in SetupRecord, NEW where \in {"thread", "handler"},
           Send(step, s, where, back)
    PROVE  SentFrom(step, s)
  <1> DEFINE q == alloc_request
             ring == IF step \in Commands THEN CommandRing ELSE ControlRing
             rings == IF step = "address_device"
                      THEN [xhci_ring EXCEPT ![ControlRing] = EnqueueRing_init] ELSE xhci_ring
             sent == EnqueueAll(rings[ring], TRBs(step, q))
             free == xhci_request.free
             phy == TrbPhy(ring, sent)
  <1>1. free \in Seq(1 .. Requests) /\ Distinct(free)
        /\ xhci_request.trb_phy \in [1 .. Requests -> Nat \X Nat]
    BY DEF PoolWell
  <1>2. /\ free # <<>> /\ q \in 1 .. Requests
        /\ Tail(free) \o back \in Seq(1 .. Requests) /\ Distinct(Tail(free) \o back)
        /\ Unused(Tail(free) \o back) = {q}
    BY <1>1, PoolAlloc DEF alloc_request
  <1>3. /\ xhci_setup' = [s EXCEPT !.pc = IF where = "thread" THEN "sent" ELSE "suspended",
                                   !.step = step, !.has_result = FALSE]
        /\ xhci_request' = [free |-> Tail(free) \o back,
                            trb_phy |-> [xhci_request.trb_phy EXCEPT ![q] = phy]]
        /\ xhci_ring' = [rings EXCEPT ![ring] = sent]
    BY <1>2 DEF Send, Available
  <1> HIDE DEF q
  <1>4. xhci_setup' \in SetupRecord /\ xhci_setup'.pc \in Busy /\ ~xhci_setup'.has_result
        /\ xhci_setup'.port = s.port /\ xhci_setup'.step = step
    BY <1>3 DEF SetupRecord, Busy
  <1>5. /\ rings \in [Rings -> RingRecord] /\ \A r \in Rings : RingWell(rings[r])
        /\ rings[CommandRing].due = <<>> /\ rings[ControlRing].due = <<>> /\ ~rings[ControlRing].halted
        /\ \A p \in Ports : rings[p] = xhci_ring[p]
    BY FreshRing, PortsAre DEF RingsWell, Drained
  <1> HIDE DEF rings
  <1>6. ring \in Rings /\ rings[ring].due = <<>>
    BY <1>5, PortsAre
  <1>7. TRBs(step, q) \in Seq(Trb) /\ Len(TRBs(step, q)) \in 1 .. 4
    BY <1>2, TRBsWell
  <1>8. sent \in RingRecord /\ RingWell(sent) /\ sent.due = TRBs(step, q) /\ sent.halted = rings[ring].halted
    BY <1>5, <1>6, <1>7, EnqueueAllWell
  <1> HIDE DEF sent
  <1>9. RingsWell'
    <2>1. xhci_ring' \in [Rings -> RingRecord]
      BY <1>3, <1>5, <1>6, <1>8
    <2>2. \A r \in Rings : RingWell(xhci_ring'[r])
      BY <1>3, <1>5, <1>6, <1>8
    <2> QED BY <2>1, <2>2 DEF RingsWell
  <1>10. xhci_ring'[ring] = sent /\ \A r \in Rings : r # ring => xhci_ring'[r] = rings[r]
    BY <1>3, <1>5, <1>6
  <1>11. phy \in Nat \X Nat
    <2>1. sent.enqueue_index \in 0 .. LastSlot - 1
      BY <1>8 DEF RingRecord
    <2> QED BY <2>1, <1>6, PortsAre, RingSize DEF TrbPhy
  <1> HIDE DEF phy
  <1>12. xhci_request'.free = Tail(free) \o back
         /\ xhci_request'.trb_phy \in [1 .. Requests -> Nat \X Nat] /\ xhci_request'.trb_phy[q] = phy
    BY <1>1, <1>2, <1>3, <1>11
  <1>13. PoolWell'
    <2>1. xhci_request' \in [free : Seq(1 .. Requests), trb_phy : [1 .. Requests -> Nat \X Nat]]
      BY <1>1, <1>2, <1>3, <1>11
    <2>2. Distinct(xhci_request'.free)
      BY <1>2, <1>12
    <2> QED BY <2>1, <2>2 DEF PoolWell
  <1>14. InFlight' = {q}
    BY <1>2, <1>12 DEF InFlight, Unused
  <1>15. Tracked(q, xhci_ring', xhci_events', phy)
    <2>1. CASE step \in Commands
      <3>1. ring = CommandRing /\ xhci_ring'[ControlRing] = rings[ControlRing]
        BY <2>1, <1>10, PortsAre
      <3>2. xhci_ring'[CommandRing].due = <<[stage |-> "command", request |-> q]>>
            /\ phy = TrbPhy(CommandRing, xhci_ring'[CommandRing])
        BY <2>1, <3>1, <1>2, <1>8, <1>10, TRBsWell DEF phy
      <3> QED BY <3>1, <3>2, <1>5 DEF Tracked, CommandSent
    <2>2. CASE step \notin Commands
      <3>1. ring = ControlRing /\ xhci_ring'[CommandRing] = rings[CommandRing]
        BY <2>2, <1>10, PortsAre
      <3>2. Transfer(xhci_ring'[ControlRing].due, q)
            /\ phy = TrbPhy(ControlRing, xhci_ring'[ControlRing])
        BY <2>2, <3>1, <1>2, <1>8, <1>10, TRBsWell DEF phy
      <3> QED BY <3>1, <3>2, <1>5 DEF Tracked, TransferSent, Quiet
    <2> QED BY <2>1, <2>2
  <1>16. RequestsWell'
    <2>1. Awaiting'
      BY <1>4 DEF Awaiting
    <2> HIDE DEF ring, free
    <2>2. \E x \in 1 .. Requests : InFlight' = {x}
             /\ Tracked(x, xhci_ring', xhci_events', xhci_request'.trb_phy[x])
      BY <1>2, <1>12, <1>14, <1>15
    <2> QED BY <2>1, <2>2 DEF RequestsWell
  <1>17. \A p \in Ports : xhci_ring'[p] = xhci_ring[p]
    BY <1>5, <1>10, PortsAre
  <1> QED BY <1>4, <1>9, <1>13, <1>16, <1>17 DEF SentFrom

\* The state after the coroutine has returned: nothing is in flight.
ReturnedFrom(s) ==
    /\ PoolWell' /\ RequestsWell'
    /\ xhci_setup' \in SetupRecord /\ xhci_setup'.pc = "idle"
    /\ xhci_setup'.port = s.port + 1 /\ xhci_setup'.step = "none"

LEMMA ReturnWell ==
    ASSUME PoolWell, Drained(xhci_ring'), Quiet(xhci_events'),
           NEW back, GivenBack(xhci_request.free, back), NEW s \in SetupRecord,
           xhci_setup' = Returned(s),
           xhci_request' = [xhci_request EXCEPT !.free = xhci_request.free \o back]
    PROVE  ReturnedFrom(s)
  <1> DEFINE free == xhci_request.free
  <1>1. free \in Seq(1 .. Requests) /\ Distinct(free)
        /\ xhci_request \in [free : Seq(1 .. Requests), trb_phy : [1 .. Requests -> Nat \X Nat]]
    BY DEF PoolWell
  <1>2. free \o back \in Seq(1 .. Requests) /\ Distinct(free \o back) /\ Unused(free \o back) = {}
    BY <1>1, PoolReturn
  <1>3. xhci_request' \in [free : Seq(1 .. Requests), trb_phy : [1 .. Requests -> Nat \X Nat]]
        /\ xhci_request'.free = free \o back
    BY <1>1, <1>2
  <1>4. PoolWell'
    BY <1>2, <1>3 DEF PoolWell
  <1>5. <<>> \in Seq(STRING) /\ s.port + 1 \in Nat \ {0}
    BY DEF SetupRecord
  <1>6. xhci_setup' \in SetupRecord /\ xhci_setup'.pc = "idle"
        /\ xhci_setup'.port = s.port + 1 /\ xhci_setup'.step = "none"
    BY <1>5 DEF Returned, SetupRecord, Busy, Steps
  <1>7. InFlight' = {}
    BY <1>2, <1>3 DEF InFlight, Unused
  <1>8. ~Awaiting'
    BY <1>6 DEF Awaiting, Busy
  <1>9. RequestsWell'
    BY <1>7, <1>8 DEF RequestsWell
  <1> QED BY <1>4, <1>6, <1>9 DEF ReturnedFrom

\* Parsing descriptors asks for no report.
LEMMA ParseWell ==
    ASSUME NEW c \in Seq(STRING), NEW ptr \in Nat \ {0}, NEW dev \in DeviceRecord
    PROVE  LET r == Parse(c, ptr, dev) IN
           r.ptr \in Nat \ {0} /\ r.dev \in DeviceRecord /\ r.dev.reports = dev.reports
  <1> DEFINE n == Len(c)
             Devs == {d \in DeviceRecord : d.reports = dev.reports}
             S == [ptr : Nat \ {0}, dev : Devs]
             base == [ptr |-> ptr, dev |-> dev]
             Step(r) == IF r.ptr > n \/ (r.ptr <= n /\ c[r.ptr] = "hid") THEN r
                        ELSE [ptr |-> NextPtr(c, r.ptr),
                              dev |-> [r.dev EXCEPT
                                 !.hid_device = IF c[r.ptr] \in {"mouse", "keyboard"} THEN c[r.ptr] ELSE @,
                                 !.endpoint = @ \/ c[r.ptr] = "endpoint"]]
             Body(g) == [k \in 0 .. n |-> IF k = 0 THEN base ELSE Step(g[k - 1])]
             F == CHOOSE g : g = Body(g)
             next == [k \in 1 .. n |-> [x \in S |-> Step(x)]]
  <1>1. n \in Nat /\ base \in S
    OBVIOUS
  <1>2. Parse(c, ptr, dev) = F[n]
    BY DEF Parse
  <1>3. ASSUME NEW r \in S PROVE Step(r) \in S
    <2>1. r.ptr \in Nat \ {0} /\ r.dev \in DeviceRecord /\ r.dev.reports = dev.reports
      OBVIOUS
    <2>2. NextPtr(c, r.ptr) \in Nat \ {0}
      <3> DEFINE i == r.ptr
      <3>1. i \in Nat \ {0}
        BY <2>1
      <3> HIDE DEF i
      <3>2. IsFiniteSet(i + 1 .. n)
        BY <1>1, <3>1, FS_Interval
      <3>3. Skipped(c, i) \subseteq i + 1 .. n
        BY DEF Skipped
      <3>4. Cardinality(Skipped(c, i)) \in Nat
        BY <3>2, <3>3, FS_Subset, FS_CardinalityType
      <3>5. NextPtr(c, i) \in Nat \ {0}
        BY <3>1, <3>4 DEF NextPtr
      <3> QED BY <3>5 DEF i
    <2> DEFINE hid == IF c[r.ptr] \in {"mouse", "keyboard"} THEN c[r.ptr] ELSE r.dev.hid_device
               endp == r.dev.endpoint \/ c[r.ptr] = "endpoint"
               d == [r.dev EXCEPT !.hid_device = hid, !.endpoint = endp]
    <2>3. hid \in {"none", "mouse", "keyboard"} /\ endp \in BOOLEAN
      BY <2>1 DEF DeviceRecord
    <2> HIDE DEF hid, endp
    <2>4. d \in Devs
      BY <2>1, <2>3 DEF DeviceRecord
    <2>5. Step(r) = r \/ Step(r) = [ptr |-> NextPtr(c, r.ptr), dev |-> d]
      BY DEF hid, endp
    <2> HIDE DEF Step, d, Devs
    <2> QED BY <2>2, <2>4, <2>5
  <1> HIDE DEF Step, S, base
  <1>4. next \in [1 .. n -> [S -> S]] /\ \A k \in 1 .. n, x \in S : next[k][x] = Step(x)
    BY <1>3
  <1> HIDE DEF next, n
  <1>6. PICK f : f \in [0 .. n -> S] /\ f[0] = base /\ \A k \in 1 .. n : f[k] = next[k][f[k - 1]]
    <2>1. LoopSteps(next, n, S)
      BY <1>1, <1>4 DEF LoopSteps
    <2>2. \E f : LoopRun(f, next, n, S, base)
      BY <1>1, <2>1, LoopRuns
    <2> QED BY <2>2 DEF LoopRun
  <1>7. \A k \in 1 .. n : f[k] = Step(f[k - 1])
    <2> SUFFICES ASSUME NEW k \in 1 .. n PROVE f[k] = Step(f[k - 1])
      OBVIOUS
    <2>1. k - 1 \in 0 .. n
      BY <1>1
    <2> QED BY <1>4, <1>6, <2>1
  <1>8. f = Body(f)
    <2>1. \A k \in 0 .. n : f[k] = Body(f)[k]
      <3> SUFFICES ASSUME NEW k \in 0 .. n PROVE f[k] = Body(f)[k]
        OBVIOUS
      <3>1. CASE k = 0
        BY <1>6, <3>1
      <3>2. CASE k # 0
        <4>1. k \in 1 .. n
          BY <1>1, <3>2
        <4> QED BY <1>7, <3>2, <4>1
      <3> QED BY <3>1, <3>2
    <2>2. f = [k \in 0 .. n |-> f[k]] /\ Body(f) = [k \in 0 .. n |-> Body(f)[k]]
      BY <1>6
    <2> HIDE DEF Body
    <2> QED BY <2>1, <2>2
  <1>9. F = Body(F)
    <2> HIDE DEF Body
    <2> QED BY <1>8
  <1> HIDE DEF F
  <1>10. \A k \in 0 .. n : F[k] = IF k = 0 THEN base ELSE Step(F[k - 1])
    <2>1. \A k \in 0 .. n : F[k] = Body(F)[k]
      <3> HIDE DEF Body
      <3> QED BY <1>9
    <2> QED BY <2>1
  <1> HIDE DEF Body
  <1>11. F[n] \in S
    <2> DEFINE T == {k \in 0 .. n : F[k] \in S}
    <2>1. 0 \in T
      BY <1>1, <1>10
    <2>2. ASSUME NEW k \in 0 .. n - 1, k \in T PROVE k + 1 \in T
      <3>1. k + 1 \in 0 .. n /\ k + 1 # 0 /\ (k + 1) - 1 = k
        BY <1>1
      <3>2. F[k + 1] = Step(F[k])
        BY <1>10, <3>1
      <3> QED BY <1>3, <2>2, <3>1, <3>2
    <2> HIDE DEF T
    <2>3. 0 .. n \subseteq T
      BY <1>1, <2>1, <2>2, UpTo
    <2> QED BY <1>1, <2>3 DEF T
  <1> QED BY <1>2, <1>11 DEF S
-----------------------------------------------------------------------------
\* The devices D fit what is in the rings and in the events to come, and no
\* report was asked of the port that is being set up or of a later one.
Held(D) == /\ DevicesWell(D, xhci_ring) /\ ReportEvents(xhci_events', D, xhci_ring)
           /\ \A p \in Ports : xhci_setup.port <= p => D[p].reports = 0
Onward == RingsWell' /\ PoolWell' /\ RequestsWell' /\ SetupWell' /\ ReportsWell'

\* The next request is sent.
LEMMA SentOnward ==
    ASSUME Held(xhci_device'), xhci_setup.port \in Ports,
           NEW step, NEW s, SentFrom(step, s), s.port = xhci_setup.port,
           step \in SetUp => Usable(xhci_device'[s.port])
    PROVE  Onward
  <1>1. SetupWell'
    BY DEF SentFrom, SetupWell
  <1>2. DevicesWell(xhci_device', xhci_ring') /\ ReportEvents(xhci_events', xhci_device', xhci_ring')
    BY DEF Held, DevicesWell, ReportEvents, SentFrom
  <1>3. FreshWell(xhci_setup', xhci_device')
    BY DEF SentFrom, Held, FreshWell, Busy
  <1> QED BY <1>1, <1>2, <1>3 DEF Onward, SentFrom, ReportsWell

\* The coroutine returns.
LEMMA ReturnedOnward ==
    ASSUME Held(xhci_device'), xhci_setup.port \in Ports, RingsWell,
           NEW s, ReturnedFrom(s), s.port = xhci_setup.port, xhci_ring' = xhci_ring
    PROVE  Onward
  <1>1. SetupWell'
    BY DEF ReturnedFrom, SetupWell, Busy
  <1>2. DevicesWell(xhci_device', xhci_ring') /\ ReportEvents(xhci_events', xhci_device', xhci_ring')
    BY DEF Held
  <1>3. FreshWell(xhci_setup', xhci_device')
    <2>1. \A p \in Ports : s.port + 1 <= p => xhci_setup.port <= p
      BY PortsAre
    <2> QED BY <2>1 DEF ReturnedFrom, Held, FreshWell, SetUp
  <1>4. RingsWell'
    BY DEF RingsWell
  <1> QED BY <1>1, <1>2, <1>3, <1>4 DEF Onward, ReturnedFrom, ReportsWell

\* What holds when the coroutine goes on: the request that it waited for is
\* answered, and nothing but reports is on its way.
Resumed(back) ==
    /\ RingsWell /\ PoolWell /\ SetupWell /\ xhci_setup.pc \in Busy
    /\ Drained(xhci_ring) /\ Quiet(xhci_events') /\ GivenBack(xhci_request.free, back)
    /\ Held(xhci_device) /\ FreshWell(xhci_setup, xhci_device)

LEMMA ParsedWell ==
    ASSUME NEW back, Resumed(back), NEW where \in {"thread", "handler"}, NEW c \in Seq(STRING),
           NEW ptr \in Nat \ {0}, Parsed(c, ptr, xhci_setup, where, back)
    PROVE  Onward
  <1> DEFINE s == xhci_setup
             r == Parse(c, ptr, xhci_device[s.port])
  <1>1. s \in SetupRecord /\ s.port \in Ports
    BY DEF Resumed, SetupWell
  <1>2. xhci_device \in [Ports -> DeviceRecord]
    BY DEF Resumed, Held, DevicesWell
  <1>3. xhci_device[s.port].reports = 0
    <2>1. s.port <= s.port
      BY <1>1, PortsAre
    <2> QED BY <1>1, <2>1 DEF Resumed, Held
  <1>4. r.ptr \in Nat \ {0} /\ r.dev \in DeviceRecord /\ r.dev.reports = 0
    BY <1>1, <1>2, <1>3, ParseWell
  <1>5. xhci_device' = [xhci_device EXCEPT ![s.port] = r.dev]
    BY DEF Parsed
  <1>6. \/ r.ptr <= Len(c) /\ Send("hid_report", [s EXCEPT !.config = c, !.ptr = r.ptr], where, back)
        \/ Usable(r.dev) /\ Send("set_configuration", [s EXCEPT !.config = <<>>, !.ptr = 0], where, back)
        \/ Return(s, back)
    BY DEF Parsed
  <1> HIDE DEF r
  <1>7. /\ xhci_device' \in [Ports -> DeviceRecord] /\ xhci_device'[s.port] = r.dev
        /\ \A p \in Ports : xhci_device'[p].reports = xhci_device[p].reports
        /\ \A p \in Ports : p # s.port => xhci_device'[p] = xhci_device[p]
    BY <1>1, <1>2, <1>3, <1>4, <1>5
  <1>8. Held(xhci_device')
    <2>1. DevicesWell(xhci_device', xhci_ring)
      <3> SUFFICES ASSUME NEW p \in Ports
                   PROVE  /\ xhci_ring[p].due \in {<<>>, <<NormalTRB>>}
                          /\ xhci_ring[p].due # <<>> => xhci_device'[p].reports > 0
                          /\ xhci_device'[p].reports > 0 => Usable(xhci_device'[p])
        BY <1>7 DEF DevicesWell
      <3>1. /\ xhci_ring[p].due \in {<<>>, <<NormalTRB>>}
            /\ xhci_ring[p].due # <<>> => xhci_device[p].reports > 0
            /\ xhci_device[p].reports > 0 => Usable(xhci_device[p])
        BY DEF Resumed, Held, DevicesWell
      <3>2. p = s.port => ~(xhci_device[p].reports > 0)
        BY <1>3
      <3> QED BY <3>1, <3>2, <1>7
    <2>2. ReportEvents(xhci_events', xhci_device', xhci_ring)
      BY <1>7 DEF Resumed, Held, ReportEvents
    <2>3. \A p \in Ports : xhci_setup.port <= p => xhci_device'[p].reports = 0
      BY <1>7 DEF Resumed, Held
    <2> QED BY <2>1, <2>2, <2>3 DEF Held
  <1>9. ASSUME NEW a \in Seq(STRING), NEW b \in Nat
        PROVE  [s EXCEPT !.config = a, !.ptr = b] \in SetupRecord
               /\ [s EXCEPT !.config = a, !.ptr = b].port = s.port
    BY <1>1 DEF SetupRecord
  <1>10. CASE r.ptr <= Len(c) /\ Send("hid_report", [s EXCEPT !.config = c, !.ptr = r.ptr], where, back)
    <2> DEFINE s2 == [s EXCEPT !.config = c, !.ptr = r.ptr]
    <2>1. s2 \in SetupRecord /\ s2.port = s.port
      BY <1>4, <1>9
    <2> HIDE DEF s2
    <2>2. SentFrom("hid_report", s2)
      BY <1>10, <2>1, SendWell DEF Resumed, Steps, s2
    <2> QED BY <1>1, <1>8, <2>1, <2>2, SentOnward DEF SetUp
  <1>11. CASE Usable(r.dev) /\ Send("set_configuration", [s EXCEPT !.config = <<>>, !.ptr = 0], where, back)
    <2> DEFINE s2 == [s EXCEPT !.config = <<>>, !.ptr = 0]
    <2>0. <<>> \in Seq(STRING) /\ 0 \in Nat
      OBVIOUS
    <2>1. s2 \in SetupRecord /\ s2.port = s.port
      BY <1>9, <2>0
    <2> HIDE DEF s2
    <2>2. SentFrom("set_configuration", s2)
      BY <1>11, <2>1, SendWell DEF Resumed, Steps, s2
    <2> QED BY <1>1, <1>7, <1>8, <1>11, <2>1, <2>2, SentOnward
  <1>12. CASE Return(s, back)
    <2>1. xhci_ring' = xhci_ring
      BY <1>12 DEF Return
    <2>2. ReturnedFrom(s)
      BY <1>1, <1>12, <2>1, ReturnWell DEF Return, Resumed
    <2> QED BY <1>1, <1>8, <2>1, <2>2, ReturnedOnward DEF Resumed
  <1> QED BY <1>6, <1>10, <1>11, <1>12

\* A report is asked of the device of port p, whose ring is empty.
LEMMA AskReport ==
    ASSUME RingsWell, NEW p \in Ports, xhci_ring[p].due = <<>>,
           xhci_ring' = request_usb_interrupt_report(p)
    PROVE  /\ RingsWell' /\ xhci_ring'[p].due = <<NormalTRB>>
           /\ \A r \in Rings : r # p => xhci_ring'[r] = xhci_ring[r]
  <1> DEFINE s == enqueue(xhci_ring[p], NormalTRB)
  <1>1. xhci_ring' = [xhci_ring EXCEPT ![p] = s]
    BY DEF request_usb_interrupt_report, NormalTRB
  <1>2. p \in Rings /\ NormalTRB \in Trb
    BY PortsAre DEF NormalTRB, Trb, StageSet
  <1>3. xhci_ring[p] \in RingRecord /\ RingWell(xhci_ring[p])
    BY <1>2 DEF RingsWell
  <1>4. Enqueued(xhci_ring[p], NormalTRB, s)
    BY <1>2, <1>3, EnqueueChanges
  <1>5. RingWell(s)
    BY <1>2, <1>3, <1>4, EnqueueWell, RingSize
  <1>6. s \in RingRecord /\ s.due = <<NormalTRB>>
    BY <1>4 DEF Enqueued
  <1> HIDE DEF s
  <1>7. xhci_ring \in [Rings -> RingRecord] /\ \A r \in Rings : RingWell(xhci_ring[r])
    BY DEF RingsWell
  <1>8. xhci_ring' \in [Rings -> RingRecord] /\ \A r \in Rings : RingWell(xhci_ring'[r])
    BY <1>1, <1>2, <1>5, <1>6, <1>7
  <1> QED BY <1>1, <1>2, <1>6, <1>7, <1>8 DEF RingsWell

\* The last step of the set-up asks for the first report.
LEMMA FirstReport ==
    ASSUME NEW back, Resumed(back), xhci_setup.step = "set_protocol",
           xhci_setup' = Returned(xhci_setup),
           xhci_request' = [xhci_request EXCEPT !.free = xhci_request.free \o back],
           xhci_ring' = request_usb_interrupt_report(xhci_setup.port),
           xhci_device' = [xhci_device EXCEPT ![xhci_setup.port].reports = 1]
    PROVE  Onward
  <1> DEFINE s == xhci_setup
             p0 == s.port
  <1>1. s \in SetupRecord /\ p0 \in Ports
    BY DEF Resumed, SetupWell
  <1>2. xhci_device \in [Ports -> DeviceRecord] /\ Usable(xhci_device[p0])
    BY DEF Resumed, Held, DevicesWell, FreshWell, SetUp
  <1>3. xhci_device[p0].reports = 0
    <2>1. p0 <= p0
      BY <1>1, PortsAre
    <2> QED BY <1>1, <2>1 DEF Resumed, Held
  <1>4. xhci_ring[p0].due = <<>>
    BY <1>1, <1>3 DEF Resumed, Held, DevicesWell
  <1> HIDE DEF p0
  <1>5. /\ RingsWell' /\ xhci_ring'[p0].due = <<NormalTRB>>
        /\ \A r \in Rings : r # p0 => xhci_ring'[r] = xhci_ring[r]
    BY <1>1, <1>4, AskReport DEF Resumed, p0
  <1>6. /\ xhci_device' \in [Ports -> DeviceRecord] /\ xhci_device'[p0].reports = 1
        /\ Usable(xhci_device'[p0]) /\ \A p \in Ports : p # p0 => xhci_device'[p] = xhci_device[p]
    BY <1>1, <1>2 DEF DeviceRecord, Usable, p0
  <1>7. Drained(xhci_ring')
    BY <1>1, <1>5, PortsAre DEF Resumed, Drained
  <1>8. ReturnedFrom(s)
    BY <1>1, <1>7, ReturnWell DEF Resumed
  <1>9. SetupWell'
    BY <1>8 DEF ReturnedFrom, SetupWell, Busy
  <1>10. DevicesWell(xhci_device', xhci_ring')
    <2> SUFFICES ASSUME NEW p \in Ports
                 PROVE  /\ xhci_ring'[p].due \in {<<>>, <<NormalTRB>>}
                        /\ xhci_ring'[p].due # <<>> => xhci_device'[p].reports > 0
                        /\ xhci_device'[p].reports > 0 => Usable(xhci_device'[p])
      BY <1>6 DEF DevicesWell
    <2>1. CASE p = p0
      BY <2>1, <1>5, <1>6
    <2>2. CASE p # p0
      BY <2>2, <1>5, <1>6, PortsAre DEF Resumed, Held, DevicesWell
    <2> QED BY <2>1, <2>2
  <1>11. ReportEvents(xhci_events', xhci_device', xhci_ring')
    <2>1. ReportEvents(xhci_events', xhci_device, xhci_ring)
      BY DEF Resumed, Held
    <2>2. ASSUME NEW i \in DOMAIN xhci_events'.due, IsReport(xhci_events', i)
          PROVE  ReportPort(xhci_events', i) \in Ports /\ ReportPort(xhci_events', i) # p0
      BY <2>1, <2>2, <1>3 DEF ReportEvents
    <2> QED BY <2>1, <2>2, <1>5, <1>6, PortsAre DEF ReportEvents
  <1>12. FreshWell(xhci_setup', xhci_device')
    <2>1. \A p \in Ports : p0 + 1 <= p => p # p0 /\ p0 <= p
      BY <1>1, PortsAre
    <2>2. \A p \in Ports : p0 + 1 <= p => xhci_device'[p].reports = 0
      BY <2>1, <1>6 DEF Resumed, Held, p0
    <2> QED BY <2>2, <1>8 DEF ReturnedFrom, FreshWell, SetUp, p0
  <1> QED BY <1>5, <1>8, <1>9, <1>10, <1>11, <1>12 DEF Onward, ReturnedFrom, ReportsWell

\* The request that follows one after which the device is usable.
LEMMA AfterSteps ==
    ASSUME NEW step \in Steps, NEW next \in After(step)
    PROVE  next \in Steps /\ (next \in SetUp => step \in SetUp)
  <1>1. CASE step \in {"set_configuration", "configure_endpoint"}
    BY <1>1 DEF After, Steps, SetUp
  <1>2. CASE step \in {"none", "configuration", "config_string", "hid_report", "set_protocol"}
    BY <1>2 DEF After, Steps, SetUp
  <1>3. CASE step \in {"enable_slot", "address_device", "first_descriptor", "evaluate_context",
                       "descriptor", "language", "string"}
    BY <1>3 DEF After, Steps, SetUp
  <1> QED BY <1>1, <1>2, <1>3 DEF Steps

LEMMA ResumeWell ==
    ASSUME NEW back, Resumed(back), NEW where \in {"thread", "handler"}, NEW ok,
           Resume(ok, xhci_setup, where, back)
    PROVE  Onward
  <1> DEFINE s == xhci_setup
  <1>1. s \in SetupRecord /\ s.port \in Ports /\ Held(xhci_device) /\ RingsWell
    BY DEF Resumed, SetupWell
  <1>2. CASE Return(s, back) /\ UNCHANGED xhci_device
    <2>1. xhci_ring' = xhci_ring
      BY <1>2 DEF Return
    <2>2. ReturnedFrom(s)
      BY <1>1, <1>2, <2>1, ReturnWell DEF Return, Resumed
    <2>3. Held(xhci_device')
      BY <1>1, <1>2
    <2> QED BY <1>1, <2>1, <2>2, <2>3, ReturnedOnward
  <1>3. ASSUME NEW step \in Steps, NEW s2 \in SetupRecord, s2.port = s.port,
               step \in SetUp => s.step \in SetUp,
               Send(step, s2, where, back), UNCHANGED xhci_device
        PROVE  Onward
    <2>1. SentFrom(step, s2)
      BY <1>3, SendWell DEF Resumed
    <2>2. step \in SetUp => Usable(xhci_device'[s2.port])
      BY <1>3 DEF Resumed, FreshWell
    <2>3. Held(xhci_device')
      BY <1>1, <1>3
    <2> QED BY <1>1, <1>3, <2>1, <2>2, <2>3, SentOnward
  <1>4. CASE (\E step \in After(s.step) :
                   /\ step = "string" => s.ptr < MaxStrings
                   /\ Send(step, [s EXCEPT !.ptr = IF step = "string" THEN @ + 1 ELSE 0], where, back))
             /\ UNCHANGED xhci_device
    <2>1. PICK step \in After(s.step) :
             Send(step, [s EXCEPT !.ptr = IF step = "string" THEN @ + 1 ELSE 0], where, back)
      BY <1>4
    <2> DEFINE s2 == [s EXCEPT !.ptr = IF step = "string" THEN s.ptr + 1 ELSE 0]
    <2>2. s2 \in SetupRecord /\ s2.port = s.port
      BY <1>1 DEF SetupRecord
    <2>3. Send(step, s2, where, back)
      BY <2>1
    <2> HIDE DEF s2
    <2>4. step \in Steps /\ (step \in SetUp => s.step \in SetUp)
      BY <1>1, AfterSteps DEF SetupRecord
    <2> QED BY <1>3, <1>4, <2>2, <2>3, <2>4
  <1>5. ASSUME NEW c \in Configurations, Parsed(c, 1, s, where, back) PROVE Onward
    <2>1. c \in Seq(STRING) /\ 1 \in Nat \ {0}
      BY XhciAssumption
    <2> QED BY <1>5, <2>1, ParsedWell
  <1>6. ASSUME NEW c \in Configurations,
               Send("config_string", [s EXCEPT !.config = c], where, back), UNCHANGED xhci_device
        PROVE  Onward
    <2> DEFINE s2 == [s EXCEPT !.config = c]
    <2>1. c \in Seq(STRING)
      BY XhciAssumption
    <2>2. s2 \in SetupRecord /\ s2.port = s.port
      BY <1>1, <2>1 DEF SetupRecord
    <2> HIDE DEF s2
    <2>3. "config_string" \in Steps /\ "config_string" \notin SetUp
      BY DEF Steps, SetUp
    <2>4. Send("config_string", s2, where, back)
      BY <1>6 DEF s2
    <2> QED BY <1>3, <1>6, <2>2, <2>3, <2>4
  <1>7. CASE Parsed(s.config, 1, s, where, back)
    <2>1. s.config \in Seq(STRING) /\ 1 \in Nat \ {0}
      BY <1>1 DEF SetupRecord
    <2> QED BY <1>7, <2>1, ParsedWell
  <1>8. CASE Parsed(s.config, s.ptr + 1, s, where, back)
    <2>1. s.config \in Seq(STRING) /\ s.ptr + 1 \in Nat \ {0}
      BY <1>1 DEF SetupRecord
    <2> QED BY <1>8, <2>1, ParsedWell
  <1>9. CASE /\ s.step = "set_protocol"
             /\ xhci_setup' = Returned(s)
             /\ xhci_request' = [xhci_request EXCEPT !.free = @ \o back]
             /\ xhci_ring' = request_usb_interrupt_report(s.port)
             /\ xhci_device' = [xhci_device EXCEPT ![s.port].reports = 1]
    BY <1>9, FirstReport
  <1> HIDE DEF s
  <1>10. Resume(ok, s, where, back)
    BY DEF s
  <1> QED BY <1>2, <1>4, <1>5, <1>6, <1>7, <1>8, <1>9, <1>10 DEF Resume

-----------------------------------------------------------------------------
\* A port has at most one pair, the one that pair_index names.
LEMMA PairIs ==
    ASSUME NEW p \in Ports
    PROVE  /\ pair_index(p) \in Ports
           /\ PairsOf(p) # {} => PairsOf(p) = {pair_index(p)}
  <1>1. \A q \in Ports : q \in Nat /\ q > 0
    BY PortsAre
  <1>2. \A q \in Ports : PortLayout[q] \in [type : {"usb2", "usb3", "unknown"}, offset : Nat]
    <2> DEFINE R == [type : {"usb2", "usb3", "unknown"}, offset : Nat]
    <2>1. PortLayout \in Seq(R)
      BY XhciAssumption
    <2> HIDE DEF R
    <2>2. \A q \in DOMAIN PortLayout : PortLayout[q] \in R
      BY <2>1
    <2> QED BY <2>2 DEF R, Ports
  <1>3. ASSUME NEW q \in PairsOf(p), NEW x \in PairsOf(p) PROVE q = x
    <2>1. q \in Ports /\ x \in Ports /\ PortLayout[q].offset = PortLayout[x].offset
      BY DEF PairsOf
    <2>2. PortLayout[q].type = PortLayout[x].type /\ PortLayout[q].type # "unknown"
      <3>1. {PortLayout[p].type, PortLayout[q].type} = {"usb2", "usb3"}
            /\ {PortLayout[p].type, PortLayout[x].type} = {"usb2", "usb3"}
        BY DEF PairsOf
      <3> QED BY <3>1
    <2>3. PortLayout[q] = PortLayout[x]
      BY <1>2, <2>1, <2>2
    <2> QED BY <2>1, <2>2, <2>3, XhciAssumption DEF Ports
  <1>4. CASE PairsOf(p) = {}
    BY <1>4, PortsAre DEF pair_index
  <1>5. CASE PairsOf(p) # {}
    <2>1. PICK q \in PairsOf(p) : TRUE
      BY <1>5
    <2>2. PairsOf(p) = {q} /\ q \in Ports
      BY <1>3, <2>1 DEF PairsOf
    <2>3. pair_index(p) = CHOOSE x \in PairsOf(p) : \A y \in PairsOf(p) : y <= x
      BY <1>5 DEF pair_index
    <2>4. q <= q
      BY <1>1, <2>2
    <2>5. pair_index(p) = q
      BY <2>2, <2>3, <2>4
    <2> QED BY <2>2, <2>5
  <1> QED BY <1>4, <1>5

\* A step that only moves the thread or the coroutine.
LEMMA SetupMoves ==
    ASSUME XhciInv, UNCHANGED <<xhci_ring, xhci_events, xhci_request, xhci_device>>,
           SetupWell', Awaiting' <=> Awaiting, FreshWell(xhci_setup', xhci_device)
    PROVE  XhciInv'
  <1>1. RingsWell' /\ EventsWell(xhci_events)' /\ PoolWell'
    BY DEF XhciInv, RingsWell, PoolWell
  <1>2. InFlight' = InFlight
    BY DEF InFlight
  <1>3. RequestsWell'
    BY <1>2 DEF XhciInv, RequestsWell
  <1>4. ReportsWell'
    BY DEF XhciInv, ReportsWell
  <1> QED BY <1>1, <1>3, <1>4 DEF XhciInv

LEMMA StartKeeps ==
    ASSUME XhciInv, NEW ok \in BOOLEAN, start(ok)
    PROVE  XhciInv'
  <1>1. xhci_setup \in SetupRecord /\ xhci_setup.step = "none" /\ xhci_setup.pc = "start"
    BY DEF XhciInv, SetupWell, start, Busy
  <1>2. xhci_setup' \in SetupRecord /\ xhci_setup'.pc \in {"reset", "failed"} /\ xhci_setup'.step = "none"
    BY <1>1 DEF start, SetupRecord
  <1>3. SetupWell' /\ ~Awaiting' /\ ~Awaiting
    BY <1>1, <1>2 DEF SetupWell, Awaiting, Busy
  <1>4. FreshWell(xhci_setup', xhci_device)
    BY <1>1, <1>2 DEF XhciInv, ReportsWell, FreshWell, SetUp
  <1> QED BY <1>3, <1>4, SetupMoves DEF start

LEMMA ResetKeeps ==
    ASSUME XhciInv, NEW outcome, reset_port(outcome)
    PROVE  XhciInv'
  <1> DEFINE p == IF xhci_setup.again # 0 THEN xhci_setup.again ELSE xhci_setup.port
             pairs == outcome = "fails" /\ PortLayout[p].type = "usb3"
  <1>1. xhci_setup \in SetupRecord /\ xhci_setup.step = "none" /\ xhci_setup.pc = "reset"
        /\ xhci_setup.port \in Ports
    BY DEF XhciInv, SetupWell, reset_port, Busy
  <1>2. p \in Ports
    BY <1>1 DEF SetupRecord
  <1>3. pair_index(p) \in Ports /\ xhci_setup.port + 1 \in Nat \ {0}
    <2>1. pair_index(p) \in Ports
      BY <1>2, PairIs
    <2>2. xhci_setup.port \in Nat
      BY <1>1, PortsAre
    <2>3. xhci_setup.port + 1 \in Nat \ {0}
      BY ONLY <2>2
    <2> QED BY <2>1, <2>3
  <1>4. xhci_setup' = [xhci_setup EXCEPT !.again = IF pairs THEN pair_index(p) ELSE 0,
                                         !.port = IF pairs THEN xhci_setup.port ELSE xhci_setup.port + 1]
    BY DEF reset_port
  <1> HIDE DEF pairs, p
  <1>5. xhci_setup' \in SetupRecord /\ xhci_setup'.pc = "reset" /\ xhci_setup'.step = "none"
    BY <1>1, <1>3, <1>4 DEF SetupRecord
  <1>6. SetupWell' /\ ~Awaiting' /\ ~Awaiting
    BY <1>1, <1>5 DEF SetupWell, Awaiting, Busy
  <1>7. FreshWell(xhci_setup', xhci_device)
    BY <1>1, <1>5 DEF XhciInv, ReportsWell, FreshWell, SetUp
  <1> QED BY <1>6, <1>7, SetupMoves DEF reset_port

LEMMA NextPortKeeps ==
    ASSUME XhciInv, next_port
    PROVE  XhciInv'
  <1>1. xhci_setup \in SetupRecord /\ xhci_setup.step = "none" /\ xhci_setup.pc \in {"reset", "idle"}
    BY DEF XhciInv, SetupWell, next_port, Busy
  <1>2. xhci_setup.port + 1 \in Nat \ {0} /\ 1 \in Nat \ {0} /\ xhci_setup.port \in Nat
    BY <1>1 DEF SetupRecord
  <1>3. /\ xhci_setup' \in SetupRecord /\ xhci_setup'.step = "none"
        /\ \/ xhci_setup.pc = "reset" /\ xhci_setup'.pc \in {"reset", "idle"}
           \/ xhci_setup.pc = "idle" /\ xhci_setup'.pc = "idle" /\ xhci_setup'.port = xhci_setup.port + 1
    BY <1>1, <1>2 DEF next_port, SetupRecord
  <1>4. SetupWell' /\ ~Awaiting' /\ ~Awaiting
    BY <1>1, <1>3 DEF SetupWell, Awaiting, Busy
  <1>5. FreshWell(xhci_setup', xhci_device)
    <2>1. \A p \in Ports : xhci_setup.port + 1 <= p => xhci_setup.port <= p
      BY <1>2, PortsAre
    <2> QED BY <1>1, <1>3, <2>1 DEF XhciInv, ReportsWell, FreshWell, SetUp
  <1> QED BY <1>4, <1>5, SetupMoves DEF next_port

LEMMA SetupDeviceKeeps ==
    ASSUME XhciInv, setup_device
    PROVE  XhciInv'
  <1>1. xhci_setup \in SetupRecord /\ xhci_setup.port \in Ports /\ xhci_setup.pc = "idle"
    BY DEF XhciInv, SetupWell, setup_device
  <1>2. ~Awaiting
    BY <1>1 DEF Awaiting, Busy
  <1>3. InFlight = {} /\ Drained(xhci_ring) /\ Quiet(xhci_events)
    BY <1>2 DEF XhciInv, RequestsWell
  <1>4. xhci_events' = xhci_events /\ xhci_device' = xhci_device
        /\ Send("enable_slot", xhci_setup, "thread", <<>>)
    BY DEF setup_device
  <1>5. GivenBack(xhci_request.free, <<>>)
    BY <1>3, InFlightIs DEF GivenBack
  <1>6. "enable_slot" \in Steps /\ "enable_slot" \notin SetUp
    BY DEF Steps, SetUp
  <1>7. Quiet(xhci_events') /\ RingsWell /\ PoolWell
    BY <1>3, <1>4 DEF XhciInv
  <1>8. SentFrom("enable_slot", xhci_setup)
    BY <1>1, <1>3, <1>4, <1>5, <1>6, <1>7, SendWell
  <1>9. Held(xhci_device')
    BY <1>4 DEF XhciInv, ReportsWell, Held, FreshWell
  <1>10. Onward
    BY <1>1, <1>6, <1>8, <1>9, SentOnward
  <1> QED BY <1>4, <1>10 DEF Onward, XhciInv

LEMMA AwaitReadyKeeps ==
    ASSUME XhciInv, await_ready
    PROVE  XhciInv'
  <1>1. xhci_setup \in SetupRecord /\ xhci_setup.pc = "sent" /\ xhci_setup.pc \in Busy
        /\ xhci_setup.port \in Ports
    BY DEF XhciInv, SetupWell, await_ready, Busy
  <1>2. CASE xhci_setup.has_result
    <2>1. InFlight = {} /\ Drained(xhci_ring) /\ Quiet(xhci_events)
      BY <1>2 DEF XhciInv, RequestsWell, Awaiting
    <2>2. xhci_events' = xhci_events /\ Resume(xhci_setup.ok, xhci_setup, "thread", <<>>)
      BY <1>2 DEF await_ready
    <2>3. GivenBack(xhci_request.free, <<>>)
      BY <2>1, InFlightIs DEF GivenBack
    <2>4. Held(xhci_device)
      BY <2>2 DEF XhciInv, ReportsWell, Held, FreshWell
    <2>5. Resumed(<<>>)
      BY <1>1, <2>1, <2>2, <2>3, <2>4 DEF Resumed, XhciInv, ReportsWell
    <2>6. Onward
      BY <2>2, <2>5, ResumeWell
    <2> QED BY <2>2, <2>6 DEF Onward, XhciInv
  <1>3. CASE ~xhci_setup.has_result
    <2>1. xhci_setup' = [xhci_setup EXCEPT !.pc = "checked"]
          /\ UNCHANGED <<xhci_ring, xhci_events, xhci_request, xhci_device>>
      BY <1>3 DEF await_ready
    <2>2. xhci_setup' \in SetupRecord /\ xhci_setup'.pc = "checked" /\ xhci_setup'.port = xhci_setup.port
          /\ xhci_setup'.step = xhci_setup.step /\ xhci_setup'.has_result = xhci_setup.has_result
      BY <1>1, <2>1 DEF SetupRecord, Busy
    <2>3. SetupWell' /\ (Awaiting' <=> Awaiting)
      BY <1>1, <2>2 DEF SetupWell, Awaiting, Busy
    <2>4. FreshWell(xhci_setup', xhci_device)
      BY <1>1, <2>2 DEF XhciInv, ReportsWell, FreshWell
    <2> QED BY <2>1, <2>3, <2>4, SetupMoves
  <1> QED BY <1>2, <1>3

LEMMA AwaitSuspendKeeps ==
    ASSUME XhciInv, await_suspend
    PROVE  XhciInv'
  <1>1. xhci_setup \in SetupRecord /\ xhci_setup.pc = "checked" /\ xhci_setup.pc \in Busy
        /\ xhci_setup.port \in Ports
    BY DEF XhciInv, SetupWell, await_suspend, Busy
  <1>2. xhci_setup' \in SetupRecord /\ xhci_setup'.pc = "suspended" /\ xhci_setup'.port = xhci_setup.port
        /\ xhci_setup'.step = xhci_setup.step /\ xhci_setup'.has_result = xhci_setup.has_result
    BY <1>1 DEF SetupRecord, Busy, await_suspend
  <1>3. SetupWell' /\ (Awaiting' <=> Awaiting)
    BY <1>1, <1>2 DEF SetupWell, Awaiting, Busy
  <1>4. FreshWell(xhci_setup', xhci_device)
    BY <1>1, <1>2 DEF XhciInv, ReportsWell, FreshWell
  <1> QED BY <1>3, <1>4, SetupMoves DEF await_suspend

-----------------------------------------------------------------------------
\* What the first event being read leaves of the others.
LEMMA ReportTail ==
    ASSUME NEW e, NEW f, NEW dev, NEW rings, e.due \in Seq(EventTrb), e.due # <<>>,
           f.due = Tail(e.due), ReportEvents(e, dev, rings)
    PROVE  /\ ReportEvents(f, dev, rings)
           /\ IsReport(e, 1) => \A i \in DOMAIN f.due : IsReport(f, i) => ReportPort(f, i) # ReportPort(e, 1)
  <1> DEFINE m == Len(e.due)
  <1>1. /\ DOMAIN e.due = 1 .. m /\ m \in Nat /\ m >= 1 /\ DOMAIN f.due = 1 .. m - 1
        /\ \A i \in 1 .. m - 1 : f.due[i] = e.due[i + 1]
    OBVIOUS
  <1> HIDE DEF m
  <1>2. 1 \in 1 .. m /\ \A i \in 1 .. m - 1 : i + 1 \in 1 .. m /\ i + 1 # 1
    BY <1>1
  <1>3. \A i \in 1 .. m - 1 : IsReport(f, i) = IsReport(e, i + 1) /\ ReportPort(f, i) = ReportPort(e, i + 1)
    BY <1>1 DEF IsReport, ReportPort
  <1>4. \A i, j \in 1 .. m - 1 : i + 1 = j + 1 => i = j
    BY <1>1
  <1>5. /\ \A i \in 1 .. m : IsReport(e, i) =>
             /\ ReportPort(e, i) \in Ports
             /\ dev[ReportPort(e, i)].reports > 0
             /\ rings[ReportPort(e, i)].due = <<>>
        /\ \A i, j \in 1 .. m :
             IsReport(e, i) /\ IsReport(e, j) /\ ReportPort(e, i) = ReportPort(e, j) => i = j
    BY <1>1 DEF ReportEvents
  <1>6. \A i \in 1 .. m - 1 : IsReport(f, i) =>
             /\ ReportPort(f, i) \in Ports
             /\ dev[ReportPort(f, i)].reports > 0
             /\ rings[ReportPort(f, i)].due = <<>>
    BY <1>2, <1>3, <1>5
  <1>7. \A i, j \in 1 .. m - 1 :
             IsReport(f, i) /\ IsReport(f, j) /\ ReportPort(f, i) = ReportPort(f, j) => i = j
    BY <1>2, <1>3, <1>4, <1>5
  <1>8. IsReport(e, 1) => \A i \in 1 .. m - 1 : IsReport(f, i) => ReportPort(f, i) # ReportPort(e, 1)
    BY <1>2, <1>3, <1>5
  <1> QED BY <1>1, <1>6, <1>7, <1>8 DEF ReportEvents

\* An event that answers no request is read, and the rings of the requests are
\* as they were.
LEMMA TrackedTail ==
    ASSUME NEW q, NEW e, NEW f, NEW rings, NEW rings2, NEW phy,
           e.due \in Seq(EventTrb), e.due # <<>>, f.due = Tail(e.due),
           rings2[CommandRing] = rings[CommandRing], rings2[ControlRing] = rings[ControlRing],
           Tracked(q, rings, e, phy), ~Answer(e.due[1], q, phy)
    PROVE  Tracked(q, rings2, f, phy)
  <1> DEFINE m == Len(e.due)
  <1>1. /\ DOMAIN e.due = 1 .. m /\ m \in Nat /\ m >= 1 /\ DOMAIN f.due = 1 .. m - 1
        /\ \A i \in 1 .. m - 1 : f.due[i] = e.due[i + 1]
    OBVIOUS
  <1> HIDE DEF m
  <1>2. \A i \in 1 .. m - 1 : i + 1 \in 1 .. m
    BY <1>1
  <1>3. CASE CommandSent(q, rings, e, phy)
    BY <1>1, <1>2, <1>3 DEF Tracked, CommandSent, Quiet
  <1>4. CASE TransferSent(q, rings, e, phy)
    BY <1>1, <1>2, <1>4 DEF Tracked, TransferSent
  <1>5. CASE Answered(q, rings, e, phy)
    <2>1. PICK i \in 1 .. m : /\ Answer(e.due[i], q, phy)
                              /\ \A j \in 1 .. m : j # i => e.due[j].stage = "normal"
      BY <1>1, <1>5 DEF Answered
    <2>2. i - 1 \in 1 .. m - 1 /\ (i - 1) + 1 = i
      BY <1>1, <2>1
    <2>3. Answer(f.due[i - 1], q, phy)
      BY <1>1, <2>1, <2>2
    <2>4. \A j \in 1 .. m - 1 : j # i - 1 => j + 1 # i
      BY <1>1, <2>1
    <2>5. \A j \in 1 .. m - 1 : j # i - 1 => f.due[j].stage = "normal"
      BY <1>1, <1>2, <2>1, <2>4
    <2>6. Drained(rings2)
      BY <1>5 DEF Answered, Drained
    <2> QED BY <1>1, <2>2, <2>3, <2>5, <2>6 DEF Tracked, Answered
  <1> QED BY <1>3, <1>4, <1>5 DEF Tracked

\* An event that is read: what the handler then knows.
IrqReads(e, ev) == /\ xhci_events.due # <<>> /\ ev = xhci_events.due[1] /\ ev \in EventTrb
                   /\ e.due = Tail(xhci_events.due) /\ xhci_events.due \in Seq(EventTrb)
LEMMA IrqReading ==
    ASSUME XhciInv, has_unprocessed_events, xhci_events' = dequeue(xhci_events)
    PROVE  /\ EventsWell(xhci_events')
           /\ IrqReads(xhci_events', xhci_events.slot[xhci_events.dequeue_index].trb)
  <1>1. EventsWell(xhci_events) /\ xhci_events \in EventRecord /\ xhci_events.due \in Seq(EventTrb)
    BY DEF XhciInv, EventsWell, EventRecord
  <1>2. xhci_events.due # <<>> /\ xhci_events.slot[xhci_events.dequeue_index].trb = xhci_events.due[1]
    BY <1>1, EventFound DEF has_unprocessed_events
  <1>3. Dequeued(xhci_events, xhci_events')
    BY <1>1, <1>2, DequeueChanges
  <1>4. EventsWell(xhci_events')
    BY <1>1, <1>2, <1>3, DequeueWell
  <1>5. xhci_events.due[1] \in EventTrb
    BY <1>1, <1>2
  <1> QED BY <1>1, <1>2, <1>3, <1>4, <1>5 DEF IrqReads, Dequeued

\* A report is handled.
LEMMA IrqReport ==
    ASSUME XhciInv, NEW ev, IrqReads(xhci_events', ev), EventsWell(xhci_events'),
           ev.stage = "normal",
           xhci_ring' = request_usb_interrupt_report(ev.trb_phy[1]),
           xhci_device' = [xhci_device EXCEPT ![ev.trb_phy[1]].reports = @ + 1],
           UNCHANGED <<xhci_request, xhci_setup>>
    PROVE  XhciInv'
  <1> DEFINE e == xhci_events
             p0 == ev.trb_phy[1]
  <1>1. ReportEvents(e, xhci_device, xhci_ring) /\ DevicesWell(xhci_device, xhci_ring)
        /\ FreshWell(xhci_setup, xhci_device) /\ RingsWell
    BY DEF XhciInv, ReportsWell
  <1>2. 1 \in DOMAIN e.due /\ e.due[1] = ev /\ IsReport(e, 1) /\ ReportPort(e, 1) = p0
    BY DEF IrqReads, IsReport, ReportPort
  <1>3. p0 \in Ports /\ xhci_device[p0].reports > 0 /\ xhci_ring[p0].due = <<>>
    BY <1>1, <1>2 DEF ReportEvents
  <1>4. xhci_device \in [Ports -> DeviceRecord] /\ Usable(xhci_device[p0])
    BY <1>1, <1>3 DEF DevicesWell
  <1> HIDE DEF p0
  <1>5. /\ RingsWell' /\ xhci_ring'[p0].due = <<NormalTRB>>
        /\ \A r \in Rings : r # p0 => xhci_ring'[r] = xhci_ring[r]
    BY <1>1, <1>3, AskReport DEF p0
  <1>6. /\ xhci_device' \in [Ports -> DeviceRecord] /\ xhci_device'[p0].reports > 0
        /\ Usable(xhci_device'[p0]) /\ \A p \in Ports : p # p0 => xhci_device'[p] = xhci_device[p]
    <2> DEFINE d == xhci_device[p0]
               d2 == [d EXCEPT !.reports = d.reports + 1]
    <2>1. xhci_device' = [xhci_device EXCEPT ![p0] = d2]
      BY DEF p0
    <2>2. d \in DeviceRecord /\ d.reports > 0 /\ Usable(d)
      BY <1>3, <1>4
    <2> HIDE DEF d
    <2>3. d2 \in DeviceRecord /\ d2.reports > 0 /\ Usable(d2)
      BY <2>2 DEF DeviceRecord, Usable
    <2> HIDE DEF d2
    <2> QED BY <1>3, <1>4, <2>1, <2>3
  <1>7. /\ ReportEvents(xhci_events', xhci_device, xhci_ring)
        /\ \A i \in DOMAIN xhci_events'.due : IsReport(xhci_events', i) => ReportPort(xhci_events', i) # p0
    BY <1>1, <1>2, ReportTail DEF IrqReads
  <1>8. ReportEvents(xhci_events', xhci_device', xhci_ring')
    BY <1>5, <1>6, <1>7, PortsAre DEF ReportEvents
  <1>9. DevicesWell(xhci_device', xhci_ring')
    <2> SUFFICES ASSUME NEW p \in Ports
                 PROVE  /\ xhci_ring'[p].due \in {<<>>, <<NormalTRB>>}
                        /\ xhci_ring'[p].due # <<>> => xhci_device'[p].reports > 0
                        /\ xhci_device'[p].reports > 0 => Usable(xhci_device'[p])
      BY <1>6 DEF DevicesWell
    <2>1. CASE p = p0
      BY <2>1, <1>5, <1>6
    <2>2. CASE p # p0
      BY <2>2, <1>1, <1>5, <1>6, PortsAre DEF DevicesWell
    <2> QED BY <2>1, <2>2
  <1>10. FreshWell(xhci_setup', xhci_device')
    <2>1. ASSUME NEW p \in Ports, xhci_setup.pc \in {"start", "failed", "reset"} \/ xhci_setup.port <= p
          PROVE  xhci_device'[p].reports = 0
      <3>1. xhci_device[p].reports = 0
        BY <1>1, <2>1 DEF FreshWell
      <3>2. p # p0
        BY <1>3, <3>1
      <3> QED BY <1>6, <3>1, <3>2
    <2>2. ASSUME xhci_setup.step \in SetUp PROVE Usable(xhci_device'[xhci_setup.port])
      <3>1. Usable(xhci_device[xhci_setup.port])
        BY <1>1, <2>2 DEF FreshWell
      <3>2. xhci_setup.port \in Ports
        BY <2>2 DEF XhciInv, SetupWell, SetUp
      <3> QED BY <1>6, <3>1, <3>2
    <2> QED BY <2>1, <2>2 DEF FreshWell
  <1>11. xhci_ring'[CommandRing] = xhci_ring[CommandRing] /\ xhci_ring'[ControlRing] = xhci_ring[ControlRing]
    BY <1>3, <1>5, PortsAre
  <1>12. RequestsWell'
    <2>1. InFlight' = InFlight /\ (Awaiting' <=> Awaiting)
      BY DEF InFlight, Awaiting
    <2>2. CASE ~Awaiting
      <3>1. InFlight = {} /\ Drained(xhci_ring) /\ Quiet(e)
        BY <2>2 DEF XhciInv, RequestsWell
      <3>2. Drained(xhci_ring')
        BY <1>11, <3>1 DEF Drained
      <3>3. Quiet(xhci_events')
        <4>1. /\ DOMAIN e.due = 1 .. Len(e.due) /\ Len(e.due) \in Nat
              /\ DOMAIN xhci_events'.due = 1 .. Len(e.due) - 1
              /\ \A i \in 1 .. Len(e.due) - 1 : xhci_events'.due[i] = e.due[i + 1]
          BY DEF IrqReads
        <4>2. \A i \in 1 .. Len(e.due) - 1 : i + 1 \in 1 .. Len(e.due)
          BY <4>1
        <4> QED BY <3>1, <4>1, <4>2 DEF Quiet
      <3> QED BY <2>1, <2>2, <3>1, <3>2, <3>3 DEF RequestsWell
    <2>3. CASE Awaiting
      <3>1. PICK q \in 1 .. Requests : InFlight = {q} /\ Tracked(q, xhci_ring, e, xhci_request.trb_phy[q])
        BY <2>3 DEF XhciInv, RequestsWell
      <3>2. ~Answer(e.due[1], q, xhci_request.trb_phy[q])
        BY <1>2 DEF Answer
      <3>3. Tracked(q, xhci_ring', xhci_events', xhci_request.trb_phy[q])
        BY <1>11, <3>1, <3>2, TrackedTail DEF IrqReads
      <3> QED BY <2>1, <2>3, <3>1, <3>3 DEF RequestsWell
    <2> QED BY <2>2, <2>3
  <1>13. SetupWell' /\ PoolWell'
    BY DEF XhciInv, SetupWell, PoolWell
  <1> QED BY <1>5, <1>8, <1>9, <1>10, <1>12, <1>13 DEF XhciInv, ReportsWell

\* An event that names no request that is in flight.
LEMMA IrqStray ==
    ASSUME XhciInv, NEW ev, IrqReads(xhci_events', ev), EventsWell(xhci_events'),
           ev.stage # "normal",
           (IF ev.request # 0 THEN {ev.request}
            ELSE {q \in InFlight : xhci_request.trb_phy[q] = ev.trb_phy}) = {},
           UNCHANGED <<xhci_ring, xhci_request, xhci_setup, xhci_device>>
    PROVE  XhciInv'
  <1> DEFINE e == xhci_events
  <1>1. 1 \in DOMAIN e.due /\ e.due[1] = ev
    BY DEF IrqReads
  <1>2. ev.request = 0 /\ \A q \in InFlight : xhci_request.trb_phy[q] # ev.trb_phy
    OBVIOUS
  <1>3. InFlight' = InFlight /\ (Awaiting' <=> Awaiting)
    BY DEF InFlight, Awaiting
  <1>4. Awaiting
    BY <1>1 DEF XhciInv, RequestsWell, Quiet
  <1>5. PICK q \in 1 .. Requests : InFlight = {q} /\ Tracked(q, xhci_ring, e, xhci_request.trb_phy[q])
    BY <1>4 DEF XhciInv, RequestsWell
  <1>6. ~Answer(ev, q, xhci_request.trb_phy[q])
    <2>1. q # 0
      BY XhciAssumption
    <2> QED BY <1>2, <1>5, <2>1 DEF Answer
  <1>7. Tracked(q, xhci_ring', xhci_events', xhci_request.trb_phy[q])
    BY <1>1, <1>5, <1>6, TrackedTail DEF IrqReads
  <1>8. RequestsWell'
    BY <1>3, <1>4, <1>5, <1>7 DEF RequestsWell
  <1>9. RingsWell' /\ SetupWell' /\ PoolWell'
    BY DEF XhciInv, RingsWell, SetupWell, PoolWell
  <1>10. ReportEvents(e, xhci_device, xhci_ring)
    BY DEF XhciInv, ReportsWell
  <1>11. ReportEvents(xhci_events', xhci_device, xhci_ring)
    BY <1>10, ReportTail DEF IrqReads
  <1>12. ReportsWell'
    BY <1>11 DEF XhciInv, ReportsWell
  <1> QED BY <1>8, <1>9, <1>12 DEF XhciInv

\* An event that names a request is the answer of the one in flight.
LEMMA IrqAnswer ==
    ASSUME XhciInv, NEW ev, IrqReads(xhci_events', ev), ev.stage # "normal",
           NEW q \in IF ev.request # 0 THEN {ev.request}
                     ELSE {x \in InFlight : xhci_request.trb_phy[x] = ev.trb_phy}
    PROVE  /\ Awaiting /\ q \in 1 .. Requests /\ InFlight = {q}
           /\ Drained(xhci_ring) /\ Quiet(xhci_events')
  <1> DEFINE e == xhci_events
             m == Len(e.due)
  <1>1. 1 \in DOMAIN e.due /\ e.due[1] = ev
    BY DEF IrqReads
  <1>4. Awaiting
    BY <1>1 DEF XhciInv, RequestsWell, Quiet
  <1>5. PICK x \in 1 .. Requests : InFlight = {x} /\ Tracked(x, xhci_ring, e, xhci_request.trb_phy[x])
    BY <1>4 DEF XhciInv, RequestsWell
  <1>6. ~CommandSent(x, xhci_ring, e, xhci_request.trb_phy[x])
    BY <1>1 DEF CommandSent, Quiet
  <1>7. ~TransferSent(x, xhci_ring, e, xhci_request.trb_phy[x])
    <2> SUFFICES ASSUME TransferSent(x, xhci_ring, e, xhci_request.trb_phy[x]) PROVE FALSE
      OBVIOUS
    <2>1. ev.request = 0 /\ ev.trb_phy # xhci_request.trb_phy[x]
      BY <1>1 DEF TransferSent, Stray
    <2> QED BY <1>5, <2>1
  <1>8. Answered(x, xhci_ring, e, xhci_request.trb_phy[x])
    BY <1>5, <1>6, <1>7 DEF Tracked
  <1>9. Drained(xhci_ring)
    BY <1>8 DEF Answered
  <1>10. PICK i \in DOMAIN e.due : /\ Answer(e.due[i], x, xhci_request.trb_phy[x])
                                   /\ \A j \in DOMAIN e.due : j # i => e.due[j].stage = "normal"
    BY <1>8 DEF Answered
  <1>11. i = 1
    BY <1>1, <1>10
  <1>12. q = x
    <2>1. x # 0
      BY XhciAssumption
    <2>2. Answer(ev, x, xhci_request.trb_phy[x])
      BY <1>1, <1>10, <1>11
    <2> QED BY <1>5, <2>1, <2>2 DEF Answer
  <1>13. Quiet(xhci_events')
    <2>1. /\ DOMAIN e.due = 1 .. m /\ m \in Nat /\ DOMAIN xhci_events'.due = 1 .. m - 1
          /\ \A j \in 1 .. m - 1 : xhci_events'.due[j] = e.due[j + 1]
      BY DEF IrqReads
    <2>2. \A j \in 1 .. m - 1 : j + 1 \in 1 .. m /\ j + 1 # 1
      BY <2>1
    <2> HIDE DEF m
    <2> SUFFICES ASSUME NEW j \in 1 .. m - 1 PROVE xhci_events'.due[j].stage = "normal"
      BY <2>1 DEF Quiet
    <2>3. e.due[j + 1].stage = "normal"
      BY <1>10, <1>11, <2>1, <2>2
    <2> QED BY <2>1, <2>3
  <1> QED BY <1>4, <1>5, <1>9, <1>12, <1>13

LEMMA IrqCompletes ==
    ASSUME XhciInv, NEW ev, IrqReads(xhci_events', ev), EventsWell(xhci_events'), ev.stage # "normal",
           NEW q \in IF ev.request # 0 THEN {ev.request}
                     ELSE {x \in InFlight : xhci_request.trb_phy[x] = ev.trb_phy},
           Complete(q, ev.ok)
    PROVE  XhciInv'
  <1>1. /\ Awaiting /\ q \in 1 .. Requests /\ InFlight = {q}
        /\ Drained(xhci_ring) /\ Quiet(xhci_events')
    BY IrqAnswer
  <1>2. RingsWell /\ SetupWell /\ PoolWell /\ xhci_setup.pc \in Busy
        /\ xhci_setup \in SetupRecord /\ xhci_setup.port \in Ports
    BY <1>1 DEF XhciInv, Awaiting, SetupWell
  <1>3. GivenBack(xhci_request.free, <<q>>)
    BY <1>1, InFlightIs DEF GivenBack
  <1>4. ReportEvents(xhci_events, xhci_device, xhci_ring)
    BY DEF XhciInv, ReportsWell
  <1>5. ReportEvents(xhci_events', xhci_device, xhci_ring)
    BY <1>4, ReportTail DEF IrqReads
  <1>6. Held(xhci_device)
    BY <1>5 DEF Held, XhciInv, ReportsWell, FreshWell
  <1>7. CASE xhci_setup.pc = "suspended" /\ ~xhci_setup.has_result
    <2>1. Resume(ev.ok, xhci_setup, "handler", <<q>>)
      BY <1>7 DEF Complete
    <2>2. Resumed(<<q>>)
      BY <1>1, <1>2, <1>3, <1>6 DEF Resumed, XhciInv, ReportsWell
    <2>3. Onward
      BY <2>1, <2>2, ResumeWell
    <2> QED BY <2>3 DEF Onward, XhciInv
  <1>8. CASE ~(xhci_setup.pc = "suspended" /\ ~xhci_setup.has_result)
    <2> DEFINE free == xhci_request.free
    <2>1. /\ xhci_setup' = [xhci_setup EXCEPT !.has_result = TRUE, !.ok = ev.ok]
          /\ xhci_request' = [xhci_request EXCEPT !.free = Append(free, q)]
          /\ UNCHANGED <<xhci_ring, xhci_device>>
      BY <1>8 DEF Complete
    <2>2. free \in Seq(1 .. Requests) /\ Distinct(free)
          /\ xhci_request \in [free : Seq(1 .. Requests), trb_phy : [1 .. Requests -> Nat \X Nat]]
      BY <1>2 DEF PoolWell
    <2>3. Append(free, q) = free \o <<q>>
      <3>1. free \in Seq(1 .. Requests) /\ q \in 1 .. Requests
        BY <1>1, <2>2
      <3> HIDE DEF free
      <3> QED BY ONLY <3>1
    <2>4. free \o <<q>> \in Seq(1 .. Requests) /\ Distinct(free \o <<q>>) /\ Unused(free \o <<q>>) = {}
      BY <1>3, <2>2, PoolReturn
    <2>5. xhci_request' \in [free : Seq(1 .. Requests), trb_phy : [1 .. Requests -> Nat \X Nat]]
          /\ xhci_request'.free = free \o <<q>>
      BY <2>1, <2>2, <2>3, <2>4
    <2>6. PoolWell' /\ InFlight' = {}
      BY <2>4, <2>5 DEF PoolWell, InFlight, Unused
    <2>7. ev.ok \in BOOLEAN
      BY DEF IrqReads, EventTrb
    <2>8. /\ xhci_setup' \in SetupRecord /\ xhci_setup'.has_result /\ xhci_setup'.pc = xhci_setup.pc
          /\ xhci_setup'.port = xhci_setup.port /\ xhci_setup'.step = xhci_setup.step
      BY <1>2, <2>1, <2>7 DEF SetupRecord
    <2>9. SetupWell' /\ ~Awaiting'
      BY <1>2, <2>8 DEF SetupWell, Awaiting
    <2>10. RequestsWell'
      BY <1>1, <2>1, <2>6, <2>9 DEF RequestsWell
    <2>11. RingsWell'
      BY <1>2, <2>1 DEF RingsWell
    <2>12. ReportsWell'
      BY <1>5, <2>1, <2>8 DEF XhciInv, ReportsWell, FreshWell
    <2> QED BY <2>6, <2>9, <2>10, <2>11, <2>12 DEF XhciInv
  <1> QED BY <1>7, <1>8

LEMMA IrqKeeps ==
    ASSUME XhciInv, irq
    PROVE  XhciInv'
  <1> DEFINE ev == xhci_events.slot[xhci_events.dequeue_index].trb
             found == IF ev.request # 0 THEN {ev.request}
                      ELSE {q \in InFlight : xhci_request.trb_phy[q] = ev.trb_phy}
  <1>1. has_unprocessed_events /\ xhci_events' = dequeue(xhci_events)
    BY DEF irq
  <1>2. EventsWell(xhci_events') /\ IrqReads(xhci_events', ev)
    BY <1>1, IrqReading
  <1>3. \/ ev.stage # "normal" /\ \E q \in found : Complete(q, ev.ok)
        \/ /\ ev.stage # "normal" /\ found = {}
           /\ UNCHANGED <<xhci_ring, xhci_request, xhci_setup, xhci_device>>
        \/ /\ ev.stage = "normal"
           /\ xhci_ring' = request_usb_interrupt_report(ev.trb_phy[1])
           /\ xhci_device' = [xhci_device EXCEPT ![ev.trb_phy[1]].reports = @ + 1]
           /\ UNCHANGED <<xhci_request, xhci_setup>>
    BY DEF irq
  <1> HIDE DEF ev
  <1>4. CASE ev.stage # "normal" /\ \E q \in found : Complete(q, ev.ok)
    <2>1. PICK q \in found : Complete(q, ev.ok)
      BY <1>4
    <2> QED BY <1>2, <1>4, <2>1, IrqCompletes
  <1>5. CASE /\ ev.stage # "normal" /\ found = {}
             /\ UNCHANGED <<xhci_ring, xhci_request, xhci_setup, xhci_device>>
    BY <1>2, <1>5, IrqStray
  <1>6. CASE /\ ev.stage = "normal"
             /\ xhci_ring' = request_usb_interrupt_report(ev.trb_phy[1])
             /\ xhci_device' = [xhci_device EXCEPT ![ev.trb_phy[1]].reports = @ + 1]
             /\ UNCHANGED <<xhci_request, xhci_setup>>
    BY <1>2, <1>6, IrqReport
  <1> QED BY <1>3, <1>4, <1>5, <1>6

-----------------------------------------------------------------------------
\* The controller changes one ring.
LEMMA OneRing ==
    ASSUME RingsWell, NEW r \in Rings, NEW s \in RingRecord, RingWell(s),
           xhci_ring' = [xhci_ring EXCEPT ![r] = s]
    PROVE  RingsWell' /\ xhci_ring'[r] = s /\ \A x \in Rings : x # r => xhci_ring'[x] = xhci_ring[x]
  BY DEF RingsWell

\* An event is added.
LEMMA EventAdded ==
    ASSUME NEW e, NEW f, NEW t, e.due \in Seq(EventTrb), t \in EventTrb, f.due = Append(e.due, t)
    PROVE  /\ DOMAIN f.due = DOMAIN e.due \cup {Len(e.due) + 1}
           /\ f.due[Len(e.due) + 1] = t /\ Len(e.due) + 1 \notin DOMAIN e.due
           /\ \A i \in DOMAIN e.due : f.due[i] = e.due[i]
  <1> DEFINE m == Len(e.due)
  <1>1. /\ m \in Nat /\ DOMAIN e.due = 1 .. m /\ DOMAIN f.due = 1 .. m + 1
        /\ \A i \in 1 .. m + 1 : f.due[i] = IF i = m + 1 THEN t ELSE e.due[i]
    OBVIOUS
  <1> HIDE DEF m
  <1>2. 1 .. m + 1 = (1 .. m) \cup {m + 1} /\ m + 1 \notin 1 .. m
    BY <1>1
  <1> QED BY <1>1, <1>2 DEF m

\* An event that is no report, of a ring that is not of a port.
LEMMA OtherEvent ==
    ASSUME NEW e, NEW f, NEW t, e.due \in Seq(EventTrb), t \in EventTrb, f.due = Append(e.due, t),
           t.stage # "normal", NEW dev, NEW rings, NEW rings2,
           \A p \in Ports : rings2[p] = rings[p], ReportEvents(e, dev, rings)
    PROVE  ReportEvents(f, dev, rings2)
  <1>1. /\ DOMAIN f.due = DOMAIN e.due \cup {Len(e.due) + 1}
        /\ f.due[Len(e.due) + 1] = t /\ \A i \in DOMAIN e.due : f.due[i] = e.due[i]
    BY EventAdded
  <1>2. \A i \in DOMAIN f.due : IsReport(f, i) =>
           i \in DOMAIN e.due /\ IsReport(e, i) /\ ReportPort(f, i) = ReportPort(e, i)
    BY <1>1 DEF IsReport, ReportPort
  <1> QED BY <1>2 DEF ReportEvents

\* The parts of the invariant that a step of the controller leaves alone.
LEMMA ControllerRest ==
    ASSUME XhciInv, UNCHANGED <<xhci_port, xhci_request, xhci_setup, xhci_device>>
    PROVE  /\ SetupWell' /\ PoolWell' /\ InFlight' = InFlight /\ (Awaiting' <=> Awaiting)
           /\ FreshWell(xhci_setup', xhci_device')
  BY DEF XhciInv, SetupWell, PoolWell, InFlight, Awaiting, ReportsWell

\* The controller's event.
EventOf(r, ring, ok) ==
    LET trb == ring.slot[HcAt(ring)[1]].trb IN
    [stage |-> trb.stage, trb_phy |-> <<r, HcAt(ring)[1]>>, ok |-> ok,
     request |-> IF trb.stage = "event_data" THEN trb.request ELSE 0]
LEMMA EventOfIs ==
    ASSUME NEW r \in Rings, NEW ring, RingWell(ring), ring.due # <<>>, NEW ok \in BOOLEAN
    PROVE  /\ EventOf(r, ring, ok) \in EventTrb
           /\ EventOf(r, ring, ok).stage = ring.due[1].stage
           /\ EventOf(r, ring, ok).trb_phy = <<r, HcAt(ring)[1]>>
           /\ EventOf(r, ring, ok).request = IF ring.due[1].stage = "event_data" THEN ring.due[1].request ELSE 0
  <1>1. ring.slot[HcAt(ring)[1]].trb = ring.due[1] /\ HcAt(ring)[1] \in 0 .. LastSlot - 1
    BY HcFinds
  <1>2. ring.due \in Seq(Trb)
    BY DEF RingWell, RingRecord
  <1>3. ring.due[1] \in Trb
    BY <1>2
  <1>4. r \in Nat /\ HcAt(ring)[1] \in Nat
    BY <1>1, PortsAre, RingSize
  <1> DEFINE t == ring.due[1]
             h == HcAt(ring)[1]
  <1>5. EventOf(r, ring, ok) = [stage |-> t.stage, trb_phy |-> <<r, h>>, ok |-> ok,
                                request |-> IF t.stage = "event_data" THEN t.request ELSE 0]
    BY <1>1 DEF EventOf
  <1> HIDE DEF t, h
  <1>6. t \in Trb /\ h \in Nat
    BY <1>3, <1>4 DEF t, h
  <1> QED BY <1>4, <1>5, <1>6 DEF EventTrb, Trb, t, h

LEMMA PostedWell ==
    ASSUME XhciInv, NEW t \in EventTrb, HcRoom(xhci_events), xhci_events' = HcPosted(xhci_events, t)
    PROVE  /\ EventsWell(xhci_events') /\ xhci_events'.due = Append(xhci_events.due, t)
           /\ xhci_events.due \in Seq(EventTrb)
  <1>1. EventsWell(xhci_events) /\ xhci_events \in EventRecord /\ xhci_events.due \in Seq(EventTrb)
    BY DEF XhciInv, EventsWell, EventRecord
  <1>2. Posted(xhci_events, t, xhci_events')
    BY <1>1, PostChanges
  <1> QED BY <1>1, <1>2, PostWell DEF Posted

\* The controller has taken a report's TRB.
LEMMA TakesReport ==
    ASSUME XhciInv, NEW r \in Ports, xhci_ring[r].due # <<>>, NEW ok \in BOOLEAN,
           xhci_ring' = [xhci_ring EXCEPT ![r] = HcTaken(xhci_ring[r])],
           HcRoom(xhci_events), xhci_events' = HcPosted(xhci_events, EventOf(r, xhci_ring[r], ok)),
           UNCHANGED <<xhci_port, xhci_request, xhci_setup, xhci_device>>
    PROVE  XhciInv'
  <1> DEFINE ring == xhci_ring[r]
             s == HcTaken(ring)
             t == EventOf(r, ring, ok)
             e == xhci_events
             f == xhci_events'
  <1>1. r \in Rings /\ RingsWell /\ RingWell(ring)
    BY PortsAre DEF XhciInv, RingsWell
  <1>2. ring.due = <<NormalTRB>> /\ xhci_device[r].reports > 0
    BY DEF XhciInv, ReportsWell, DevicesWell
  <1>3. t \in EventTrb /\ t.stage = "normal" /\ t.trb_phy[1] = r
    <2>1. ring.due # <<>> /\ ring.due[1].stage = "normal"
      BY <1>2 DEF NormalTRB
    <2>2. t \in EventTrb /\ t.stage = ring.due[1].stage /\ t.trb_phy = <<r, HcAt(ring)[1]>>
      BY <1>1, <2>1, EventOfIs
    <2> HIDE DEF t
    <2> QED BY <2>1, <2>2
  <1>4. Taken(ring, s)
    BY <1>1, HcTakenChanges
  <1>5. s \in RingRecord /\ RingWell(s) /\ s.due = <<>>
    <2>1. Tail(<<NormalTRB>>) = <<>>
      OBVIOUS
    <2> QED BY <1>1, <1>2, <1>4, <2>1, HcTakenWell DEF Taken
  <1> HIDE DEF s
  <1>6. RingsWell' /\ xhci_ring'[r] = s /\ \A x \in Rings : x # r => xhci_ring'[x] = xhci_ring[x]
    BY <1>1, <1>5, OneRing DEF s
  <1> HIDE DEF t
  <1>7. EventsWell(f) /\ f.due = Append(e.due, t) /\ e.due \in Seq(EventTrb)
    BY <1>3, PostedWell DEF t
  <1>8. /\ DOMAIN f.due = DOMAIN e.due \cup {Len(e.due) + 1}
        /\ f.due[Len(e.due) + 1] = t /\ Len(e.due) + 1 \notin DOMAIN e.due
        /\ \A i \in DOMAIN e.due : f.due[i] = e.due[i]
    BY <1>3, <1>7, EventAdded
  <1>9. xhci_ring'[CommandRing] = xhci_ring[CommandRing] /\ xhci_ring'[ControlRing] = xhci_ring[ControlRing]
    BY <1>6, PortsAre
  <1>10. SetupWell' /\ PoolWell' /\ InFlight' = InFlight /\ (Awaiting' <=> Awaiting)
         /\ FreshWell(xhci_setup', xhci_device')
    BY ControllerRest
  <1>11. \A i \in DOMAIN f.due : f.due[i].stage = "normal" \/ (i \in DOMAIN e.due /\ f.due[i] = e.due[i])
    BY <1>3, <1>8
  <1>12. RequestsWell'
    <2>1. CASE ~Awaiting
      <3>1. InFlight = {} /\ Drained(xhci_ring) /\ Quiet(e)
        BY <2>1 DEF XhciInv, RequestsWell
      <3>2. Drained(xhci_ring') /\ Quiet(f)
        BY <1>9, <1>11, <3>1 DEF Drained, Quiet
      <3> QED BY <1>10, <2>1, <3>1, <3>2 DEF RequestsWell
    <2>2. CASE Awaiting
      <3>1. PICK q \in 1 .. Requests : InFlight = {q} /\ Tracked(q, xhci_ring, e, xhci_request.trb_phy[q])
        BY <2>2 DEF XhciInv, RequestsWell
      <3> DEFINE phy == xhci_request.trb_phy[q]
      <3>2. CASE CommandSent(q, xhci_ring, e, phy)
        <4>1. CommandSent(q, xhci_ring', f, phy)
          BY <1>9, <1>11, <3>2 DEF CommandSent, Quiet
        <4> QED BY <1>10, <2>2, <3>1, <4>1 DEF RequestsWell, Tracked
      <3>3. CASE TransferSent(q, xhci_ring, e, phy)
        <4>1. TransferSent(q, xhci_ring', f, phy)
          BY <1>9, <1>11, <3>3 DEF TransferSent
        <4> QED BY <1>10, <2>2, <3>1, <4>1 DEF RequestsWell, Tracked
      <3>4. CASE Answered(q, xhci_ring, e, phy)
        <4>1. PICK i \in DOMAIN e.due : /\ Answer(e.due[i], q, phy)
                                        /\ \A j \in DOMAIN e.due : j # i => e.due[j].stage = "normal"
          BY <3>4 DEF Answered
        <4>2. i \in DOMAIN f.due /\ Answer(f.due[i], q, phy)
          BY <1>8, <4>1
        <4>3. \A j \in DOMAIN f.due : j # i => f.due[j].stage = "normal"
          BY <1>11, <4>1
        <4>4. Drained(xhci_ring')
          BY <1>9, <3>4 DEF Answered, Drained
        <4>5. Answered(q, xhci_ring', f, phy)
          BY <4>2, <4>3, <4>4 DEF Answered
        <4> QED BY <1>10, <2>2, <3>1, <4>5 DEF RequestsWell, Tracked
      <3> QED BY <3>1, <3>2, <3>3, <3>4 DEF Tracked
    <2> QED BY <2>1, <2>2
  <1>13. DevicesWell(xhci_device', xhci_ring')
    <2>1. DevicesWell(xhci_device, xhci_ring) /\ xhci_device' = xhci_device
      BY DEF XhciInv, ReportsWell
    <2> QED BY <2>1, <1>5, <1>6, PortsAre DEF DevicesWell
  <1>14. ReportEvents(f, xhci_device, xhci_ring')
    <2>1. ReportEvents(e, xhci_device, xhci_ring)
      BY DEF XhciInv, ReportsWell
    <2>2. ASSUME NEW i \in DOMAIN e.due, IsReport(e, i)
          PROVE  ReportPort(e, i) \in Ports /\ ReportPort(e, i) # r
                 /\ xhci_ring'[ReportPort(e, i)].due = <<>> /\ xhci_device[ReportPort(e, i)].reports > 0
      <3>1. ReportPort(e, i) \in Ports /\ xhci_device[ReportPort(e, i)].reports > 0
            /\ xhci_ring[ReportPort(e, i)].due = <<>>
        BY <2>1, <2>2 DEF ReportEvents
      <3>2. ReportPort(e, i) # r
        BY <3>1
      <3> QED BY <1>6, <3>1, <3>2, PortsAre
    <2> DEFINE n == Len(e.due) + 1
    <2>3. IsReport(f, n) /\ ReportPort(f, n) = r
      BY <1>3, <1>8 DEF IsReport, ReportPort
    <2>4. \A i \in DOMAIN e.due : IsReport(f, i) = IsReport(e, i) /\ ReportPort(f, i) = ReportPort(e, i)
      BY <1>8 DEF IsReport, ReportPort
    <2>5. xhci_ring'[r].due = <<>>
      BY <1>5, <1>6
    <2>6. DOMAIN f.due = DOMAIN e.due \cup {n}
      BY <1>8
    <2> HIDE DEF n
    <2>7. ASSUME NEW i \in DOMAIN f.due, IsReport(f, i)
          PROVE  ReportPort(f, i) \in Ports /\ xhci_device[ReportPort(f, i)].reports > 0
                 /\ xhci_ring'[ReportPort(f, i)].due = <<>>
      <3>1. CASE i = n
        BY <1>2, <2>3, <2>5, <3>1
      <3>2. CASE i \in DOMAIN e.due
        BY <2>2, <2>4, <2>7, <3>2
      <3> QED BY <2>6, <3>1, <3>2
    <2>8. ASSUME NEW i \in DOMAIN f.due, NEW j \in DOMAIN f.due, IsReport(f, i), IsReport(f, j),
                 ReportPort(f, i) = ReportPort(f, j)
          PROVE  i = j
      <3>1. CASE i \in DOMAIN e.due /\ j \in DOMAIN e.due
        BY <2>1, <2>4, <2>8, <3>1 DEF ReportEvents
      <3>2. CASE i \in DOMAIN e.due /\ j = n
        BY <2>2, <2>3, <2>4, <2>8, <3>2
      <3>3. CASE i = n /\ j \in DOMAIN e.due
        BY <2>2, <2>3, <2>4, <2>8, <3>3
      <3> QED BY <2>6, <3>1, <3>2, <3>3
    <2> QED BY <2>7, <2>8 DEF ReportEvents
  <1> QED BY <1>6, <1>7, <1>10, <1>12, <1>13, <1>14 DEF XhciInv, ReportsWell

\* Which request a TRB of the command ring or of the control ring is of.
LEMMA RingOwner ==
    ASSUME XhciInv
    PROVE  /\ xhci_ring[CommandRing].due # <<>> =>
                 Awaiting /\ \E q \in 1 .. Requests : InFlight = {q}
                    /\ CommandSent(q, xhci_ring, xhci_events, xhci_request.trb_phy[q])
           /\ xhci_ring[ControlRing].due # <<>> =>
                 Awaiting /\ \E q \in 1 .. Requests : InFlight = {q}
                    /\ TransferSent(q, xhci_ring, xhci_events, xhci_request.trb_phy[q])
  <1>1. CASE ~Awaiting
    BY <1>1 DEF XhciInv, RequestsWell, Drained
  <1>2. CASE Awaiting
    <2>1. PICK q \in 1 .. Requests : InFlight = {q}
                    /\ Tracked(q, xhci_ring, xhci_events, xhci_request.trb_phy[q])
      BY <1>2 DEF XhciInv, RequestsWell
    <2>2. CASE CommandSent(q, xhci_ring, xhci_events, xhci_request.trb_phy[q])
      BY <1>2, <2>1, <2>2 DEF CommandSent
    <2>3. CASE TransferSent(q, xhci_ring, xhci_events, xhci_request.trb_phy[q])
      BY <1>2, <2>1, <2>3 DEF TransferSent
    <2>4. CASE Answered(q, xhci_ring, xhci_events, xhci_request.trb_phy[q])
      BY <2>4 DEF Answered, Drained
    <2> QED BY <2>1, <2>2, <2>3, <2>4 DEF Tracked
  <1> QED BY <1>1, <1>2

\* The invariant after a step on the command ring or on the control ring, when
\* the request in flight is still tracked.
LEMMA StillTracked ==
    ASSUME XhciInv, Awaiting, NEW q \in 1 .. Requests, InFlight = {q},
           NEW r \in {CommandRing, ControlRing}, NEW s \in RingRecord, RingWell(s),
           xhci_ring' = [xhci_ring EXCEPT ![r] = s], EventsWell(xhci_events'),
           xhci_ring'[r] = s /\ (\A x \in Rings : x # r => xhci_ring'[x] = xhci_ring[x])
             => Tracked(q, xhci_ring', xhci_events', xhci_request.trb_phy[q]),
           (\A p \in Ports : xhci_ring'[p] = xhci_ring[p])
             => ReportEvents(xhci_events', xhci_device, xhci_ring'),
           UNCHANGED <<xhci_port, xhci_request, xhci_setup, xhci_device>>
    PROVE  XhciInv'
  <1>1. r \in Rings /\ RingsWell
    BY PortsAre DEF XhciInv
  <1>2. RingsWell' /\ xhci_ring'[r] = s /\ \A x \in Rings : x # r => xhci_ring'[x] = xhci_ring[x]
    BY <1>1, OneRing
  <1>3. \A p \in Ports : xhci_ring'[p] = xhci_ring[p]
    BY <1>2, PortsAre
  <1>4. SetupWell' /\ PoolWell' /\ InFlight' = InFlight /\ (Awaiting' <=> Awaiting)
         /\ FreshWell(xhci_setup', xhci_device')
    BY ControllerRest
  <1>5. Tracked(q, xhci_ring', xhci_events', xhci_request.trb_phy[q])
    BY <1>2
  <1>6. RequestsWell'
    BY <1>4, <1>5 DEF RequestsWell
  <1>7. DevicesWell(xhci_device', xhci_ring')
    BY <1>3 DEF XhciInv, ReportsWell, DevicesWell
  <1>8. ReportEvents(xhci_events', xhci_device', xhci_ring')
    BY <1>3
  <1> QED BY <1>2, <1>4, <1>6, <1>7, <1>8 DEF XhciInv, ReportsWell

\* The answer of the only request is added.
LEMMA AnswerAdded ==
    ASSUME NEW e, NEW f, NEW t, e.due \in Seq(EventTrb), t \in EventTrb, f.due = Append(e.due, t),
           Quiet(e), NEW q, NEW rings, NEW phy, Drained(rings), Answer(t, q, phy)
    PROVE  Tracked(q, rings, f, phy)
  <1>1. /\ DOMAIN f.due = DOMAIN e.due \cup {Len(e.due) + 1}
        /\ f.due[Len(e.due) + 1] = t /\ \A i \in DOMAIN e.due : f.due[i] = e.due[i]
    BY EventAdded
  <1> DEFINE n == Len(e.due) + 1
  <1>2. n \in DOMAIN f.due /\ Answer(f.due[n], q, phy)
    BY <1>1
  <1>3. \A j \in DOMAIN f.due : j # n => f.due[j].stage = "normal"
    BY <1>1 DEF Quiet
  <1> HIDE DEF n
  <1>4. Answered(q, rings, f, phy)
    BY <1>2, <1>3 DEF Answered
  <1> QED BY <1>4 DEF Tracked

\* The controller answers the request whose last TRB it takes.
LEMMA TakesLast ==
    ASSUME XhciInv, NEW r \in {CommandRing, ControlRing}, xhci_ring[r].due # <<>>,
           xhci_ring[r].due[1].stage \notin OfTransfer, ~xhci_ring[r].halted, NEW ok \in BOOLEAN,
           xhci_ring' = [xhci_ring EXCEPT ![r] = HcTaken(xhci_ring[r])],
           HcRoom(xhci_events), xhci_events' = HcPosted(xhci_events, EventOf(r, xhci_ring[r], ok)),
           UNCHANGED <<xhci_port, xhci_request, xhci_setup, xhci_device>>
    PROVE  XhciInv'
  <1> DEFINE ring == xhci_ring[r]
             s == HcTaken(ring)
             t == EventOf(r, ring, ok)
             e == xhci_events
  <1>1. r \in Rings /\ RingsWell /\ RingWell(ring)
    BY PortsAre DEF XhciInv, RingsWell
  <1>2. t \in EventTrb /\ t.stage = ring.due[1].stage /\ t.trb_phy = <<r, HcAt(ring)[1]>>
        /\ t.request = IF ring.due[1].stage = "event_data" THEN ring.due[1].request ELSE 0
    BY <1>1, EventOfIs
  <1>3. Taken(ring, s) /\ s \in RingRecord /\ RingWell(s)
    BY <1>1, HcTakenChanges, HcTakenWell DEF Taken
  <1>4. s.due = Tail(ring.due) /\ s.halted = ring.halted
    BY <1>3 DEF Taken
  <1> HIDE DEF t, s
  <1>5. EventsWell(xhci_events') /\ xhci_events'.due = Append(e.due, t) /\ e.due \in Seq(EventTrb)
    BY <1>2, PostedWell DEF t
  <1>6. \E q \in 1 .. Requests :
           /\ Awaiting /\ InFlight = {q} /\ Quiet(e) /\ Answer(t, q, xhci_request.trb_phy[q])
           /\ t.stage # "normal" /\ s.due = <<>> /\ ~s.halted
           /\ \A x \in {CommandRing, ControlRing} : x # r => xhci_ring[x].due = <<>>
           /\ r # ControlRing => ~xhci_ring[ControlRing].halted
    <2>1. CASE r = CommandRing
      <3>1. PICK q \in 1 .. Requests : Awaiting /\ InFlight = {q}
                    /\ CommandSent(q, xhci_ring, e, xhci_request.trb_phy[q])
        BY <2>1, RingOwner
      <3>2. ring.due = <<[stage |-> "command", request |-> q]>> /\ Quiet(e)
            /\ xhci_request.trb_phy[q] = TrbPhy(r, ring)
            /\ xhci_ring[ControlRing].due = <<>> /\ ~xhci_ring[ControlRing].halted
        BY <2>1, <3>1 DEF CommandSent
      <3>3. Len(ring.due) = 1 /\ ring.due[1].stage = "command" /\ s.due = <<>>
        BY <3>2, <1>4
      <3>4. xhci_request.trb_phy[q] = <<r, HcAt(ring)[1]>>
        BY <1>1, <3>2, <3>3, LastPlace
      <3>5. t.stage = "command" /\ t.request = 0 /\ t.trb_phy = xhci_request.trb_phy[q]
        BY <1>2, <3>3, <3>4
      <3>6. Answer(t, q, xhci_request.trb_phy[q]) /\ t.stage # "normal"
        BY <3>5 DEF Answer
      <3>7. \A x \in {CommandRing, ControlRing} : x # r => xhci_ring[x].due = <<>>
        BY <2>1, <3>2
      <3> HIDE DEF ring
      <3>8. ~s.halted
        BY <1>4 DEF ring
      <3> QED BY <3>1, <3>2, <3>3, <3>6, <3>7, <3>8
    <2>2. CASE r = ControlRing
      <3>1. PICK q \in 1 .. Requests : Awaiting /\ InFlight = {q}
                    /\ TransferSent(q, xhci_ring, e, xhci_request.trb_phy[q])
        BY <2>2, RingOwner
      <3>2. Transfer(ring.due, q) /\ Quiet(e) /\ xhci_ring[CommandRing].due = <<>>
        BY <2>2, <3>1 DEF TransferSent, Quiet
      <3>3. Len(ring.due) = 1 /\ ring.due[1] = [stage |-> "event_data", request |-> q]
        <4>1. Len(ring.due) \in 1 .. 4 /\ ring.due[Len(ring.due)] = [stage |-> "event_data", request |-> q]
              /\ \A i \in 1 .. Len(ring.due) - 1 : ring.due[i].stage \in OfTransfer
          BY <3>2 DEF Transfer
        <4>2. 1 \notin 1 .. Len(ring.due) - 1
          BY <4>1
        <4>3. Len(ring.due) = 1
          <5> DEFINE m == Len(ring.due)
          <5>1. m \in 1 .. 4 /\ 1 \notin 1 .. m - 1
            BY <4>1, <4>2
          <5> HIDE DEF m
          <5>2. m = 1
            BY ONLY <5>1
          <5> QED BY <5>2 DEF m
        <4> QED BY <4>1, <4>3
      <3>4. s.due = <<>>
        <4>1. ring.due \in Seq(Trb)
          BY <1>1 DEF RingWell, RingRecord
        <4>2. s.due \in Seq(Trb) /\ Len(s.due) = 0
          BY <1>4, <3>3, <4>1
        <4> QED BY <4>2
      <3>5. t.stage = "event_data" /\ t.request = q
        BY <1>2, <3>3
      <3>6. Answer(t, q, xhci_request.trb_phy[q]) /\ t.stage # "normal"
        BY <3>5 DEF Answer
      <3>7. \A x \in {CommandRing, ControlRing} : x # r => xhci_ring[x].due = <<>>
        BY <2>2, <3>2
      <3>8. ~s.halted
        BY <1>4
      <3> HIDE DEF ring
      <3> QED BY <2>2, <3>1, <3>2, <3>4, <3>6, <3>7, <3>8
    <2> QED BY <2>1, <2>2
  <1>7. PICK q \in 1 .. Requests :
           /\ Awaiting /\ InFlight = {q} /\ Quiet(e) /\ Answer(t, q, xhci_request.trb_phy[q])
           /\ t.stage # "normal" /\ s.due = <<>> /\ ~s.halted
           /\ \A x \in {CommandRing, ControlRing} : x # r => xhci_ring[x].due = <<>>
           /\ r # ControlRing => ~xhci_ring[ControlRing].halted
    BY <1>6
  <1>8. ASSUME xhci_ring'[r] = s, \A x \in Rings : x # r => xhci_ring'[x] = xhci_ring[x]
        PROVE  Tracked(q, xhci_ring', xhci_events', xhci_request.trb_phy[q])
    <2>1. Drained(xhci_ring')
      BY <1>7, <1>8, PortsAre DEF Drained
    <2> QED BY <1>2, <1>5, <1>7, <2>1, AnswerAdded
  <1>9. ASSUME \A p \in Ports : xhci_ring'[p] = xhci_ring[p]
        PROVE  ReportEvents(xhci_events', xhci_device, xhci_ring')
    <2>1. ReportEvents(e, xhci_device, xhci_ring)
      BY DEF XhciInv, ReportsWell
    <2>2. t \in EventTrb /\ t.stage # "normal"
      BY <1>2, <1>7
    <2>3. xhci_events'.due = Append(e.due, t) /\ e.due \in Seq(EventTrb)
      BY <1>5
    <2> QED BY ONLY <1>9, <2>1, <2>2, <2>3, OtherEvent
  <1>10. xhci_ring' = [xhci_ring EXCEPT ![r] = s]
    BY DEF s
  <1> QED BY <1>3, <1>5, <1>7, <1>8, <1>9, <1>10, StillTracked

\* What is known of a transfer whose next TRB is not its last.
LEMMA TransferNext ==
    ASSUME XhciInv, NEW r \in Rings, xhci_ring[r].due # <<>>, xhci_ring[r].due[1].stage \in OfTransfer
    PROVE  /\ r = ControlRing /\ Awaiting
           /\ \E q \in 1 .. Requests :
                 /\ InFlight = {q} /\ TransferSent(q, xhci_ring, xhci_events, xhci_request.trb_phy[q])
                 /\ Len(xhci_ring[r].due) \in 2 .. 4
  <1>1. r \notin Ports
    <2> SUFFICES ASSUME r \in Ports PROVE FALSE
      OBVIOUS
    <2>1. xhci_ring[r].due = <<NormalTRB>>
      BY DEF XhciInv, ReportsWell, DevicesWell
    <2>2. xhci_ring[r].due[1].stage = "normal"
      BY <2>1 DEF NormalTRB
    <2> QED BY <2>2 DEF OfTransfer
  <1>2. r # CommandRing
    <2> SUFFICES ASSUME r = CommandRing PROVE FALSE
      OBVIOUS
    <2>1. PICK q : xhci_ring[r].due = <<[stage |-> "command", request |-> q]>>
      BY RingOwner DEF CommandSent
    <2>2. xhci_ring[r].due[1].stage = "command"
      BY <2>1
    <2> QED BY <2>2 DEF OfTransfer
  <1>3. r = ControlRing
    BY <1>1, <1>2, PortsAre
  <1>4. Awaiting /\ \E q \in 1 .. Requests : InFlight = {q}
                    /\ TransferSent(q, xhci_ring, xhci_events, xhci_request.trb_phy[q])
    BY <1>3, RingOwner
  <1>5. PICK q \in 1 .. Requests : InFlight = {q}
                    /\ TransferSent(q, xhci_ring, xhci_events, xhci_request.trb_phy[q])
    BY <1>4
  <1>6. Len(xhci_ring[r].due) \in 1 .. 4
        /\ xhci_ring[r].due[Len(xhci_ring[r].due)] = [stage |-> "event_data", request |-> q]
    BY <1>3, <1>5 DEF TransferSent, Transfer
  <1>7. Len(xhci_ring[r].due) # 1
    BY <1>6 DEF OfTransfer
  <1>8. Len(xhci_ring[r].due) \in 2 .. 4
    BY <1>6, <1>7
  <1> QED BY <1>3, <1>4, <1>5, <1>8

\* The controller takes a TRB of a transfer that is not the last one.
LEMMA TakesStage ==
    ASSUME XhciInv, NEW r \in Rings, xhci_ring[r].due # <<>>, xhci_ring[r].due[1].stage \in OfTransfer,
           xhci_ring' = [xhci_ring EXCEPT ![r] = HcTaken(xhci_ring[r])],
           UNCHANGED <<xhci_port, xhci_events, xhci_request, xhci_setup, xhci_device>>
    PROVE  XhciInv'
  <1> DEFINE ring == xhci_ring[r]
             s == HcTaken(ring)
             m == Len(ring.due)
  <1>1. RingsWell /\ RingWell(ring)
    BY DEF XhciInv, RingsWell
  <1>2. r = ControlRing /\ Awaiting
    BY TransferNext
  <1>3. PICK q \in 1 .. Requests :
                 /\ InFlight = {q} /\ TransferSent(q, xhci_ring, xhci_events, xhci_request.trb_phy[q])
                 /\ m \in 2 .. 4
    BY TransferNext
  <1>4. Taken(ring, s) /\ s \in RingRecord /\ RingWell(s)
    BY <1>1, HcTakenChanges, HcTakenWell DEF Taken
  <1>5. s.due = Tail(ring.due) /\ s.halted = ring.halted /\ s.enqueue_index = ring.enqueue_index
        /\ ring.due \in Seq(Trb)
    BY <1>1, <1>4 DEF Taken, RingWell, RingRecord
  <1>6. Transfer(ring.due, q)
    BY <1>2, <1>3 DEF TransferSent
  <1> HIDE DEF s
  <1>7. Transfer(s.due, q)
    <2>1. /\ m \in 2 .. 4 /\ ring.due[m] = [stage |-> "event_data", request |-> q]
          /\ \A i \in 1 .. m - 1 : ring.due[i].stage \in OfTransfer /\ ring.due[i].request = 0
      BY <1>3, <1>6 DEF Transfer
    <2>2. Len(s.due) = m - 1 /\ \A i \in 1 .. m - 1 : s.due[i] = ring.due[i + 1]
      BY <1>3, <1>5
    <2> HIDE DEF m, ring
    <2>3. m - 1 \in 1 .. m - 1 /\ (m - 1) + 1 = m /\ m - 1 \in 1 .. 4
          /\ \A i \in 1 .. (m - 1) - 1 : i \in 1 .. m - 1 /\ i + 1 \in 1 .. m - 1
      BY <2>1
    <2>4. s.due[m - 1] = [stage |-> "event_data", request |-> q]
      BY <2>1, <2>2, <2>3
    <2>5. \A i \in 1 .. (m - 1) - 1 : s.due[i].stage \in OfTransfer /\ s.due[i].request = 0
      BY <2>1, <2>2, <2>3
    <2> QED BY <2>2, <2>3, <2>4, <2>5 DEF Transfer
  <1>8. ASSUME xhci_ring'[r] = s, \A x \in Rings : x # r => xhci_ring'[x] = xhci_ring[x]
        PROVE  Tracked(q, xhci_ring', xhci_events', xhci_request.trb_phy[q])
    <2>1. xhci_ring'[CommandRing] = xhci_ring[CommandRing] /\ xhci_ring'[ControlRing] = s
      BY <1>2, <1>8, PortsAre
    <2>2. TrbPhy(ControlRing, s) = TrbPhy(ControlRing, xhci_ring[ControlRing])
      BY <1>2, <1>5 DEF TrbPhy
    <2>3. TransferSent(q, xhci_ring', xhci_events', xhci_request.trb_phy[q])
      BY <1>2, <1>3, <1>5, <1>7, <2>1, <2>2 DEF TransferSent
    <2> QED BY <2>3 DEF Tracked
  <1>9. ASSUME \A p \in Ports : xhci_ring'[p] = xhci_ring[p]
        PROVE  ReportEvents(xhci_events', xhci_device, xhci_ring')
    BY <1>9 DEF XhciInv, ReportsWell, ReportEvents
  <1>10. xhci_ring' = [xhci_ring EXCEPT ![r] = s] /\ r \in {CommandRing, ControlRing}
    BY <1>2 DEF s
  <1>11. EventsWell(xhci_events')
    BY DEF XhciInv
  <1> QED BY <1>2, <1>3, <1>4, <1>8, <1>9, <1>10, <1>11, StillTracked

\* A stage of a transfer fails: the endpoint halts.
LEMMA StageFails ==
    ASSUME XhciInv, NEW r \in Rings, xhci_ring[r].due # <<>>, xhci_ring[r].due[1].stage \in OfTransfer,
           ~xhci_ring[r].halted,
           xhci_ring' = [xhci_ring EXCEPT ![r] = [xhci_ring[r] EXCEPT !.halted = TRUE]],
           HcRoom(xhci_events), xhci_events' = HcPosted(xhci_events, EventOf(r, xhci_ring[r], FALSE)),
           UNCHANGED <<xhci_port, xhci_request, xhci_setup, xhci_device>>
    PROVE  XhciInv'
  <1> DEFINE ring == xhci_ring[r]
             s == [ring EXCEPT !.halted = TRUE]
             t == EventOf(r, ring, FALSE)
             e == xhci_events
             phy(q) == xhci_request.trb_phy[q]
  <1>1. RingsWell /\ RingWell(ring) /\ ring \in RingRecord
    BY DEF XhciInv, RingsWell, RingWell
  <1>2. r = ControlRing /\ Awaiting
    BY TransferNext
  <1>3. PICK q \in 1 .. Requests :
                 /\ InFlight = {q} /\ TransferSent(q, xhci_ring, e, phy(q))
                 /\ Len(ring.due) \in 2 .. 4
    BY TransferNext
  <1>4. s \in RingRecord /\ s.halted /\ s.due = ring.due /\ s.slot = ring.slot
        /\ s.enqueue_index = ring.enqueue_index /\ s.cycle_bit = ring.cycle_bit
        /\ s.hc_index = ring.hc_index /\ s.hc_cycle = ring.hc_cycle
    BY <1>1 DEF RingRecord
  <1> HIDE DEF s
  <1>5. RingWell(s)
    <2>1. HcAt(s) = HcAt(ring)
      BY <1>4 DEF HcAt
    <2>2. Cycled(s) /\ (s.hc_index = LastSlot => s.slot[LastSlot].cycle = s.hc_cycle)
      BY <1>1, <1>4 DEF RingWell, Cycled
    <2>3. RingAt(s, HcAt(ring)[1], HcAt(ring)[2])
      BY <1>1, <1>4 DEF RingWell, RingAt, Between, Holds
    <2> QED BY <1>4, <2>1, <2>2, <2>3 DEF RingWell
  <1>6. t \in EventTrb /\ t.stage = ring.due[1].stage /\ t.trb_phy = <<r, HcAt(ring)[1]>>
        /\ t.request = IF ring.due[1].stage = "event_data" THEN ring.due[1].request ELSE 0
    BY <1>1, EventOfIs
  <1> HIDE DEF t
  <1>7. EventsWell(xhci_events') /\ xhci_events'.due = Append(e.due, t) /\ e.due \in Seq(EventTrb)
    BY <1>6, PostedWell DEF t
  <1>8. Stray(t, phy(q)) /\ t.stage # "normal"
    <2>1. phy(q) = TrbPhy(r, ring)
      BY <1>2, <1>3 DEF TransferSent
    <2>2. Len(ring.due) \in 2 .. LastSlot - 1
      <3> DEFINE m == Len(ring.due)
      <3>1. m \in 2 .. 4
        BY <1>3
      <3> HIDE DEF m
      <3>2. m \in 2 .. LastSlot - 1
        BY ONLY <3>1, RingSize
      <3> QED BY <3>2 DEF m
    <2>3. TrbPhy(r, ring) # <<r, HcAt(ring)[1]>>
      BY <1>1, <2>2, LastPlace
    <2> QED BY <1>6, <2>1, <2>3 DEF Stray, OfTransfer
  <1>9. /\ DOMAIN xhci_events'.due = DOMAIN e.due \cup {Len(e.due) + 1}
        /\ xhci_events'.due[Len(e.due) + 1] = t
        /\ \A i \in DOMAIN e.due : xhci_events'.due[i] = e.due[i]
    <2>1. t \in EventTrb
      BY <1>6
    <2>2. xhci_events'.due = Append(e.due, t) /\ e.due \in Seq(EventTrb)
      BY <1>7
    <2> QED BY ONLY <2>1, <2>2, EventAdded
  <1>10. ASSUME xhci_ring'[r] = s, \A x \in Rings : x # r => xhci_ring'[x] = xhci_ring[x]
        PROVE  Tracked(q, xhci_ring', xhci_events', phy(q))
    <2>1. xhci_ring'[CommandRing] = xhci_ring[CommandRing] /\ xhci_ring'[ControlRing] = s
      BY <1>2, <1>10, PortsAre
    <2>2. TrbPhy(ControlRing, s) = TrbPhy(ControlRing, xhci_ring[ControlRing])
      BY <1>2, <1>4 DEF TrbPhy
    <2>3. \A i \in DOMAIN xhci_events'.due : \/ xhci_events'.due[i].stage = "normal"
                                             \/ Stray(xhci_events'.due[i], phy(q))
      BY <1>2, <1>3, <1>8, <1>9 DEF TransferSent
    <2>4. TransferSent(q, xhci_ring', xhci_events', phy(q))
      BY <1>2, <1>3, <1>4, <2>1, <2>2, <2>3 DEF TransferSent
    <2> QED BY <2>4 DEF Tracked
  <1>11. ASSUME \A p \in Ports : xhci_ring'[p] = xhci_ring[p]
        PROVE  ReportEvents(xhci_events', xhci_device, xhci_ring')
    <2>1. ReportEvents(e, xhci_device, xhci_ring)
      BY DEF XhciInv, ReportsWell
    <2>2. t \in EventTrb /\ t.stage # "normal"
      BY <1>6, <1>8
    <2>3. xhci_events'.due = Append(e.due, t) /\ e.due \in Seq(EventTrb)
      BY <1>7
    <2> QED BY ONLY <1>11, <2>1, <2>2, <2>3, OtherEvent
  <1>12. xhci_ring' = [xhci_ring EXCEPT ![r] = s] /\ r \in {CommandRing, ControlRing}
    BY <1>2 DEF s
  <1> QED BY <1>2, <1>3, <1>4, <1>5, <1>7, <1>10, <1>11, <1>12, StillTracked

LEMMA ControllerKeeps ==
    ASSUME XhciInv, NEW r \in Rings, controller(r)
    PROVE  XhciInv'
  <1> DEFINE ring == xhci_ring[r]
             trb == ring.slot[HcAt(ring)[1]].trb
  <1>1. RingWell(ring)
    BY DEF XhciInv, RingsWell
  <1>2. HcReady(ring) /\ ~ring.halted
    BY DEF controller
  <1>3. ring.due # <<>> /\ trb = ring.due[1]
    BY <1>1, <1>2, HcFinds
  <1>4. UNCHANGED <<xhci_port, xhci_request, xhci_setup, xhci_device>>
    BY DEF controller
  <1>5. \/ /\ trb.stage \in OfTransfer
           /\ xhci_ring' = [xhci_ring EXCEPT ![r] = HcTaken(ring)] /\ xhci_events' = xhci_events
        \/ /\ trb.stage \in OfTransfer /\ HcRoom(xhci_events)
           /\ xhci_ring' = [xhci_ring EXCEPT ![r] = [ring EXCEPT !.halted = TRUE]]
           /\ xhci_events' = HcPosted(xhci_events, EventOf(r, ring, FALSE))
        \/ /\ trb.stage \notin OfTransfer /\ HcRoom(xhci_events)
           /\ xhci_ring' = [xhci_ring EXCEPT ![r] = HcTaken(ring)]
           /\ \E ok \in BOOLEAN : xhci_events' = HcPosted(xhci_events, EventOf(r, ring, ok))
    BY DEF controller, OfTransfer, EventOf
  <1> HIDE DEF trb
  <1>6. CASE /\ trb.stage \in OfTransfer
             /\ xhci_ring' = [xhci_ring EXCEPT ![r] = HcTaken(ring)] /\ xhci_events' = xhci_events
    BY <1>3, <1>4, <1>6, TakesStage
  <1>7. CASE /\ trb.stage \in OfTransfer /\ HcRoom(xhci_events)
             /\ xhci_ring' = [xhci_ring EXCEPT ![r] = [ring EXCEPT !.halted = TRUE]]
             /\ xhci_events' = HcPosted(xhci_events, EventOf(r, ring, FALSE))
    BY <1>2, <1>3, <1>4, <1>7, StageFails
  <1>8. CASE /\ trb.stage \notin OfTransfer /\ HcRoom(xhci_events)
             /\ xhci_ring' = [xhci_ring EXCEPT ![r] = HcTaken(ring)]
             /\ \E ok \in BOOLEAN : xhci_events' = HcPosted(xhci_events, EventOf(r, ring, ok))
    <2>1. PICK ok \in BOOLEAN : xhci_events' = HcPosted(xhci_events, EventOf(r, ring, ok))
      BY <1>8
    <2>2. CASE r \in Ports
      BY <1>3, <1>4, <1>8, <2>1, <2>2, TakesReport
    <2>3. CASE r \in {CommandRing, ControlRing}
      BY <1>2, <1>3, <1>4, <1>8, <2>1, <2>3, TakesLast
    <2> QED BY <2>2, <2>3, PortsAre
  <1> QED BY <1>5, <1>6, <1>7, <1>8

-----------------------------------------------------------------------------
\* What the driver starts with.
LEMMA FreshEvents == EventsWell(EventRing_init) /\ EventRing_init.due = <<>>
  <1> DEFINE e == EventRing_init
             slots == [i \in 0 .. EventRingSize - 1 |-> [trb |-> NoTRB, cycle |-> 0]]
  <1>1. e = [slot |-> slots, dequeue_index |-> 0, cycle_bit |-> 1,
             hc_index |-> 0, hc_cycle |-> 1, due |-> <<>>]
    BY DEF EventRing_init
  <1>2. slots \in EventSlots
    BY DEF EventSlots, Bit
  <1>3. e \in EventRecord
    <2> HIDE DEF slots
    <2>1. <<>> \in Seq(EventTrb)
      OBVIOUS
    <2> QED BY <1>1, <1>2, <2>1, EventSize DEF EventRecord, Bit
  <1>4. EventsCycled(e)
    BY <1>1, EventSize DEF EventsCycled
  <1>5. EventsBetween(e) /\ EventsHold(e) /\ e.due = <<>>
    BY <1>1, EventSize DEF EventsBetween, EventsHold
  <1> HIDE DEF e
  <1>6. EventsWell(e)
    BY <1>3, <1>4, <1>5 DEF EventsWell
  <1> QED BY <1>5, <1>6 DEF e

LEMMA FreshPool ==
    ASSUME XhciInit
    PROVE  PoolWell /\ InFlight = {}
  <1> DEFINE s == [i \in 1 .. Requests |-> i]
             f == [i \in 1 .. Requests |-> <<0, TrbRingSize>>]
  <1>1. Requests \in Nat /\ TrbRingSize \in Nat
    BY XhciAssumption
  <1>2. s \in Seq(1 .. Requests)
    BY <1>1
  <1>3. f \in [1 .. Requests -> Nat \X Nat]
    BY <1>1
  <1>4. xhci_request = [free |-> s, trb_phy |-> f]
    BY DEF XhciInit
  <1>5. DOMAIN s = 1 .. Requests /\ \A i \in 1 .. Requests : s[i] = i
    OBVIOUS
  <1> HIDE DEF s, f
  <1>6. Distinct(s) /\ Unused(s) = {}
    BY <1>5 DEF Distinct, Unused
  <1>7. xhci_request.free = s /\ xhci_request \in [free : Seq(1 .. Requests), trb_phy : [1 .. Requests -> Nat \X Nat]]
    BY <1>2, <1>3, <1>4
  <1> QED BY <1>6, <1>7, InFlightIs DEF PoolWell

LEMMA XhciInitWell ==
    ASSUME XhciInit
    PROVE  XhciInv
  <1>1. xhci_ring = [r \in Rings |-> EnqueueRing_init] /\ xhci_events = EventRing_init
    BY DEF XhciInit
  <1>2. RingsWell /\ \A r \in Rings : xhci_ring[r].due = <<>> /\ ~xhci_ring[r].halted
    BY <1>1, FreshRing DEF RingsWell
  <1>3. EventsWell(xhci_events) /\ xhci_events.due = <<>>
    BY <1>1, FreshEvents
  <1>4. xhci_setup = [pc |-> "start", port |-> 1, again |-> 0, step |-> "none",
                     has_result |-> FALSE, ok |-> FALSE, config |-> <<>>, ptr |-> 0]
    BY DEF XhciInit
  <1>5. SetupWell /\ ~Awaiting
    <2>1. <<>> \in Seq(STRING)
      OBVIOUS
    <2>2. xhci_setup \in SetupRecord
      BY <1>4, <2>1 DEF SetupRecord, Steps
    <2> QED BY <1>4, <2>2 DEF SetupWell, Awaiting, Busy
  <1>6. Drained(xhci_ring) /\ Quiet(xhci_events)
    BY <1>2, <1>3, PortsAre DEF Drained, Quiet
  <1>7. RequestsWell
    BY <1>5, <1>6, FreshPool DEF RequestsWell
  <1>8. ReportsWell
    <2>1. xhci_device = [p \in Ports |-> [hid_device |-> "none", endpoint |-> FALSE, reports |-> 0]]
      BY DEF XhciInit
    <2>2. DevicesWell(xhci_device, xhci_ring)
      <3>1. xhci_device \in [Ports -> DeviceRecord] /\ \A p \in Ports : xhci_device[p].reports = 0
        BY <2>1 DEF DeviceRecord
      <3>2. \A p \in Ports : xhci_ring[p].due = <<>>
        BY <1>2, PortsAre
      <3> QED BY <3>1, <3>2 DEF DevicesWell
    <2>3. ReportEvents(xhci_events, xhci_device, xhci_ring)
      BY <1>3 DEF ReportEvents
    <2>4. FreshWell(xhci_setup, xhci_device)
      BY <1>4, <2>1 DEF FreshWell, SetUp
    <2> QED BY <2>2, <2>3, <2>4 DEF ReportsWell
  <1> QED BY <1>2, <1>3, <1>5, <1>7, <1>8, FreshPool DEF XhciInv

LEMMA XhciStep ==
    ASSUME XhciInv, [XhciNext]_xhci_vars
    PROVE  XhciInv'
  <1>1. CASE UNCHANGED xhci_vars
    <2>1. UNCHANGED <<xhci_ring, xhci_events, xhci_request, xhci_device, xhci_setup>>
      BY <1>1 DEF xhci_vars
    <2>2. SetupWell' /\ (Awaiting' <=> Awaiting) /\ FreshWell(xhci_setup', xhci_device)
      BY <2>1 DEF XhciInv, SetupWell, Awaiting, ReportsWell
    <2> QED BY <2>1, <2>2, SetupMoves
  <1>2. ASSUME NEW ok \in BOOLEAN, start(ok) PROVE XhciInv'
    BY <1>2, StartKeeps
  <1>3. ASSUME NEW outcome, reset_port(outcome) PROVE XhciInv'
    BY <1>3, ResetKeeps
  <1>4. CASE next_port
    BY <1>4, NextPortKeeps
  <1>5. CASE setup_device
    BY <1>5, SetupDeviceKeeps
  <1>6. CASE await_ready
    BY <1>6, AwaitReadyKeeps
  <1>7. CASE await_suspend
    BY <1>7, AwaitSuspendKeeps
  <1>8. CASE irq
    BY <1>8, IrqKeeps
  <1>9. ASSUME NEW r \in Rings, controller(r) PROVE XhciInv'
    BY <1>9, ControllerKeeps
  <1> QED BY <1>1, <1>2, <1>3, <1>4, <1>5, <1>6, <1>7, <1>8, <1>9 DEF XhciNext

-----------------------------------------------------------------------------
\* No ring is ever full.
LEMMA RingsShort ==
    ASSUME XhciInv, NEW r \in Rings
    PROVE  Len(xhci_ring[r].due) \in 0 .. 4
  <1>1. CASE r \in Ports
    <2>1. xhci_ring[r].due \in {<<>>, <<NormalTRB>>}
      BY <1>1 DEF XhciInv, ReportsWell, DevicesWell
    <2> QED BY <2>1
  <1>2. CASE r \in {CommandRing, ControlRing}
    <2>1. CASE ~Awaiting
      <3>1. xhci_ring[r].due = <<>>
        BY <1>2, <2>1 DEF XhciInv, RequestsWell, Drained
      <3> QED BY <3>1
    <2>2. CASE Awaiting
      <3>1. PICK q \in 1 .. Requests : Tracked(q, xhci_ring, xhci_events, xhci_request.trb_phy[q])
        BY <2>2 DEF XhciInv, RequestsWell
      <3>2. \/ xhci_ring[r].due = <<>>
            \/ xhci_ring[r].due = <<[stage |-> "command", request |-> q]>>
            \/ Len(xhci_ring[r].due) \in 1 .. 4
        BY <1>2, <3>1 DEF Tracked, CommandSent, TransferSent, Transfer, Answered, Drained
      <3>3. Len(<<>>) = 0 /\ Len(<<[stage |-> "command", request |-> q]>>) = 1
        OBVIOUS
      <3> DEFINE m == Len(xhci_ring[r].due)
      <3>4. m = 0 \/ m = 1 \/ m \in 1 .. 4
        BY <3>2, <3>3
      <3> HIDE DEF m
      <3>5. m \in 0 .. 4
        BY ONLY <3>4
      <3> QED BY <3>5 DEF m
    <2> QED BY <2>1, <2>2
  <1> QED BY <1>1, <1>2, PortsAre

LEMMA RingsExact ==
    ASSUME XhciInv
    PROVE  XhciRingsExact
  <1>1. ASSUME NEW r \in Rings PROVE HcVisible(xhci_ring[r]) = xhci_ring[r].due
    <2> DEFINE m == Len(xhci_ring[r].due)
    <2>1. m \in 0 .. 4
      BY RingsShort
    <2> HIDE DEF m
    <2>2. m < LastSlot
      BY ONLY <2>1, RingSize
    <2>3. RingWell(xhci_ring[r]) /\ Len(xhci_ring[r].due) < LastSlot
      BY <2>2 DEF m, XhciInv, RingsWell
    <2> QED BY ONLY <2>3, VisibleIsDue
  <1> DEFINE e == xhci_events
  <1>2. EventsWell(e) /\ e.due \in Seq(EventTrb)
    BY DEF XhciInv, EventsWell, EventRecord
  <1>3. /\ (e.slot[e.dequeue_index].cycle = e.cycle_bit) <=> e.due # <<>>
        /\ e.due # <<>> => e.slot[e.dequeue_index].trb = e.due[1]
    BY <1>2, EventFound
  <1>4. e.due # <<>> => Head(e.due) = e.due[1]
    BY <1>2
  <1> QED BY <1>1, <1>3, <1>4 DEF XhciRingsExact, has_unprocessed_events

LEMMA ReportsUsable ==
    ASSUME XhciInv
    PROVE  XhciReportsUsable
  BY DEF XhciInv, ReportsWell, DevicesWell, XhciReportsUsable, Usable

\* Where the TRBs are that name a request.
LEMMA NamedByPorts ==
    ASSUME XhciInv, NEW p \in Ports, NEW i \in DOMAIN xhci_ring[p].due
    PROVE  xhci_ring[p].due[i].request = 0
  <1>1. xhci_ring[p].due \in {<<>>, <<NormalTRB>>}
    BY DEF XhciInv, ReportsWell, DevicesWell
  <1> QED BY <1>1 DEF NormalTRB

LEMMA InRingsOf ==
    ASSUME XhciInv, NEW q \in 1 .. Requests, NEW at \in InRings(q)
    PROVE  /\ at[1] \in {CommandRing, ControlRing} /\ at[2] \in DOMAIN xhci_ring[at[1]].due
           /\ xhci_ring[at[1]].due[at[2]].request = q /\ at = <<at[1], at[2]>>
  <1>1. at \in Rings \X (1 .. TrbRingSize) /\ at[2] \in DOMAIN xhci_ring[at[1]].due
        /\ xhci_ring[at[1]].due[at[2]].request = q
    BY DEF InRings
  <1>2. at[1] \in Rings /\ at = <<at[1], at[2]>> /\ q # 0
    BY <1>1
  <1>3. at[1] \notin Ports
    BY <1>1, <1>2, NamedByPorts
  <1> QED BY <1>1, <1>2, <1>3, PortsAre

LEMMA InCommandRing ==
    ASSUME XhciInv, NEW x \in 1 .. Requests, NEW q \in 1 .. Requests,
           xhci_ring[CommandRing].due = <<[stage |-> "command", request |-> x]>>,
           xhci_ring[ControlRing].due = <<>>
    PROVE  InRings(q) = IF q = x THEN {<<CommandRing, 1>>} ELSE {}
  <1> DEFINE due == xhci_ring[CommandRing].due
  <1>1. DOMAIN due = {1} /\ due[1].request = x /\ DOMAIN xhci_ring[ControlRing].due = {}
    OBVIOUS
  <1>2. ASSUME NEW at \in InRings(q) PROVE q = x /\ at = <<CommandRing, 1>>
    BY <1>1, InRingsOf
  <1>3. q = x => <<CommandRing, 1>> \in InRings(q)
    <2>1. CommandRing \in Rings /\ 1 \in 1 .. TrbRingSize
      BY PortsAre, XhciAssumption
    <2>2. <<CommandRing, 1>> \in Rings \X (1 .. TrbRingSize)
      BY <2>1
    <2> QED BY <1>1, <2>2 DEF InRings
  <1> QED BY <1>2, <1>3

LEMMA InControlRing ==
    ASSUME XhciInv, NEW x \in 1 .. Requests, NEW q \in 1 .. Requests,
           xhci_ring[CommandRing].due = <<>>, Transfer(xhci_ring[ControlRing].due, x)
    PROVE  InRings(q) = IF q = x THEN {<<ControlRing, Len(xhci_ring[ControlRing].due)>>} ELSE {}
  <1> DEFINE due == xhci_ring[ControlRing].due
             m == Len(due)
  <1>1. due \in Seq(Trb) /\ m \in 1 .. 4 /\ q # 0
    <2>1. due \in Seq(Trb)
      BY PortsAre DEF XhciInv, RingsWell, RingRecord
    <2> QED BY <2>1 DEF Transfer
  <1>2. DOMAIN due = 1 .. m /\ DOMAIN xhci_ring[CommandRing].due = {}
    BY <1>1
  <1>3. due[m].request = x /\ \A i \in 1 .. m - 1 : due[i].request = 0
    BY DEF Transfer
  <1> HIDE DEF m
  <1>4. \A i \in 1 .. m : i = m \/ i \in 1 .. m - 1
    BY <1>1
  <1>5. ASSUME NEW at \in InRings(q) PROVE q = x /\ at = <<ControlRing, m>>
    <2>1. at[1] = ControlRing /\ at[2] \in 1 .. m /\ due[at[2]].request = q /\ at = <<at[1], at[2]>>
      BY <1>2, InRingsOf
    <2>2. at[2] = m
      BY <1>1, <1>3, <1>4, <2>1
    <2> QED BY <1>3, <2>1, <2>2
  <1>6. q = x => <<ControlRing, m>> \in InRings(q)
    <2>1. ControlRing \in Rings /\ m \in 1 .. TrbRingSize /\ m \in 1 .. m
      BY <1>1, PortsAre, XhciAssumption
    <2>2. <<ControlRing, m>> \in Rings \X (1 .. TrbRingSize)
      BY <2>1
    <2> QED BY <1>2, <1>3, <2>1, <2>2 DEF InRings
  <1>7. InRings(q) = IF q = x THEN {<<ControlRing, m>>} ELSE {}
    BY <1>5, <1>6
  <1> QED BY <1>7 DEF m

LEMMA InNoRing ==
    ASSUME XhciInv, NEW q \in 1 .. Requests,
           xhci_ring[CommandRing].due = <<>>, xhci_ring[ControlRing].due = <<>>
    PROVE  InRings(q) = {}
  <1>1. DOMAIN xhci_ring[CommandRing].due = {} /\ DOMAIN xhci_ring[ControlRing].due = {}
    OBVIOUS
  <1> QED BY <1>1, InRingsOf

\* The request x alone is in flight, in one ring or in one event.
LEMMA OneTracked ==
    ASSUME XhciInv, NEW x \in 1 .. Requests, InFlight = {x}, NEW q \in 1 .. Requests,
           Tracked(x, xhci_ring, xhci_events, xhci_request.trb_phy[x])
    PROVE  /\ q # x => InRings(q) = {} /\ InEvents(q) = {}
           /\ \/ (\E a : InRings(x) = {a}) /\ InEvents(x) = {}
              \/ InRings(x) = {} /\ \E a : InEvents(x) = {a}
  <1> DEFINE due == xhci_events.due
             phy == xhci_request.trb_phy[x]
  <1>1. q # 0 /\ x # 0
    OBVIOUS
  <1>2. CASE CommandSent(x, xhci_ring, xhci_events, phy)
    <2>1. InEvents(q) = {} /\ InEvents(x) = {}
      BY <1>2 DEF CommandSent, Quiet, InEvents, Names
    <2>2. xhci_ring[CommandRing].due = <<[stage |-> "command", request |-> x]>>
          /\ xhci_ring[ControlRing].due = <<>>
      BY <1>2 DEF CommandSent
    <2>3. InRings(x) = {<<CommandRing, 1>>} /\ (q # x => InRings(q) = {})
      BY <2>2, InCommandRing
    <2> QED BY <2>1, <2>3
  <1>3. CASE TransferSent(x, xhci_ring, xhci_events, phy)
    <2>1. \A i \in DOMAIN due : due[i].stage = "normal" \/ Stray(due[i], phy)
      BY <1>3 DEF TransferSent
    <2>2. InEvents(q) = {} /\ InEvents(x) = {}
      BY <1>1, <2>1 DEF Stray, InEvents, Names
    <2>3. xhci_ring[CommandRing].due = <<>> /\ Transfer(xhci_ring[ControlRing].due, x)
      BY <1>3 DEF TransferSent
    <2>4. InRings(x) = {<<ControlRing, Len(xhci_ring[ControlRing].due)>>} /\ (q # x => InRings(q) = {})
      BY <2>3, InControlRing
    <2> QED BY <2>2, <2>4
  <1>4. CASE Answered(x, xhci_ring, xhci_events, phy)
    <2>1. PICK i \in DOMAIN due : /\ Answer(due[i], x, phy)
                                  /\ \A j \in DOMAIN due : j # i => due[j].stage = "normal"
      BY <1>4 DEF Answered
    <2>2. InEvents(x) = {i}
      BY <1>1, <2>1 DEF Answer, InEvents, Names
    <2>3. q # x => InEvents(q) = {}
      BY <1>1, <2>1 DEF Answer, InEvents, Names
    <2>4. InRings(q) = {} /\ InRings(x) = {}
      BY <1>4, InNoRing DEF Answered, Drained
    <2> QED BY <2>2, <2>3, <2>4
  <1> QED BY <1>2, <1>3, <1>4 DEF Tracked

LEMMA RequestsTracked ==
    ASSUME XhciInv
    PROVE  XhciRequestsTracked
  <1>0. Cardinality({}) = 0 /\ \A a : Cardinality({a}) = 1
    BY FS_EmptySet, FS_Singleton
  <1>1. CASE ~Awaiting
    <2>1. InFlight = {} /\ Drained(xhci_ring) /\ Quiet(xhci_events)
      BY <1>1 DEF XhciInv, RequestsWell
    <2>2. ASSUME NEW q \in 1 .. Requests PROVE InRings(q) = {} /\ InEvents(q) = {}
      <3>1. InRings(q) = {}
        BY <2>1, InNoRing DEF Drained
      <3>2. InEvents(q) = {}
        BY <2>1 DEF Quiet, InEvents, Names
      <3> QED BY <3>1, <3>2
    <2> QED BY <1>0, <2>1, <2>2 DEF XhciRequestsTracked
  <1>2. CASE Awaiting
    <2>1. PICK x \in 1 .. Requests : /\ InFlight = {x}
                                     /\ Tracked(x, xhci_ring, xhci_events, xhci_request.trb_phy[x])
      BY <1>2 DEF XhciInv, RequestsWell
    <2>2. ASSUME NEW q \in 1 .. Requests
          PROVE  Cardinality(InRings(q)) + Cardinality(InEvents(q)) = IF q \in InFlight THEN 1 ELSE 0
      <3>1. CASE q # x
        <4>1. InRings(q) = {} /\ InEvents(q) = {}
          BY <2>1, <3>1, OneTracked
        <4> QED BY <1>0, <2>1, <3>1, <4>1
      <3>2. CASE q = x
        <4>1. \/ (\E a : InRings(x) = {a}) /\ InEvents(x) = {}
              \/ InRings(x) = {} /\ \E a : InEvents(x) = {a}
          BY <2>1, OneTracked
        <4>2. \/ Cardinality(InRings(x)) = 1 /\ Cardinality(InEvents(x)) = 0
              \/ Cardinality(InRings(x)) = 0 /\ Cardinality(InEvents(x)) = 1
          BY <1>0, <4>1
        <4> QED BY <2>1, <3>2, <4>2
      <3> QED BY <3>1, <3>2
    <2>3. Cardinality(InFlight) = 1
      BY <1>0, <2>1
    <2>4. Cardinality(InFlight) <= 1
      BY <2>3
    <2> QED BY <2>2, <2>4 DEF XhciRequestsTracked
  <1> QED BY <1>1, <1>2

-----------------------------------------------------------------------------
\* A port and its pair are of different types, and each is the other's pair.
LEMMA PairTypes ==
    ASSUME NEW p \in Ports, NEW q \in PairsOf(p)
    PROVE  /\ q \in Ports /\ q # p /\ p \in PairsOf(q)
           /\ (PortLayout[p].type = "usb3" <=> PortLayout[q].type # "usb3")
           /\ PortLayout[p].type # "unknown" /\ PortLayout[q].type # "unknown"
  <1>1. q \in Ports /\ PortLayout[p].offset = PortLayout[q].offset
        /\ {PortLayout[p].type, PortLayout[q].type} = {"usb2", "usb3"}
    BY DEF PairsOf
  <1>2. \/ PortLayout[p].type = "usb2" /\ PortLayout[q].type = "usb3"
        \/ PortLayout[p].type = "usb3" /\ PortLayout[q].type = "usb2"
    BY <1>1
  <1>3. p \in PairsOf(q)
    BY <1>1, <1>2 DEF PairsOf
  <1> QED BY <1>1, <1>2, <1>3

LEMMA PairInit ==
    ASSUME XhciInit
    PROVE  PairInv
  <1>1. xhci_port \in [Ports -> BOOLEAN] /\ \A p \in Ports : xhci_port[p] = InitiallyActive(p)
    BY DEF XhciInit, InitiallyActive
  <1>2. ASSUME NEW p \in Ports, NEW q \in PairsOf(p) PROVE ~(xhci_port[p] /\ xhci_port[q])
    <2>1. q \in Ports /\ PairsOf(p) # {} /\ PairsOf(q) # {}
          /\ (PortLayout[p].type = "usb3" <=> PortLayout[q].type # "usb3")
      BY PairTypes
    <2> QED BY <1>1, <2>1 DEF InitiallyActive
  <1>3. xhci_setup.again = 0
    BY DEF XhciInit
  <1> QED BY <1>1, <1>2, <1>3 DEF PairInv

LEMMA PairReset ==
    ASSUME Usb3Paired, PairInv, NEW outcome, reset_port(outcome)
    PROVE  PairInv'
  <1> DEFINE p == IF xhci_setup.again # 0 THEN xhci_setup.again ELSE xhci_setup.port
             pairs == outcome = "fails" /\ PortLayout[p].type = "usb3"
  <1>1. xhci_setup.port \in Ports /\ xhci_setup.again \in Ports \cup {0}
    BY DEF PairInv, reset_port
  <1>2. p \in Ports
    BY <1>1
  <1>3. xhci_port' = [q \in Ports |-> IF pairs /\ q = pair_index(p) THEN TRUE
                                      ELSE IF q = p /\ outcome = "fails" THEN FALSE
                                      ELSE xhci_port[q]]
    BY DEF reset_port
  <1>4. xhci_setup'.again = IF pairs THEN pair_index(p) ELSE 0
    BY DEF reset_port
  <1>5. pairs => PairsOf(p) = {pair_index(p)}
    BY <1>2, PairIs DEF Usb3Paired
  <1>6. pair_index(p) \in Ports
    BY <1>2, PairIs
  <1> HIDE DEF p
  <1>7. xhci_port' \in [Ports -> BOOLEAN] /\ xhci_setup'.again \in Ports \cup {0}
    BY <1>3, <1>4, <1>6 DEF PairInv
  <1>8. ASSUME NEW x \in Ports, NEW y \in PairsOf(x) PROVE ~(xhci_port'[x] /\ xhci_port'[y])
    <2>1. y \in Ports /\ y # x /\ x \in PairsOf(y)
      BY PairTypes
    <2>2. ~(xhci_port[x] /\ xhci_port[y])
      BY DEF PairInv
    <2>3. CASE ~pairs
      BY <1>3, <2>1, <2>2, <2>3
    <2>4. CASE pairs
      <3>1. \A z \in Ports : xhci_port'[z] = IF z = pair_index(p) THEN TRUE
                                             ELSE IF z = p THEN FALSE ELSE xhci_port[z]
        BY <1>3, <2>4
      <3>2. p \in PairsOf(pair_index(p)) /\ p # pair_index(p)
        BY <1>2, <1>5, <2>4, PairTypes
      <3>3. PairsOf(pair_index(p)) = {p}
        BY <1>6, <3>2, PairIs
      <3>4. CASE x = pair_index(p)
        BY <2>1, <3>1, <3>2, <3>3, <3>4
      <3>5. CASE y = pair_index(p)
        BY <2>1, <3>1, <3>2, <3>3, <3>5
      <3>6. CASE x # pair_index(p) /\ y # pair_index(p)
        BY <2>1, <2>2, <3>1, <3>6
      <3> QED BY <3>4, <3>5, <3>6
    <2> QED BY <2>3, <2>4
  <1> QED BY <1>7, <1>8 DEF PairInv

\* The other steps change neither a port nor the port to reset again.
LEMMA PairStep ==
    ASSUME XhciInv, XhciInv', Usb3Paired, PairInv, [XhciNext]_xhci_vars
    PROVE  PairInv'
  <1>1. xhci_setup'.again \in Ports \cup {0}
    BY DEF XhciInv, SetupWell, SetupRecord
  <1>2. CASE xhci_port' = xhci_port
    BY <1>1, <1>2 DEF PairInv
  <1>3. CASE \E outcome \in {"succeeds", "fails", "no_power"} : reset_port(outcome)
    BY <1>3, PairReset
  <1> QED BY <1>2, <1>3 DEF XhciNext, xhci_vars, start, next_port, setup_device,
                            await_ready, await_suspend, irq, controller

LEMMA OnePerPair ==
    ASSUME PairInv
    PROVE  XhciOnePerPair
  <1>1. ASSUME NEW p \in Ports, PairsOf(p) # {} PROVE ~(xhci_port[p] /\ xhci_port[pair_index(p)])
    <2>1. pair_index(p) \in PairsOf(p)
      BY <1>1, PairIs
    <2> QED BY <2>1 DEF PairInv
  <1> QED BY <1>1 DEF XhciOnePerPair

\* xHCI rings, requests and reports: on every turn of every ring the controller
\* finds exactly what the driver enqueued and the driver exactly the events not
\* yet read, the request in flight is in one ring or in one event and no other
\* is named, and reports are only asked of devices that have all they need.
THEOREM UsbRingsSafe == XhciSpec => [](XhciRingsExact /\ XhciRequestsTracked /\ XhciReportsUsable)
  <1>1. XhciInit => XhciInv
    BY XhciInitWell
  <1>2. XhciInv /\ [XhciNext]_xhci_vars => XhciInv'
    BY XhciStep
  <1>3. XhciInv => XhciRingsExact /\ XhciRequestsTracked /\ XhciReportsUsable
    BY RingsExact, RequestsTracked, ReportsUsable
  <1> QED BY <1>1, <1>2, <1>3, PTL DEF XhciSpec

\* With a USB 2 port for every USB 3 port, as on every controller that has
\* both, xHCI as a whole: also at most one port of a pair is set up.
THEOREM UsbSafe == Usb3Paired => (XhciSpec => []XhciSafe)
  <1> SUFFICES ASSUME Usb3Paired PROVE XhciSpec => []XhciSafe
    OBVIOUS
  <1>1. XhciInit => XhciInv /\ PairInv
    BY XhciInitWell, PairInit
  <1>2. XhciInv /\ PairInv /\ [XhciNext]_xhci_vars => XhciInv' /\ PairInv'
    BY XhciStep, PairStep
  <1>3. XhciInv /\ PairInv => XhciSafe
    BY RingsExact, RequestsTracked, ReportsUsable, OnePerPair DEF XhciSafe
  <1> QED BY <1>1, <1>2, <1>3, PTL DEF XhciSpec
-----------------------------------------------------------------------------
\* The page allocator.
Members(s) == {s[i] : i \in DOMAIN s}
Base(r) == PfnStart(MemoryMap[r])

\* A run as alloc_page and alloc_contiguous_pages hand it out.
IsRun(run) == \E r \in Regions, i \in Nat \ {0}, n \in Nat \ {0} :
                  i + n - 1 <= NumUsable(r) /\ run = RunAt(r, i, n)
ListWell == /\ page_freelist \in Seq(PmmPages) /\ Distinct(page_freelist)
            /\ Members(page_freelist) = page_free
            /\ total_free_pages = Len(page_freelist)
HeldWell == /\ \A run \in held : IsRun(run)
            /\ \A a, b \in held : a = b \/ a \cap b = {}
            /\ page_free = PmmPages \ UNION held
PmmInv == ListWell /\ HeldWell /\ PmmFindsRun

\* A list without repetition is as long as it has members.
LEMMA CountMembers ==
    ASSUME NEW S, NEW s \in Seq(S), Distinct(s)
    PROVE  IsFiniteSet(Members(s)) /\ Cardinality(Members(s)) = Len(s)
  <1> DEFINE n == Len(s)
  <1>1. n \in Nat /\ DOMAIN s = 1 .. n /\ s \in [1 .. n -> Members(s)]
    BY DEF Members
  <1>2. s \in Bijection(1 .. n, Members(s))
    BY <1>1 DEF Bijection, Injection, Surjection, IsInjective, Distinct, Members
  <1>3. ExistsBijection(1 .. n, Members(s))
    BY <1>2 DEF ExistsBijection
  <1>4. IsFiniteSet(1 .. n) /\ Cardinality(1 .. n) = n
    <2>1. IsFiniteSet(1 .. n) /\ Cardinality(1 .. n) = IF 1 > n THEN 0 ELSE n - 1 + 1
      BY <1>1, FS_Interval
    <2> QED BY <1>1, <2>1
  <1> QED BY <1>3, <1>4, FS_Bijection

\* Every entry has pages, the first of them for the Page structs.
LEMMA EntrySizes ==
    ASSUME NEW r \in Regions
    PROVE  /\ r \in Nat \ {0} /\ Base(r) \in Nat
           /\ NumPages(r) \in Nat /\ NumReserved(r) \in 1 .. NumPages(r)
           /\ NumUsable(r) \in Nat /\ NumUsable(r) = NumPages(r) - NumReserved(r)
  <1> DEFINE e == MemoryMap[r]
  <1>1. e \in Nat \X Nat /\ r \in Nat \ {0}
    BY PmmAssumption DEF Regions
  <1>2. PageBytes \in Nat \ {0} /\ PagesPerStruct \in Nat \ {0, 1} /\ NumPages(r) > 0
    BY PmmAssumption
  <1>3. e[1] \in Nat /\ e[2] \in Nat
    BY <1>1
  <1>4. e[1] \div PageBytes \in Nat /\ e[2] \div PageBytes \in Nat
    <2> DEFINE a == e[1]
               b == e[2]
    <2> HIDE DEF a, b
    <2>1. a \div PageBytes \in Nat /\ b \div PageBytes \in Nat
      BY <1>2, <1>3 DEF a, b
    <2> QED BY <2>1 DEF a, b
  <1>5. Base(r) \in Nat /\ PfnEnd(e) \in Int
    BY <1>4 DEF Base, PfnStart, PfnEnd
  <1>6. NumPages(r) \in Nat
    BY <1>2, <1>5 DEF NumPages, Base
  <1>7. NumReserved(r) \in 1 .. NumPages(r)
    <2> DEFINE n == NumPages(r)
               s == PagesPerStruct
               q == (n + s) \div s
               m == (n + s) % s
    <2>1. n \in Nat /\ n > 0 /\ s \in Nat /\ s >= 2
      BY <1>2, <1>6
    <2> HIDE DEF n, s
    <2>2. q \in Int /\ m \in 0 .. s - 1 /\ n + s = q * s + m
      <3>1. n + s \in Int /\ s \in Nat \ {0}
        BY <2>1
      <3> QED BY ONLY <3>1, Division
    <2> HIDE DEF q, m
    <2>3. q >= 1
      <3>1. CASE q <= 0
        <4>1. q * s <= 0
          BY <2>1, <2>2, <3>1
        <4> QED BY <2>1, <2>2, <4>1
      <3> QED BY <2>2, <3>1
    <2>4. q <= n
      <3>1. CASE q >= n + 1
        <4>1. q * s >= (n + 1) * s
          BY <2>1, <2>2, <3>1
        <4>2. (n + 1) * s = n * s + s /\ n * s >= n * 2
          BY <2>1
        <4>3. q * s \in Int /\ n * s \in Int
          BY <2>1, <2>2
        <4> QED BY <2>1, <2>2, <4>1, <4>2, <4>3
      <3> QED BY <2>1, <2>2, <3>1
    <2> QED BY <2>1, <2>2, <2>3, <2>4 DEF NumReserved, n, s, q
  <1> QED BY <1>1, <1>5, <1>6, <1>7 DEF NumUsable

\* Its pages are inside of it.
LEMMA EntryInside ==
    ASSUME NEW r \in Regions
    PROVE  /\ Base(r) * PageBytes >= MemoryMap[r][1]
           /\ PfnEnd(MemoryMap[r]) * PageBytes <= MemoryMap[r][1] + MemoryMap[r][2]
           /\ Base(r) + NumPages(r) = PfnEnd(MemoryMap[r])
           /\ MemoryMap[r][1] \in Nat /\ MemoryMap[r][2] \in Nat /\ PfnEnd(MemoryMap[r]) \in Int
  <1> DEFINE a == MemoryMap[r][1]
             b == MemoryMap[r][2]
             p == PageBytes
             qa == a \div p
             ma == a % p
             qb == b \div p
             mb == b % p
  <1>1. a \in Nat /\ b \in Nat /\ p \in Nat /\ p > 0
    <2>1. MemoryMap[r] \in Nat \X Nat
      BY PmmAssumption DEF Regions
    <2> QED BY <2>1, PmmAssumption
  <1>2. /\ Base(r) = qa + (IF ma = 0 THEN 0 ELSE 1)
        /\ PfnEnd(MemoryMap[r]) = qa + qb - (IF mb = 0 THEN 0 ELSE 1)
    BY DEF Base, PfnStart, PfnEnd
  <1>3. NumPages(r) = PfnEnd(MemoryMap[r]) - Base(r)
    BY DEF NumPages, Base
  <1> HIDE DEF a, b, p
  <1>4. qa \in Int /\ ma \in 0 .. p - 1 /\ a = qa * p + ma
    <2>1. a \in Int /\ p \in Nat \ {0}
      BY <1>1
    <2> QED BY ONLY <2>1, Division
  <1>5. qb \in Int /\ mb \in 0 .. p - 1 /\ b = qb * p + mb
    <2>1. b \in Int /\ p \in Nat \ {0}
      BY <1>1
    <2> QED BY ONLY <2>1, Division
  <1> HIDE DEF qa, ma, qb, mb
  <1>6. qa * p \in Int /\ qb * p \in Int /\ (qa + 1) * p = qa * p + p
        /\ (qa + qb) * p = qa * p + qb * p /\ (qa + qb - 1) * p = qa * p + qb * p - p
    BY <1>1, <1>4, <1>5
  <1>7. Base(r) * p >= a
    BY <1>1, <1>2, <1>4, <1>6
  <1>8. PfnEnd(MemoryMap[r]) * p <= a + b
    <2>1. CASE mb = 0
      BY <1>1, <1>2, <1>4, <1>5, <1>6, <2>1
    <2>2. CASE mb # 0
      BY <1>1, <1>2, <1>4, <1>5, <1>6, <2>2
    <2> QED BY <2>1, <2>2
  <1>9. Base(r) \in Int /\ PfnEnd(MemoryMap[r]) \in Int
    BY <1>2, <1>4, <1>5
  <1>10. Base(r) + NumPages(r) = PfnEnd(MemoryMap[r])
    BY <1>3, <1>9
  <1> QED BY <1>1, <1>7, <1>8, <1>9, <1>10 DEF a, b, p

\* The pages of two entries are apart.
LEMMA EntriesApart ==
    ASSUME NEW r \in Regions, NEW q \in Regions, r # q
    PROVE  Base(r) + NumPages(r) <= Base(q) \/ Base(q) + NumPages(q) <= Base(r)
  <1> DEFINE p == PageBytes
  <1>0. p \in Nat /\ p > 0
    BY PmmAssumption
  <1> HIDE DEF p
  <1>1. ASSUME NEW x \in Regions, NEW y \in Regions,
               MemoryMap[x][1] + MemoryMap[x][2] <= MemoryMap[y][1]
        PROVE  Base(x) + NumPages(x) <= Base(y)
    <2> DEFINE u == PfnEnd(MemoryMap[x])
               v == Base(y)
               c == MemoryMap[x][1] + MemoryMap[x][2]
               d == MemoryMap[y][1]
    <2>1. u \in Int /\ v \in Int /\ c \in Int /\ d \in Int /\ u * p <= c /\ v * p >= d
          /\ Base(x) + NumPages(x) = u
      BY EntryInside, EntrySizes DEF p
    <2>2. c <= d
      BY <1>1
    <2> HIDE DEF u, v, c, d
    <2>3. u * p \in Int /\ v * p \in Int
      BY <1>0, <2>1
    <2>4. u * p <= v * p
      BY <2>1, <2>2, <2>3
    <2>5. u <= v
      <3>1. CASE u >= v + 1
        <4>1. u * p >= (v + 1) * p
          BY <1>0, <2>1, <3>1
        <4>2. (v + 1) * p = v * p + p
          BY <1>0, <2>1
        <4> QED BY <1>0, <2>3, <2>4, <4>1, <4>2
      <3> QED BY <2>1, <3>1
    <2> QED BY <2>1, <2>5 DEF u, v
  <1>2. \/ MemoryMap[r][1] + MemoryMap[r][2] <= MemoryMap[q][1]
        \/ MemoryMap[q][1] + MemoryMap[q][2] <= MemoryMap[r][1]
    BY PmmAssumption
  <1> QED BY <1>1, <1>2

\* A page is the one its frame is found to be, and no other has that frame.
LEMMA PageOf ==
    ASSUME NEW r \in Regions, NEW i \in 1 .. NumUsable(r)
    PROVE  <<r, i>> \in PmmPages /\ Pfn(<<r, i>>) = Base(r) + NumReserved(r) + i - 1
  BY DEF PmmPages, Pfn, Base

LEMMA PageIs ==
    ASSUME NEW page \in PmmPages
    PROVE  page[1] \in Regions /\ page[2] \in 1 .. NumUsable(page[1]) /\ page = <<page[1], page[2]>>
  <1>1. PICK r \in Regions : page \in {r} \X (1 .. NumUsable(r))
    BY DEF PmmPages
  <1> QED BY <1>1

LEMMA FramePlace ==
    ASSUME NEW r \in Regions, NEW i \in 1 .. NumUsable(r), NEW q \in Regions,
           Base(q) <= Pfn(<<r, i>>), Pfn(<<r, i>>) <= Base(q) + NumPages(q)
    PROVE  q = r
  <1> DEFINE f == Pfn(<<r, i>>)
             b == Base(r)
             n == NumPages(r)
             v == NumReserved(r)
  <1>1. b \in Nat /\ n \in Nat /\ v \in 1 .. n /\ NumUsable(r) = n - v
    BY EntrySizes
  <1>2. f = b + v + i - 1
    BY PageOf
  <1>3. Base(q) \in Nat /\ NumPages(q) \in Nat
    BY EntrySizes
  <1>4. q # r => b + n <= Base(q) \/ Base(q) + NumPages(q) <= b
    BY EntriesApart
  <1> HIDE DEF f, b, n, v
  <1>5. f \in Nat /\ b < f /\ f < b + n
    BY <1>1, <1>2
  <1>6. Base(q) <= f /\ f <= Base(q) + NumPages(q)
    BY DEF f
  <1> QED BY <1>1, <1>3, <1>4, <1>5, <1>6

LEMMA FrameFound ==
    ASSUME NEW r \in Regions, NEW i \in 1 .. NumUsable(r)
    PROVE  find_page(Pfn(<<r, i>>)) = <<r, i>>
  <1> DEFINE f == Pfn(<<r, i>>)
             within == {q \in Regions : Base(q) <= f /\ f <= Base(q) + NumPages(q)}
             x == CHOOSE q \in within : \A s \in within : q <= s
  <1>1. Base(r) \in Nat /\ NumPages(r) \in Nat /\ NumReserved(r) \in 1 .. NumPages(r)
        /\ NumUsable(r) = NumPages(r) - NumReserved(r) /\ r \in Nat
    BY EntrySizes
  <1>2. f = Base(r) + NumReserved(r) + i - 1
    BY PageOf
  <1>3. find_page(f) = IF within = {} \/ f < Base(x) + NumReserved(x) THEN <<>>
                       ELSE <<x, f - Base(x) - NumReserved(x) + 1>>
    BY DEF find_page, Base
  <1>4. within = {r}
    <2>1. r \in within
      BY <1>1, <1>2
    <2>2. \A q \in within : q = r
      BY FramePlace
    <2> HIDE DEF within
    <2> QED BY <2>1, <2>2
  <1>5. x = r
    <2> HIDE DEF within
    <2>1. r \in within /\ r <= r /\ \A q \in within : q = r
      BY <1>1, <1>4
    <2> QED BY <2>1
  <1> HIDE DEF f, within, x
  <1>6. ~(f < Base(r) + NumReserved(r)) /\ f - Base(r) - NumReserved(r) + 1 = i
    BY <1>1, <1>2
  <1>7. find_page(f) = <<r, i>>
    BY <1>3, <1>4, <1>5, <1>6
  <1> QED BY <1>7 DEF f

LEMMA FramesDistinct ==
    ASSUME NEW p \in PmmPages, NEW q \in PmmPages, Pfn(p) = Pfn(q)
    PROVE  p = q
  <1>1. p[1] \in Regions /\ p[2] \in 1 .. NumUsable(p[1]) /\ p = <<p[1], p[2]>>
    BY PageIs
  <1>2. q[1] \in Regions /\ q[2] \in 1 .. NumUsable(q[1]) /\ q = <<q[1], q[2]>>
    BY PageIs
  <1>3. find_page(Pfn(p)) = p
    BY <1>1, FrameFound
  <1>4. find_page(Pfn(q)) = q
    BY <1>2, FrameFound
  <1> QED BY <1>3, <1>4

-----------------------------------------------------------------------------
\* A run of pages.
LEMMA RunIs ==
    ASSUME NEW r \in Regions, NEW i \in Nat \ {0}, NEW n \in Nat, i + n - 1 <= NumUsable(r)
    PROVE  /\ RunAt(r, i, n) \subseteq PmmPages
           /\ IsFiniteSet(RunAt(r, i, n)) /\ Cardinality(RunAt(r, i, n)) = n
           /\ \A j \in 0 .. n - 1 : <<r, i + j>> \in RunAt(r, i, n) /\ i + j \in 1 .. NumUsable(r)
           /\ \A p \in RunAt(r, i, n) : \E j \in 0 .. n - 1 : p = <<r, i + j>>
  <1>1. NumUsable(r) \in Nat
    BY EntrySizes
  <1>2. \A j \in 0 .. n - 1 : i + j \in 1 .. NumUsable(r)
    BY <1>1
  <1>3. RunAt(r, i, n) \subseteq PmmPages
    BY <1>2, PageOf DEF RunAt
  <1> DEFINE f == [k \in 1 .. n |-> <<r, i + (k - 1)>>]
  <1>4. f \in [1 .. n -> RunAt(r, i, n)]
    <2>1. \A k \in 1 .. n : k - 1 \in 0 .. n - 1
      OBVIOUS
    <2> QED BY <2>1 DEF RunAt
  <1>5. \A k, l \in 1 .. n : f[k] = f[l] => k = l
    OBVIOUS
  <1>6. ASSUME NEW p \in RunAt(r, i, n) PROVE \E k \in 1 .. n : f[k] = p
    <2>1. PICK j \in 0 .. n - 1 : p = <<r, i + j>>
      BY DEF RunAt
    <2>2. j + 1 \in 1 .. n /\ (j + 1) - 1 = j
      OBVIOUS
    <2>3. f[j + 1] = p
      BY <2>1, <2>2
    <2> QED BY <2>2, <2>3
  <1> HIDE DEF f
  <1>7. f \in Bijection(1 .. n, RunAt(r, i, n))
    BY <1>4, <1>5, <1>6 DEF Bijection, Injection, Surjection, IsInjective
  <1>8. ExistsBijection(1 .. n, RunAt(r, i, n))
    BY <1>7 DEF ExistsBijection
  <1>9. IsFiniteSet(1 .. n) /\ Cardinality(1 .. n) = n
    <2>1. IsFiniteSet(1 .. n) /\ Cardinality(1 .. n) = IF 1 > n THEN 0 ELSE n - 1 + 1
      BY FS_Interval
    <2> QED BY <2>1
  <1>10. IsFiniteSet(RunAt(r, i, n)) /\ Cardinality(RunAt(r, i, n)) = n
    BY <1>8, <1>9, FS_Bijection
  <1> QED BY <1>2, <1>3, <1>10 DEF RunAt

-----------------------------------------------------------------------------
\* The search of alloc_contiguous_pages: one iteration from i.
InUse(r, i, n) == {j \in 0 .. n - 1 : <<r, i + j>> \notin page_free}
Stops(r, i, n) == i + n - 1 > NumUsable(r) \/ InUse(r, i, n) = {}
Further(r, i, n) == IF Stops(r, i, n) THEN i
                    ELSE SkipTo(i, CHOOSE j \in InUse(r, i, n) : \A k \in InUse(r, i, n) : j <= k, n)

LEMMA FreeRun ==
    ASSUME NEW r, NEW i \in Nat, NEW n \in Nat
    PROVE  InUse(r, i, n) = {} <=> RunAt(r, i, n) \subseteq page_free
  BY DEF InUse, RunAt

\* It goes forward, and passes no free run.
LEMMA FurtherPasses ==
    ASSUME NEW r \in Regions, NEW i \in Nat \ {0}, NEW n \in Nat \ {0}
    PROVE  /\ Further(r, i, n) \in Nat \ {0}
           /\ Stops(r, i, n) => Further(r, i, n) = i
           /\ ~Stops(r, i, n) => Further(r, i, n) >= i + 1
           /\ \A x \in i .. Further(r, i, n) - 1 : ~(RunAt(r, x, n) \subseteq page_free)
  <1>1. CASE Stops(r, i, n)
    <2>1. Further(r, i, n) = i /\ i .. i - 1 = {}
      BY <1>1 DEF Further
    <2> QED BY <1>1, <2>1
  <1>2. CASE ~Stops(r, i, n)
    <2> DEFINE S == InUse(r, i, n)
               j == CHOOSE y \in S : \A k \in S : y <= k
    <2>1. S \in SUBSET Nat /\ S # {}
      BY <1>2 DEF Stops, InUse
    <2>2. j \in S
      BY <2>1, LeastElement
    <2>3. Further(r, i, n) = i + j + 1
      BY <1>2 DEF Further, SkipTo
    <2> HIDE DEF j
    <2>4. j \in 0 .. n - 1 /\ <<r, i + j>> \notin page_free
      BY <2>2 DEF InUse
    <2>5. ASSUME NEW x \in i .. i + j PROVE ~(RunAt(r, x, n) \subseteq page_free)
      <3>1. i + j - x \in 0 .. n - 1 /\ x + (i + j - x) = i + j
        BY <2>4
      <3>2. <<r, i + j>> \in RunAt(r, x, n)
        BY <3>1 DEF RunAt
      <3> QED BY <2>4, <3>2
    <2>6. i + j + 1 \in Nat \ {0} /\ i + j + 1 >= i + 1 /\ i .. (i + j + 1) - 1 = i .. i + j
      BY <2>4
    <2> QED BY <1>2, <2>3, <2>5, <2>6
  <1> QED BY <1>1, <1>2

LEMMA SearchFinds ==
    ASSUME NEW r \in Regions, NEW n \in Nat \ {0}, n <= NumUsable(r)
    PROVE  /\ Search(r, n) \in Nat
           /\ Search(r, n) = 0 => \A i \in 1 .. NumUsable(r) + 1 - n : ~(RunAt(r, i, n) \subseteq page_free)
           /\ Search(r, n) # 0 => /\ Search(r, n) + n - 1 <= NumUsable(r)
                                  /\ RunAt(r, Search(r, n), n) \subseteq page_free
  <1> DEFINE U == NumUsable(r)
             P == Nat \ {0}
             next == [k \in 1 .. U |-> [i \in P |-> Further(r, i, n)]]
             Body(g) == [k \in 0 .. U |-> IF k = 0 THEN 1
                                          ELSE Further(r, g[k - 1], n)]
             at == CHOOSE g : g = Body(g)
  <1>1. U \in Nat
    BY EntrySizes
  <1>2. LoopSteps(next, U, P) /\ 1 \in P
    BY <1>1, FurtherPasses DEF LoopSteps
  <1>3. PICK f : LoopRun(f, next, U, P, 1)
    BY <1>2, LoopRuns
  <1>4. f = Body(f)
    <2>1. f \in [0 .. U -> P] /\ f[0] = 1 /\ \A k \in 1 .. U : f[k] = next[k][f[k - 1]]
      BY <1>3 DEF LoopRun
    <2>2. ASSUME NEW k \in 1 .. U PROVE k - 1 \in 0 .. U /\ f[k] = Further(r, f[k - 1], n)
      <3>1. k - 1 \in 0 .. U
        BY <1>1
      <3>2. f[k - 1] \in P /\ f[k] = next[k][f[k - 1]]
        BY <2>1, <3>1
      <3> QED BY <3>1, <3>2
    <2>3. \A k \in 0 .. U : f[k] = IF k = 0 THEN 1 ELSE Further(r, f[k - 1], n)
      BY <1>1, <2>1, <2>2
    <2> QED BY <2>1, <2>3
  <1>5. at = Body(at)
    BY <1>4
  <1>6. Search(r, n) = IF at[U] + n - 1 > U THEN 0 ELSE at[U]
    BY DEF Search, Further, Stops, InUse
  <1> HIDE DEF at
  <1> DEFINE Good(k) == /\ at[k] \in P
                        /\ at[k] >= k + 1 \/ Stops(r, at[k], n)
                        /\ \A x \in 1 .. at[k] - 1 : ~(RunAt(r, x, n) \subseteq page_free)
             S == {k \in 0 .. U : Good(k)}
  <1>7. Good(0)
    <2>1. at[0] = 1
      BY <1>1, <1>5
    <2> QED BY <2>1
  <1>8. ASSUME NEW k \in 0 .. U - 1, Good(k) PROVE Good(k + 1)
    <2> DEFINE i == at[k]
               j == Further(r, i, n)
    <2>1. at[k + 1] = j
      <3>1. k + 1 \in 0 .. U /\ k + 1 # 0 /\ (k + 1) - 1 = k
        BY <1>1
      <3> QED BY <1>5, <3>1
    <2>2. i \in P /\ (i >= k + 1 \/ Stops(r, i, n))
          /\ \A x \in 1 .. i - 1 : ~(RunAt(r, x, n) \subseteq page_free)
      BY <1>8
    <2>3. /\ j \in P /\ (Stops(r, i, n) => j = i) /\ (~Stops(r, i, n) => j >= i + 1)
          /\ \A x \in i .. j - 1 : ~(RunAt(r, x, n) \subseteq page_free)
      BY <2>2, FurtherPasses
    <2> HIDE DEF i, j
    <2>4. j >= (k + 1) + 1 \/ Stops(r, j, n)
      BY <1>8, <2>2, <2>3
    <2>5. \A x \in 1 .. j - 1 : x \in 1 .. i - 1 \/ x \in i .. j - 1
      BY <2>2, <2>3
    <2> QED BY <2>1, <2>2, <2>3, <2>4, <2>5
  <1>9. Good(U)
    <2>1. 0 \in S /\ \A k \in 0 .. U - 1 : k \in S => k + 1 \in S
      <3>1. 0 \in 0 .. U /\ \A k \in 0 .. U - 1 : k \in 0 .. U /\ k + 1 \in 0 .. U
        BY <1>1
      <3> QED BY <1>7, <1>8, <3>1
    <2> HIDE DEF S
    <2>2. 0 .. U \subseteq S
      BY <1>1, <2>1, UpTo
    <2>3. U \in 0 .. U
      BY <1>1
    <2> QED BY <2>2, <2>3 DEF S
  <1> DEFINE m == at[U]
  <1>10. m \in P /\ (m >= U + 1 \/ Stops(r, m, n)) /\ \A x \in 1 .. m - 1 : ~(RunAt(r, x, n) \subseteq page_free)
    BY <1>9
  <1>11. Search(r, n) = IF m + n - 1 > U THEN 0 ELSE m
    BY <1>6
  <1> HIDE DEF m
  <1>12. CASE m + n - 1 > U
    <2>1. \A x \in 1 .. U + 1 - n : x \in 1 .. m - 1
      BY <1>1, <1>10, <1>12
    <2>2. Search(r, n) = 0
      BY <1>11, <1>12
    <2> QED BY <1>10, <2>1, <2>2
  <1>13. CASE ~(m + n - 1 > U)
    <2>1. Search(r, n) = m /\ m # 0 /\ m + n - 1 <= U /\ ~(m >= U + 1)
      BY <1>1, <1>10, <1>11, <1>13
    <2>2. InUse(r, m, n) = {}
      BY <1>10, <1>13, <2>1 DEF Stops
    <2>3. RunAt(r, m, n) \subseteq page_free
      BY <1>10, <2>2, FreeRun
    <2> QED BY <1>10, <2>1, <2>3
  <1> QED BY <1>12, <1>13

-----------------------------------------------------------------------------
\* Lists without repetition.
LEMMA SelectDistinct ==
    ASSUME NEW S, NEW s \in Seq(S), Distinct(s), NEW A
    PROVE  /\ Select(s, A) \in Seq(S) /\ Distinct(Select(s, A))
           /\ Members(Select(s, A)) = Members(s) \cap A
  <1> DEFINE t == Select(s, A)
             m == Len(t)
             n == Len(s)
  <1>1. t \in Seq(S) /\ Selection(t, s, A)
    BY SelectIsSelection
  <1>2. PICK f : Enumerates(f, t, s, A)
    BY <1>1 DEF Selection
  <1> HIDE DEF t
  <1>3. m \in Nat /\ n \in Nat /\ DOMAIN t = 1 .. m /\ DOMAIN s = 1 .. n
    BY <1>1
  <1>4. /\ f \in [1 .. m -> 1 .. n]
        /\ \A i, j \in 1 .. m : i < j => f[i] < f[j]
        /\ \A p \in 1 .. n : s[p] \in A => \E i \in 1 .. m : f[i] = p
        /\ \A i \in 1 .. m : s[f[i]] \in A /\ t[i] = s[f[i]]
    BY <1>2 DEF Enumerates
  <1> HIDE DEF m, n
  <1>5. ASSUME NEW i \in 1 .. m, NEW j \in 1 .. m, t[i] = t[j] PROVE i = j
    <2>1. f[i] = f[j] /\ f[i] \in 1 .. n /\ f[j] \in 1 .. n
      BY <1>3, <1>4, <1>5 DEF Distinct
    <2>2. ~(i < j) /\ ~(j < i)
      BY <1>3, <1>4, <2>1
    <2> QED BY <1>3, <2>2
  <1>6. Distinct(t)
    BY <1>3, <1>5 DEF Distinct
  <1>7. Members(t) = Members(s) \cap A
    <2>1. ASSUME NEW x \in Members(t) PROVE x \in Members(s) \cap A
      BY <1>3, <1>4 DEF Members
    <2>2. ASSUME NEW x \in Members(s) \cap A PROVE x \in Members(t)
      <3>1. PICK p \in 1 .. n : s[p] = x
        BY <1>3 DEF Members
      <3>2. PICK i \in 1 .. m : f[i] = p
        BY <1>4, <3>1
      <3>3. t[i] = x
        BY <1>4, <3>1, <3>2
      <3> QED BY <1>3, <3>3 DEF Members
    <2> QED BY <2>1, <2>2
  <1> QED BY <1>1, <1>6, <1>7 DEF t

LEMMA ConcatDistinct ==
    ASSUME NEW S, NEW s \in Seq(S), NEW t \in Seq(S), Distinct(s), Distinct(t),
           Members(s) \cap Members(t) = {}
    PROVE  /\ s \o t \in Seq(S) /\ Distinct(s \o t)
           /\ Members(s \o t) = Members(s) \cup Members(t)
           /\ Len(s \o t) = Len(s) + Len(t)
  <1> DEFINE u == s \o t
             m == Len(s)
             n == Len(t)
  <1>1. /\ u \in Seq(S) /\ Len(u) = m + n /\ m \in Nat /\ n \in Nat
        /\ DOMAIN s = 1 .. m /\ DOMAIN t = 1 .. n /\ DOMAIN u = 1 .. m + n
        /\ \A i \in 1 .. m + n : u[i] = IF i <= m THEN s[i] ELSE t[i - m]
    BY ConcatProperties
  <1> HIDE DEF u, m, n
  <1>2. ASSUME NEW i \in 1 .. m + n
        PROVE  \/ i \in 1 .. m /\ u[i] = s[i] /\ u[i] \in Members(s)
               \/ i - m \in 1 .. n /\ ~(i <= m) /\ u[i] = t[i - m] /\ u[i] \in Members(t)
    <2>1. CASE i <= m
      <3>1. i \in 1 .. m
        BY <1>1, <2>1
      <3> QED BY <1>1, <2>1, <3>1 DEF Members
    <2>2. CASE ~(i <= m)
      <3>1. i - m \in 1 .. n
        BY <1>1, <2>2
      <3> QED BY <1>1, <2>2, <3>1 DEF Members
    <2> QED BY <2>1, <2>2
  <1>3. ASSUME NEW i \in 1 .. m + n, NEW j \in 1 .. m + n, u[i] = u[j] PROVE i = j
    <2>1. CASE i \in 1 .. m /\ j \in 1 .. m /\ s[i] = s[j]
      BY <1>1, <2>1 DEF Distinct
    <2>2. CASE i - m \in 1 .. n /\ j - m \in 1 .. n /\ t[i - m] = t[j - m]
      <3>1. i - m = j - m
        BY <1>1, <2>2 DEF Distinct
      <3> QED BY <1>1, <3>1
    <2> QED BY <1>2, <1>3, <2>1, <2>2
  <1>4. Distinct(u)
    BY <1>1, <1>3 DEF Distinct
  <1>5. Members(u) = Members(s) \cup Members(t)
    <2>1. ASSUME NEW x \in Members(u) PROVE x \in Members(s) \cup Members(t)
      BY <1>1, <1>2 DEF Members
    <2>2. ASSUME NEW i \in 1 .. m PROVE s[i] \in Members(u)
      <3>1. i \in 1 .. m + n /\ i <= m
        BY <1>1
      <3> QED BY <1>1, <3>1 DEF Members
    <2>3. ASSUME NEW i \in 1 .. n PROVE t[i] \in Members(u)
      <3>1. m + i \in 1 .. m + n /\ ~(m + i <= m) /\ (m + i) - m = i
        BY <1>1
      <3>2. u[m + i] = t[i]
        BY <1>1, <3>1
      <3> QED BY <1>1, <3>1, <3>2 DEF Members
    <2>4. Members(s) \subseteq Members(u)
      BY <1>1, <2>2 DEF Members
    <2>5. Members(t) \subseteq Members(u)
      BY <1>1, <2>3 DEF Members
    <2> QED BY <2>1, <2>4, <2>5
  <1> QED BY <1>1, <1>4, <1>5 DEF u, m, n

\* What init lists: the pages of every entry, each once.
PagesUpTo(k) == {p \in PmmPages : p[1] <= k}
LEMMA InitialPages ==
    /\ InitialList \in Seq(PmmPages) /\ Distinct(InitialList)
    /\ Members(InitialList) = PmmPages
  <1> DEFINE N == Len(MemoryMap)
             own(r) == [i \in 1 .. NumUsable(r) |-> <<r, i>>]
             next == [k \in 1 .. N |-> [s \in Seq(PmmPages) |-> s \o own(k)]]
             Body(g) == [k \in 0 .. N |-> IF k = 0 THEN <<>> ELSE g[k - 1] \o own(k)]
             list == CHOOSE g : g = Body(g)
  <1>1. N \in Nat /\ Regions = 1 .. N
    BY PmmAssumption DEF Regions
  <1>2. ASSUME NEW r \in Regions
        PROVE  own(r) \in Seq(PmmPages) /\ Distinct(own(r)) /\ Members(own(r)) = {r} \X (1 .. NumUsable(r))
    <2>1. NumUsable(r) \in Nat /\ DOMAIN own(r) = 1 .. NumUsable(r)
          /\ \A i \in 1 .. NumUsable(r) : own(r)[i] = <<r, i>> /\ <<r, i>> \in PmmPages
      BY EntrySizes, PageOf
    <2>2. own(r) \in Seq(PmmPages)
      BY <2>1
    <2> DEFINE s == own(r)
               n == NumUsable(r)
    <2>6. DOMAIN s = 1 .. n /\ \A i \in 1 .. n : s[i] = <<r, i>>
      BY <2>1
    <2> HIDE DEF own, s, n
    <2>3. Distinct(s)
      <3>1. ASSUME NEW i \in 1 .. n, NEW j \in 1 .. n, s[i] = s[j] PROVE i = j
        <4>1. <<r, i>> = <<r, j>>
          BY <2>6, <3>1
        <4> QED BY ONLY <4>1
      <3> QED BY <2>6, <3>1 DEF Distinct
    <2>4. ASSUME NEW x \in Members(s) PROVE x \in {r} \X (1 .. n)
      <3>1. PICK i \in 1 .. n : x = <<r, i>>
        BY <2>6 DEF Members
      <3> QED BY ONLY <3>1
    <2>5. ASSUME NEW x \in {r} \X (1 .. n) PROVE x \in Members(s)
      <3>1. x[2] \in 1 .. n /\ x = <<r, x[2]>>
        OBVIOUS
      <3> QED BY <2>6, <3>1 DEF Members
    <2>7. Members(s) = {r} \X (1 .. n)
      BY <2>4, <2>5
    <2> QED BY <2>2, <2>3, <2>7 DEF s, n
  <1>3. LoopSteps(next, N, Seq(PmmPages)) /\ <<>> \in Seq(PmmPages)
    <2>1. \A r \in 1 .. N : own(r) \in Seq(PmmPages)
      BY <1>1, <1>2
    <2> HIDE DEF own
    <2>2. \A r \in 1 .. N, s \in Seq(PmmPages) : s \o own(r) \in Seq(PmmPages)
      BY <2>1
    <2> QED BY <1>1, <2>2 DEF LoopSteps
  <1> HIDE DEF own
  <1>4. PICK f : LoopRun(f, next, N, Seq(PmmPages), <<>>)
    BY <1>3, LoopRuns
  <1>5. f = Body(f)
    <2>1. f \in [0 .. N -> Seq(PmmPages)] /\ f[0] = <<>> /\ \A k \in 1 .. N : f[k] = next[k][f[k - 1]]
      BY <1>4 DEF LoopRun
    <2>2. ASSUME NEW k \in 1 .. N PROVE f[k] = f[k - 1] \o own(k)
      <3>1. k - 1 \in 0 .. N
        BY <1>1
      <3>2. f[k - 1] \in Seq(PmmPages) /\ f[k] = next[k][f[k - 1]]
        BY <2>1, <3>1
      <3> QED BY <3>2
    <2>3. \A k \in 0 .. N : f[k] = IF k = 0 THEN <<>> ELSE f[k - 1] \o own(k)
      BY <1>1, <2>1, <2>2
    <2> QED BY <2>1, <2>3
  <1>6. list = Body(list)
    BY <1>5
  <1>7. InitialList = list[N]
    BY DEF InitialList, own
  <1> HIDE DEF list
  <1> DEFINE Good(k) == list[k] \in Seq(PmmPages) /\ Distinct(list[k]) /\ Members(list[k]) = PagesUpTo(k)
             S == {k \in 0 .. N : Good(k)}
  <1>8. Good(0)
    <2>1. list[0] = <<>>
      BY <1>1, <1>6
    <2>2. PagesUpTo(0) = {}
      <3>1. \A p \in PmmPages : p[1] \in 1 .. N
        BY <1>1, PageIs
      <3> QED BY <1>1, <3>1 DEF PagesUpTo
    <2> QED BY <2>1, <2>2 DEF Distinct, Members
  <1>9. ASSUME NEW k \in 0 .. N - 1, Good(k) PROVE Good(k + 1)
    <2>1. k + 1 \in Regions /\ k + 1 \in 0 .. N /\ k + 1 # 0 /\ (k + 1) - 1 = k
      BY <1>1
    <2>2. list[k + 1] = list[k] \o own(k + 1)
      BY <1>6, <2>1
    <2> DEFINE t == own(k + 1)
               r == k + 1
    <2>3. t \in Seq(PmmPages) /\ Distinct(t) /\ Members(t) = {r} \X (1 .. NumUsable(r))
      BY <1>2, <2>1
    <2>4. Members(list[k]) \cap Members(t) = {}
      <3>1. \A p \in Members(t) : p[1] = r
        BY <2>3
      <3>2. \A p \in Members(list[k]) : p[1] <= k
        BY <1>9 DEF PagesUpTo
      <3>3. ~(r <= k)
        OBVIOUS
      <3> QED BY <3>1, <3>2, <3>3
    <2>5. list[k] \in Seq(PmmPages) /\ Distinct(list[k])
      BY <1>9
    <2>6. list[k] \o t \in Seq(PmmPages) /\ Distinct(list[k] \o t)
          /\ Members(list[k] \o t) = Members(list[k]) \cup Members(t)
      BY ONLY <2>3, <2>4, <2>5, ConcatDistinct
    <2>7. PagesUpTo(k + 1) = PagesUpTo(k) \cup ({r} \X (1 .. NumUsable(r)))
      <3>1. ASSUME NEW p \in PagesUpTo(k + 1) PROVE p \in PagesUpTo(k) \cup ({r} \X (1 .. NumUsable(r)))
        <4>1. p \in PmmPages /\ p[1] <= k + 1 /\ p[1] \in 1 .. N
              /\ p[2] \in 1 .. NumUsable(p[1]) /\ p = <<p[1], p[2]>>
          BY <1>1, PageIs DEF PagesUpTo
        <4>2. p[1] <= k \/ p[1] = r
          BY <4>1
        <4> QED BY <4>1, <4>2 DEF PagesUpTo
      <3>2. ASSUME NEW p \in PagesUpTo(k) PROVE p \in PagesUpTo(k + 1)
        <4>1. p \in PmmPages /\ p[1] <= k /\ p[1] \in 1 .. N
          BY <1>1, PageIs DEF PagesUpTo
        <4> QED BY <4>1 DEF PagesUpTo
      <3>3. ASSUME NEW p \in {r} \X (1 .. NumUsable(r)) PROVE p \in PagesUpTo(k + 1)
        <4>1. p[1] = r /\ p \in PmmPages
          BY <2>1 DEF PmmPages
        <4> QED BY <1>1, <2>1, <4>1 DEF PagesUpTo
      <3> QED BY <3>1, <3>2, <3>3
    <2> QED BY <1>9, <2>2, <2>3, <2>6, <2>7
  <1>10. Good(N)
    <2>1. 0 \in S /\ \A k \in 0 .. N - 1 : k \in S => k + 1 \in S
      <3>1. 0 \in 0 .. N /\ \A k \in 0 .. N - 1 : k \in 0 .. N /\ k + 1 \in 0 .. N
        BY <1>1
      <3> QED BY <1>8, <1>9, <3>1
    <2> HIDE DEF S
    <2>2. 0 .. N \subseteq S
      BY <1>1, <2>1, UpTo
    <2>3. N \in 0 .. N
      BY <1>1
    <2> QED BY <2>2, <2>3 DEF S
  <1>11. PagesUpTo(N) = PmmPages
    <2>1. \A p \in PmmPages : p[1] \in 1 .. N
      BY <1>1, PageIs
    <2> QED BY <1>1, <2>1 DEF PagesUpTo
  <1> QED BY <1>7, <1>10, <1>11

-----------------------------------------------------------------------------
LEMMA PmmInitWell ==
    ASSUME PmmInit
    PROVE  PmmInv
  <1>1. page_freelist = InitialList /\ page_free = PmmPages /\ held = {} /\ missed = 0
        /\ total_free_pages = Cardinality(PmmPages)
    BY DEF PmmInit
  <1>2. Cardinality(PmmPages) = Len(InitialList)
    BY InitialPages, CountMembers
  <1>3. ListWell
    BY <1>1, <1>2, InitialPages DEF ListWell
  <1>4. HeldWell
    BY <1>1 DEF HeldWell
  <1>5. PmmFindsRun
    BY <1>1 DEF PmmFindsRun
  <1> QED BY <1>3, <1>4, <1>5 DEF PmmInv

\* A free run leaves the free pages and is handed out.
LEMMA TakenOut ==
    ASSUME HeldWell, NEW run, IsRun(run), run \subseteq page_free,
           page_free' = page_free \ run, held' = held \cup {run}
    PROVE  HeldWell'
  <1>1. \A a \in held : a \cap run = {}
    BY DEF HeldWell
  <1>2. \A a \in held' : IsRun(a)
    BY DEF HeldWell
  <1>3. \A a, b \in held' : a = b \/ a \cap b = {}
    BY <1>1 DEF HeldWell
  <1>4. page_free' = PmmPages \ UNION held'
    BY DEF HeldWell
  <1> QED BY <1>2, <1>3, <1>4 DEF HeldWell, IsRun

LEMMA AllocPageKeeps ==
    ASSUME PmmInv, alloc_page
    PROVE  PmmInv'
  <1> DEFINE s == page_freelist
             page == Head(s)
             t == Tail(s)
             n == Len(s)
  <1>1. s \in Seq(PmmPages) /\ Distinct(s) /\ Members(s) = page_free /\ total_free_pages = n
        /\ s # <<>>
    BY DEF PmmInv, ListWell, alloc_page
  <1>2. page_freelist' = t /\ page_free' = page_free \ {page} /\ held' = held \cup {{page}}
        /\ total_free_pages' = total_free_pages - 1 /\ missed' = 0
    BY DEF alloc_page
  <1>3. /\ n \in Nat /\ n >= 1 /\ DOMAIN s = 1 .. n /\ page = s[1] /\ t \in Seq(PmmPages)
        /\ Len(t) = n - 1 /\ DOMAIN t = 1 .. n - 1 /\ \A i \in 1 .. n - 1 : t[i] = s[i + 1]
    BY <1>1
  <1> HIDE DEF s, page, t, n
  <1>4. page \in PmmPages /\ page \in page_free
    <2>1. 1 \in DOMAIN s
      BY <1>3
    <2>2. s[1] \in Members(s)
      BY <2>1 DEF Members
    <2>3. Members(s) \subseteq PmmPages
      BY <1>1 DEF Members
    <2> QED BY <1>1, <1>3, <2>2, <2>3
  <1>5. Distinct(t)
    <2> SUFFICES ASSUME NEW i \in 1 .. n - 1, NEW j \in 1 .. n - 1, t[i] = t[j] PROVE i = j
      BY <1>3 DEF Distinct
    <2>1. i + 1 \in 1 .. n /\ j + 1 \in 1 .. n /\ s[i + 1] = s[j + 1]
      BY <1>3
    <2>2. i + 1 = j + 1
      BY <1>1, <1>3, <2>1 DEF Distinct
    <2> QED BY <2>2
  <1>6. Members(t) = Members(s) \ {page}
    <2>1. ASSUME NEW x \in Members(t) PROVE x \in Members(s) \ {page}
      <3>1. PICK i \in 1 .. n - 1 : x = t[i]
        BY <1>3 DEF Members
      <3>2. i + 1 \in 1 .. n /\ 1 \in 1 .. n /\ i + 1 # 1 /\ x = s[i + 1]
        BY <1>3, <3>1
      <3> QED BY <1>1, <1>3, <3>2 DEF Members, Distinct
    <2>2. ASSUME NEW x \in Members(s) \ {page} PROVE x \in Members(t)
      <3>1. PICK i \in 1 .. n : x = s[i]
        BY <1>3 DEF Members
      <3>2. i - 1 \in 1 .. n - 1 /\ (i - 1) + 1 = i
        BY <1>3, <3>1
      <3>3. t[i - 1] = x
        BY <1>3, <3>1, <3>2
      <3> QED BY <1>3, <3>2, <3>3 DEF Members
    <2> QED BY <2>1, <2>2
  <1>7. ListWell'
    <2>1. total_free_pages' = Len(t)
      BY <1>1, <1>2, <1>3
    <2>2. Members(t) = page_free'
      BY <1>1, <1>2, <1>6
    <2> QED BY <1>2, <1>3, <1>5, <2>1, <2>2 DEF ListWell
  <1>8. IsRun({page})
    <2>1. page[1] \in Regions /\ page[2] \in 1 .. NumUsable(page[1]) /\ page = <<page[1], page[2]>>
      BY <1>4, PageIs
    <2>2. RunAt(page[1], page[2], 1) = {page}
      <3>1. 0 .. 1 - 1 = {0} /\ page[2] + 0 = page[2]
        BY <2>1
      <3>2. RunAt(page[1], page[2], 1) = {<<page[1], page[2] + 0>>}
        BY <3>1 DEF RunAt
      <3> QED BY <2>1, <3>1, <3>2
    <2>3. page[2] \in Nat \ {0} /\ 1 \in Nat \ {0} /\ page[2] + 1 - 1 <= NumUsable(page[1])
      BY <2>1, EntrySizes
    <2> QED BY <2>1, <2>2, <2>3 DEF IsRun
  <1>9. HeldWell'
    BY <1>2, <1>4, <1>8, TakenOut DEF PmmInv
  <1>10. PmmFindsRun'
    BY <1>2 DEF PmmFindsRun
  <1> QED BY <1>7, <1>9, <1>10 DEF PmmInv

LEMMA AllocRunKeeps ==
    ASSUME PmmInv, NEW n \in 1 .. MaxRun, alloc_contiguous_pages(n)
    PROVE  PmmInv'
  <1> DEFINE found == {r \in Regions : r \notin TooSmall(n) /\ Search(r, n) # 0}
             r == CHOOSE q \in found : \A s \in found : q <= s
             run == RunAt(r, Search(r, n), n)
  <1>0. n \in Nat \ {0}
    BY PmmAssumption
  <1>1. /\ astray' = (\E s \in TooSmall(n) : \A q \in found : s < q)
        /\ IF astray' \/ found = {}
           THEN /\ missed' = (IF astray' THEN 0 ELSE n)
                /\ UNCHANGED <<page_freelist, page_free, total_free_pages, held>>
           ELSE /\ page_freelist' = Select(page_freelist, page_free \ run)
                /\ page_free' = page_free \ run
                /\ total_free_pages' = total_free_pages - n
                /\ held' = held \cup {run}
                /\ missed' = 0
    BY DEF alloc_contiguous_pages
  <1>2. \A q \in Regions : q \notin TooSmall(n) => n <= NumUsable(q)
    BY <1>0, EntrySizes DEF TooSmall
  <1>3. CASE astray' \/ found = {}
    <2>1. UNCHANGED <<page_freelist, page_free, total_free_pages, held>>
          /\ missed' = (IF astray' THEN 0 ELSE n)
      BY <1>1, <1>3
    <2>2. ListWell' /\ HeldWell'
      BY <2>1 DEF PmmInv, ListWell, HeldWell, IsRun
    <2>3. PmmFindsRun'
      <3> SUFFICES ASSUME ~astray', missed' = n, NEW q \in Regions,
                          NEW i \in 1 .. NumUsable(q) + 1 - n
                   PROVE  ~(RunAt(q, i, n) \subseteq page_free)
        BY <2>1 DEF PmmFindsRun, RunAt
      <3>1. found = {}
        BY <1>3
      <3>2. TooSmall(n) = {}
        <4> HIDE DEF found
        <4> QED BY <1>1, <3>1
      <3>3. q \notin TooSmall(n) /\ Search(q, n) = 0
        BY <3>1, <3>2
      <3> QED BY <1>0, <1>2, <3>3, SearchFinds
    <2> QED BY <2>2, <2>3 DEF PmmInv
  <1>4. CASE ~(astray' \/ found = {})
    <2>1. found \in SUBSET Nat /\ found # {}
      BY <1>4, EntrySizes
    <2>2. r \in found
      <3> HIDE DEF found
      <3> QED BY <2>1, LeastElement
    <2>3. page_freelist' = Select(page_freelist, page_free \ run) /\ page_free' = page_free \ run
          /\ total_free_pages' = total_free_pages - n /\ held' = held \cup {run} /\ missed' = 0
      BY <1>1, <1>4
    <2> DEFINE i == Search(r, n)
    <2>4. r \in Regions /\ i # 0 /\ n <= NumUsable(r)
      BY <1>2, <2>2
    <2> HIDE DEF r, found
    <2>5. i \in Nat \ {0} /\ i + n - 1 <= NumUsable(r) /\ RunAt(r, i, n) \subseteq page_free
      BY <1>0, <2>4, SearchFinds
    <2> HIDE DEF i
    <2>6. run = RunAt(r, i, n) /\ IsRun(run) /\ run \subseteq page_free
      BY <1>0, <2>4, <2>5 DEF IsRun, i
    <2>7. IsFiniteSet(run) /\ Cardinality(run) = n
      BY <1>0, <2>4, <2>5, <2>6, RunIs
    <2> HIDE DEF run
    <2>8. HeldWell'
      BY <2>3, <2>6, TakenOut DEF PmmInv
    <2> DEFINE s == page_freelist
               t == Select(s, page_free \ run)
    <2>9. s \in Seq(PmmPages) /\ Distinct(s) /\ Members(s) = page_free /\ total_free_pages = Len(s)
      BY DEF PmmInv, ListWell
    <2>10. t \in Seq(PmmPages) /\ Distinct(t) /\ Members(t) = page_free \ run
      BY <2>9, SelectDistinct
    <2> HIDE DEF s, t
    <2>11. Len(t) = Len(s) - n
      <3>1. IsFiniteSet(page_free) /\ Cardinality(page_free) = Len(s)
        BY <2>9, CountMembers
      <3>2. IsFiniteSet(page_free \ run) /\ Cardinality(page_free \ run) = Len(t)
        BY <2>10, CountMembers
      <3>3. (page_free \ run) \cup run = page_free /\ (page_free \ run) \cap run = {}
        BY <2>6
      <3>4. Cardinality(page_free) = Cardinality(page_free \ run) + Cardinality(run) - Cardinality({})
        BY <2>7, <3>2, <3>3, FS_Union
      <3>5. Len(s) = Len(t) + n - 0 /\ Len(t) \in Nat /\ Len(s) \in Nat
        BY <2>7, <2>9, <2>10, <3>1, <3>2, <3>4, FS_EmptySet
      <3> QED BY <1>0, <3>5
    <2>12. ListWell'
      <3>1. page_freelist' = t /\ total_free_pages' = Len(t) /\ Members(t) = page_free'
        BY <2>3, <2>9, <2>10, <2>11 DEF s, t
      <3> QED BY <2>10, <3>1 DEF ListWell
    <2>13. PmmFindsRun'
      BY <2>3 DEF PmmFindsRun
    <2> QED BY <2>8, <2>12, <2>13 DEF PmmInv
  <1> QED BY <1>3, <1>4

\* The pages that freeing a run puts back, from the last to the first.
FirstFrame(run) == Pfn(CHOOSE p \in run : \A q \in run : p[2] <= q[2])
Backwards(run, n) == [k \in 1 .. n |-> find_page(FirstFrame(run) + n - k)]

\* Every frame of a run is found.
LEMMA BackIs ==
    ASSUME NEW r \in Regions, NEW i \in Nat \ {0}, NEW m \in Nat \ {0},
           i + m - 1 <= NumUsable(r), NEW run, run = RunAt(r, i, m)
    PROVE  /\ Cardinality(run) = m
           /\ Backwards(run, m) \in Seq(PmmPages) /\ Distinct(Backwards(run, m))
           /\ Len(Backwards(run, m)) = m /\ Members(Backwards(run, m)) = run
           /\ {Backwards(run, m)[k] : k \in 1 .. m} = run
  <1> DEFINE low == CHOOSE p \in run : \A q \in run : p[2] <= q[2]
             back == [k \in 1 .. m |-> find_page(Pfn(low) + m - k)]
  <1>0. /\ RunAt(r, i, m) \subseteq PmmPages /\ Cardinality(RunAt(r, i, m)) = m
        /\ \A j \in 0 .. m - 1 : <<r, i + j>> \in RunAt(r, i, m) /\ i + j \in 1 .. NumUsable(r)
        /\ \A p \in RunAt(r, i, m) : \E j \in 0 .. m - 1 : p = <<r, i + j>>
    BY RunIs
  <1>1. Cardinality(run) = m /\ run \subseteq PmmPages
        /\ \A j \in 0 .. m - 1 : <<r, i + j>> \in run /\ i + j \in 1 .. NumUsable(r)
    BY <1>0
  <1>9. \A p \in run : \E j \in 0 .. m - 1 : p = <<r, i + j>>
    BY <1>0
  <1>2. low = <<r, i>>
    <2>1. 0 \in 0 .. m - 1 /\ i + 0 = i
      OBVIOUS
    <2>2. <<r, i>> \in run
      BY <1>1, <2>1
    <2>3. ASSUME NEW q \in run PROVE <<r, i>>[2] <= q[2]
      <3>1. PICK j \in 0 .. m - 1 : q = <<r, i + j>>
        BY <1>9
      <3>2. q[2] = i + j
        BY ONLY <3>1
      <3> QED BY <3>2
    <2>4. low \in run /\ \A q \in run : low[2] <= q[2]
      BY <2>2, <2>3
    <2> HIDE DEF low
    <2>5. PICK j \in 0 .. m - 1 : low = <<r, i + j>>
      BY <1>9, <2>4
    <2>6. i + j <= i
      <3>1. low[2] = i + j
        BY ONLY <2>5
      <3>2. low[2] <= <<r, i>>[2]
        BY <2>2, <2>4
      <3> QED BY <3>1, <3>2
    <2>7. j = 0
      BY <2>6
    <2> QED BY <2>5, <2>7
  <1>3. ASSUME NEW k \in 1 .. m
        PROVE  m - k \in 0 .. m - 1 /\ find_page(Pfn(low) + m - k) = <<r, i + (m - k)>>
    <2>1. m - k \in 0 .. m - 1 /\ 0 \in 0 .. m - 1 /\ i + 0 = i
      OBVIOUS
    <2>2. i + (m - k) \in 1 .. NumUsable(r) /\ i \in 1 .. NumUsable(r)
      BY <1>1, <2>1
    <2>3. Pfn(<<r, i>>) = Base(r) + NumReserved(r) + i - 1
      BY <2>2, PageOf
    <2>4. Pfn(<<r, i + (m - k)>>) = Base(r) + NumReserved(r) + (i + (m - k)) - 1
      BY <2>2, PageOf
    <2>5. Base(r) \in Nat /\ NumReserved(r) \in Nat
      BY EntrySizes
    <2> DEFINE x == Pfn(<<r, i>>)
               y == Pfn(<<r, i + (m - k)>>)
               b == Base(r)
               v == NumReserved(r)
    <2> HIDE DEF x, y, b, v
    <2>6. x = b + v + i - 1 /\ y = b + v + (i + (m - k)) - 1 /\ b \in Nat /\ v \in Nat
      BY <2>3, <2>4, <2>5 DEF x, y, b, v
    <2>7. x + m - k = y
      BY <2>6
    <2>8. find_page(y) = <<r, i + (m - k)>>
      BY <2>2, FrameFound DEF y
    <2> QED BY <1>2, <2>1, <2>7, <2>8 DEF x
  <1>4. /\ DOMAIN back = 1 .. m /\ \A k \in 1 .. m : back[k] = <<r, i + (m - k)>> /\ back[k] \in run
    BY <1>1, <1>3
  <1>5. back \in Seq(PmmPages) /\ Len(back) = m
    BY <1>1, <1>4
  <1> HIDE DEF back, low
  <1>6. Distinct(back)
    <2> SUFFICES ASSUME NEW k \in 1 .. m, NEW l \in 1 .. m, back[k] = back[l] PROVE k = l
      BY <1>4 DEF Distinct
    <2>1. <<r, i + (m - k)>> = <<r, i + (m - l)>>
      BY <1>4
    <2>2. i + (m - k) = i + (m - l)
      BY ONLY <2>1
    <2> QED BY <2>2
  <1>7. ASSUME NEW p \in run PROVE \E k \in 1 .. m : back[k] = p
    <2>1. PICK j \in 0 .. m - 1 : p = <<r, i + j>>
      BY <1>9
    <2>2. m - j \in 1 .. m /\ m - (m - j) = j
      OBVIOUS
    <2>3. back[m - j] = p
      BY <1>4, <2>1, <2>2
    <2> QED BY <2>2, <2>3
  <1>8. Members(back) = run /\ {back[k] : k \in 1 .. m} = run
    BY <1>4, <1>7 DEF Members
  <1>10. Backwards(run, m) = back
    BY DEF Backwards, FirstFrame, back, low
  <1> QED BY <1>1, <1>5, <1>6, <1>8, <1>10

LEMMA FreeKeeps ==
    ASSUME PmmInv, NEW run \in held, free_pages(run)
    PROVE  PmmInv'
  <1> DEFINE n == Cardinality(run)
             back == Backwards(run, n)
             s == page_freelist
  <1>1. PICK r \in Regions, i \in Nat \ {0}, m \in Nat \ {0} :
                i + m - 1 <= NumUsable(r) /\ run = RunAt(r, i, m)
    BY DEF PmmInv, HeldWell, IsRun
  <1>2. /\ n = m /\ back \in Seq(PmmPages) /\ Distinct(back) /\ Len(back) = m
        /\ Members(back) = run /\ {back[k] : k \in 1 .. n} = run
    <2>1. /\ n = m
          /\ Backwards(run, m) \in Seq(PmmPages) /\ Distinct(Backwards(run, m))
          /\ Len(Backwards(run, m)) = m /\ Members(Backwards(run, m)) = run
          /\ {Backwards(run, m)[k] : k \in 1 .. m} = run
      BY <1>1, BackIs
    <2> HIDE DEF n
    <2> QED BY <2>1
  <1>3. page_freelist' = back \o s /\ page_free' = page_free \cup {back[k] : k \in 1 .. n}
        /\ total_free_pages' = total_free_pages + n /\ held' = held \ {run} /\ missed' = 0
    BY DEF free_pages, Freed, Backwards, FirstFrame
  <1> HIDE DEF n, back
  <1>4. s \in Seq(PmmPages) /\ Distinct(s) /\ Members(s) = page_free /\ total_free_pages = Len(s)
    BY DEF PmmInv, ListWell
  <1>5. run \cap page_free = {}
    BY DEF PmmInv, HeldWell
  <1>6. /\ back \o s \in Seq(PmmPages) /\ Distinct(back \o s)
        /\ Members(back \o s) = run \cup page_free /\ Len(back \o s) = m + Len(s)
    <2>1. Members(back) \cap Members(s) = {}
      BY <1>2, <1>4, <1>5
    <2> HIDE DEF s
    <2> QED BY <1>2, <1>4, <2>1, ConcatDistinct
  <1>7. ListWell'
    <2>1. Len(s) \in Nat
      BY <1>4
    <2>2. total_free_pages' = Len(back \o s)
      BY <1>1, <1>2, <1>3, <1>4, <1>6, <2>1
    <2>3. page_free' = run \cup page_free
      BY <1>2, <1>3
    <2> QED BY <1>3, <1>6, <2>2, <2>3 DEF ListWell
  <1>8. HeldWell'
    <2>1. \A a \in held' : IsRun(a)
      BY <1>3 DEF PmmInv, HeldWell
    <2>2. \A a, b \in held' : a = b \/ a \cap b = {}
      BY <1>3 DEF PmmInv, HeldWell
    <2>3. run \subseteq PmmPages
      BY <1>1, RunIs
    <2>4. \A a \in held' : a \cap run = {}
      BY <1>3 DEF PmmInv, HeldWell
    <2>5. UNION held = run \cup UNION held'
      BY <1>3
    <2>6. page_free' = PmmPages \ UNION held'
      <3>1. page_free' = page_free \cup run /\ page_free = PmmPages \ UNION held
        BY <1>2, <1>3 DEF PmmInv, HeldWell
      <3> QED BY <2>3, <2>4, <2>5, <3>1
    <2> QED BY <2>1, <2>2, <2>6 DEF HeldWell, IsRun
  <1>9. PmmFindsRun'
    BY <1>3 DEF PmmFindsRun
  <1> QED BY <1>7, <1>8, <1>9 DEF PmmInv

\* The page allocator, for every memory map, page size and length of a run: the
\* free list has each page that nobody holds once, freeing finds the page of
\* every frame, no page is outside its entry, and a search for a run of pages
\* that fails has overlooked none.
THEOREM PagesAllocated == PmmSpec => []PmmSafe
  <1>1. PmmInit => PmmInv
    BY PmmInitWell
  <1>2. PmmInv /\ [PmmNext]_pmm_vars => PmmInv'
    <2> SUFFICES ASSUME PmmInv, [PmmNext]_pmm_vars PROVE PmmInv'
      OBVIOUS
    <2>1. CASE UNCHANGED pmm_vars
      <3>1. UNCHANGED <<page_freelist, page_free, total_free_pages, held, missed>>
        BY <2>1 DEF pmm_vars
      <3>2. ListWell' /\ HeldWell'
        BY <3>1 DEF PmmInv, ListWell, HeldWell, IsRun
      <3>3. PmmFindsRun'
        BY <3>1 DEF PmmInv, PmmFindsRun
      <3> QED BY <3>2, <3>3 DEF PmmInv
    <2>2. CASE PmmNext
      BY <2>2, AllocPageKeeps, AllocRunKeeps, FreeKeeps DEF PmmNext
    <2> QED BY <2>1, <2>2
  <1>3. PmmInv => PmmSafe
    <2> SUFFICES ASSUME PmmInv PROVE PmmExact /\ PmmInside
      BY DEF PmmInv, PmmSafe
    <2>1. PmmExact
      <3>1. Cardinality(page_free) = Len(page_freelist)
        BY CountMembers DEF PmmInv, ListWell
      <3> QED BY <3>1 DEF PmmExact, PmmInv, ListWell, HeldWell, Members
    <2>2. page_free \cup UNION held \subseteq PmmPages
      <3>1. \A run \in held : run \subseteq PmmPages
        BY RunIs DEF PmmInv, HeldWell, IsRun
      <3> QED BY <3>1 DEF PmmInv, HeldWell
    <2>3. PmmInside
      BY <2>2, EntryInside, FramesDistinct DEF PmmInside, Base
    <2> QED BY <2>1, <2>3
  <1> QED BY <1>1, <1>2, <1>3, PTL DEF PmmSpec
=============================================================================
