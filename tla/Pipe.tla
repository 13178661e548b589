-------------------------------- MODULE Pipe --------------------------------
(***************************************************************************)
(* Pipes and FIFOs (userland/pipe.cpp) with the blocking loops of read,    *)
(* write and ppoll (fs/vfs.cpp) on top of Event.  The buffer is reduced to *)
(* the number of bytes in it.                                              *)
(*                                                                         *)
(* A call runs with interrupts off between two waits, so a loop that finds *)
(* remembered triggers consumes them all before it blocks.  A thread may   *)
(* close the description another thread is blocked on; the loop goes on    *)
(* with the freed object, whose flags stay as they were because klib::free *)
(* does nothing.                                                           *)
(***************************************************************************)
EXTENDS Event

CONSTANTS Pipe,       \* the pipe's event
          ReadEnds, WriteEnds,  \* the descriptions that may be open; O_RDWR is in both
          Nonblock,   \* those opened with O_NONBLOCK
          Capacity,   \* Pipe::capacity
          Counts      \* the counts of reads and writes

Ends == ReadEnds \cup WriteEnds

ASSUME PipeAssumption ==
    /\ Pipe \in Events /\ Nonblock \subseteq Ends
    /\ Capacity \in Nat \ {0} /\ Counts \subseteq Nat \ {0}
    /\ MaxTriggers > 0
ASSUME FiniteAssumption == IsFiniteSet(Threads) /\ IsFiniteSet(Ends)

VARIABLES data,     \* ring_buffer.data_count()
          readers, writers,
          open,     \* the descriptions that exist
          call      \* the call each thread is in

pipeVars == <<data, readers, writers, open, call>>
vars == <<eventVars, pipeVars>>

NoCall == [op |-> "none"]
Calls == {NoCall} \cup
         [op : {"read"}, fd : ReadEnds, count : Counts] \cup
         [op : {"write"}, fd : WriteEnds, count : Counts] \cup
         [op : {"poll"}, fd : Ends]

\* pipe_impl: both ends open.
Init ==
    /\ EventInit
    /\ data = 0
    /\ \E r \in ReadEnds \ WriteEnds, w \in WriteEnds \ ReadEnds : open = {r, w}
    /\ readers = 1 /\ writers = 1
    /\ call = [t \in Threads |-> NoCall]

AllListeners == Cardinality(Threads)

least(a, b) == IF a <= b THEN a ELSE b

\* What ends the loop of the call: the conditions of read, of write and of
\* poll for POLLIN on a read end and POLLOUT on a write end; poll looks its
\* descriptor up again in every pass and reports POLLNVAL for a closed one.
Ready(c) ==
    \/ c.op = "read" /\ (data > 0 \/ writers = 0)
    \/ c.op = "write" /\ (readers = 0 \/ data < Capacity)
    \/ c.op = "poll" /\ c.fd \notin open
    \/ c.op = "poll" /\ c.fd \in ReadEnds /\ (writers = 0 \/ data > 0)
    \/ c.op = "poll" /\ c.fd \in WriteEnds /\ (readers = 0 \/ data < Capacity)

\* The bytes a ready call adds to the buffer.
Transfer(c) ==
    IF c.op = "read" THEN 0 - least(c.count, data)
    ELSE IF c.op = "write" /\ readers > 0 THEN least(c.count, Capacity - data)
    ELSE 0

\* A read at end of file, a write without readers and poll trigger nothing.
Triggers(c) ==
    (c.op = "read" /\ data > 0) \/ (c.op = "write" /\ readers > 0)

\* The call ends: its thread leaves the listener lists and returns.
Return(t) ==
    /\ clear_listeners(t)
    /\ call' = [call EXCEPT ![t] = NoCall]

\* Mutant: a call that changes the buffer wakes nobody.
complete_silently(t, c) ==
    /\ Ready(c)
    /\ Return(t)
    /\ data' = data + Transfer(c)
    /\ UNCHANGED <<state, pending, which, by_signal, signals, readers, writers,
                   open>>

complete(t, c) ==
    /\ Ready(c)
    /\ Return(t)
    /\ data' = data + Transfer(c)
    /\ IF Triggers(c)
       THEN trigger(Cleared(t), Pipe, FALSE, AllListeners)
       ELSE UNCHANGED <<state, pending, which, by_signal>>
    /\ UNCHANGED <<signals, readers, writers, open>>

\* -EWOULDBLOCK
would_block(t, c) ==
    /\ ~Ready(c)
    /\ c.op # "poll" /\ c.fd \in Nonblock
    /\ Return(t)
    /\ UNCHANGED <<state, pending, which, by_signal, signals, data, readers,
                   writers, open>>

\* -EINTR at the entry of Event::wait
interrupted(t, c) ==
    /\ ~Ready(c) /\ signals[t]
    /\ c.op = "poll" \/ c.fd \notin Nonblock
    /\ Return(t)
    /\ UNCHANGED <<state, pending, which, by_signal, signals, data, readers,
                   writers, open>>

sleep(t, c) ==
    /\ ~Ready(c) /\ ~signals[t]
    /\ c.op = "poll" \/ c.fd \notin Nonblock
    /\ pending' = [pending EXCEPT ![Pipe] = 0]
    /\ block(t, <<Pipe>>)
    /\ call' = [call EXCEPT ![t] = c]
    /\ UNCHANGED <<which, by_signal, signals, data, readers, writers, open>>

\* One pass through the loop of the call c.
loop(t, c) ==
    complete(t, c) \/ would_block(t, c) \/ interrupted(t, c) \/ sleep(t, c)

\* A system call on an open description.
syscall(t, c) ==
    /\ Runs(t) /\ c \in Calls \ {NoCall} /\ c.fd \in open
    /\ Ready(c) /\ Triggers(c) => CanTrigger(Pipe)
    /\ loop(t, c)

\* Event::wait returns to the loop.
resume(t) ==
    /\ state[t] = "READY" /\ listens[t] # <<>>
    /\ ~by_signal[t]
    /\ loop(t, call[t])

\* Event::wait returns -EINTR.
resume_interrupted(t) ==
    /\ state[t] = "READY" /\ listens[t] # <<>>
    /\ by_signal[t]
    /\ Return(t)
    /\ UNCHANGED <<state, pending, which, by_signal, signals, data, readers,
                   writers, open>>

\* Pipe::open, of a FIFO that has a name.
open_end(t, d) ==
    /\ Runs(t) /\ d \notin open /\ \A u \in Threads : call[u].op # "none" => call[u].fd # d
    /\ open' = open \cup {d}
    /\ readers' = IF d \in ReadEnds THEN readers + 1 ELSE readers
    /\ writers' = IF d \in WriteEnds THEN writers + 1 ELSE writers
    /\ UNCHANGED <<eventVars, data, call>>

\* Mutant: closing a write end does not count it.
close_uncounted(t, d) ==
    /\ Runs(t) /\ d \in open /\ CanTrigger(Pipe)
    /\ open' = open \ {d}
    /\ readers' = IF d \in ReadEnds THEN readers - 1 ELSE readers
    /\ trigger(queue, Pipe, FALSE, AllListeners)
    /\ UNCHANGED <<queue, listens, signals, data, writers, call>>

\* Pipe::close
close(t, d) ==
    /\ Runs(t) /\ d \in open /\ CanTrigger(Pipe)
    /\ open' = open \ {d}
    /\ readers' = IF d \in ReadEnds THEN readers - 1 ELSE readers
    /\ writers' = IF d \in WriteEnds THEN writers - 1 ELSE writers
    /\ trigger(queue, Pipe, FALSE, AllListeners)
    /\ UNCHANGED <<queue, listens, signals, data, call>>

Next ==
    \E t \in Threads :
        \/ \E c \in Calls : syscall(t, c)
        \/ resume(t)
        \/ resume_interrupted(t)
        \/ \E d \in Ends : open_end(t, d) \/ close(t, d)
        \/ \E masked \in BOOLEAN : send_signal(t, masked) /\ UNCHANGED pipeVars
        \/ (dispatch_signal(t) \/ terminate_thread(t) \/ create(t)) /\ UNCHANGED pipeVars
        \/ destroy(t) /\ call' = [call EXCEPT ![t] = NoCall]
              /\ UNCHANGED <<data, readers, writers, open>>

Spec == Init /\ [][Next]_vars

\* The scheduler gives every ready thread the CPU.
FairSpec ==
    Spec /\ \A t \in Threads : WF_vars(resume(t)) /\ WF_vars(resume_interrupted(t))
-----------------------------------------------------------------------------
TypeOK ==
    /\ EventTypeOK
    /\ data \in 0 .. Capacity
    /\ open \subseteq Ends
    /\ readers \in 0 .. Cardinality(ReadEnds)
    /\ writers \in 0 .. Cardinality(WriteEnds)
    /\ call \in [Threads -> Calls]

\* No thread sleeps in read, write or poll while what it waits for holds: data
\* to read or the end of the file, room to write or no reader left.
NoneStranded == \A t \in Threads : state[t] = "BLOCKED" => ~Ready(call[t])

\* End of file and EPIPE are decided by counters; they count the descriptions
\* that exist, whatever the order of opens and closes.
EndsCounted ==
    /\ readers = Cardinality(open \cap ReadEnds)
    /\ writers = Cardinality(open \cap WriteEnds)

\* A thread in a call whose condition holds returns, unless another thread
\* takes the condition away first or the thread is terminated.
CallReturns ==
    \A t \in Threads :
        (call[t] # NoCall /\ Ready(call[t]))
            ~> (call[t] = NoCall \/ ~Ready(call[t]) \/ state[t] = "ZOMBIE")

\* The counters of the pipe, those of its ring included, stay those of the
\* descriptions that exist and within their bounds.
PipeCounted == TypeOK /\ EndsCounted
=============================================================================
