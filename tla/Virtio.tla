------------------------------- MODULE Virtio -------------------------------
(***************************************************************************)
(* The virtio queues (dev/virtio.cpp): the block device with its requests, *)
(* and the receive side of the network device with the I/O service         *)
(* (dev/io_service.cpp) that works on what the interrupt handler pushes.   *)
(*                                                                         *)
(* Threads call read_write_block with interrupts on, so an interrupt or    *)
(* another thread may come between two of its steps; the coroutine of      *)
(* read_write_blocks calls it again from the handler of the interrupt.     *)
(* The device (external) takes what is available and returns it in any     *)
(* order.  A handler takes one used entry per step.                        *)
(***************************************************************************)
EXTENDS Naturals, Sequences, FiniteSets

CONSTANTS VioCallers,  \* threads that read or write blocks
          BlockLength, RxLength, \* descriptors of the two queues, 128 in the code
          IndexWord,   \* ring indices are integers modulo IndexWord, 2^16 in the code
          MaxChains,   \* bound on the chains that are submitted
          MaxBurst     \* receive buffers the device returns before an interrupt

\* A burst of RxLength buffers would look like none to rx_irq.
ASSUME VirtioAssumption ==
    /\ {BlockLength, RxLength, IndexWord} \subseteq Nat \ {0}
    /\ \A n \in {BlockLength, RxLength} : IndexWord % n = 0
    /\ IndexWord > RxLength /\ MaxChains \in Nat
    /\ MaxBurst \in 1 .. RxLength - 1

VARIABLES vio_queue,  \* queue of the block device
          vio_call,   \* read_write_block of each caller, with its request
          vio_rx,     \* receive queue of the network device
          vio_io      \* IoService: task list and thread

vio_vars == <<vio_queue, vio_call, vio_rx, vio_io>>

\* "length" stands for no descriptor.  Entries of the rings that were taken are
\* never read again; the model resets them to 0.
Queue_init(length) ==
    LET zero == [i \in 0 .. length - 1 |-> 0] IN
    [length |-> length, next |-> [i \in 0 .. length - 1 |-> i + 1],
     free_desc_index |-> 0, num_free_descs |-> length, last_seen_used |-> 0,
     avail |-> zero, avail_index |-> 0, used |-> zero, used_index |-> 0,
     dev_index |-> 0, held |-> {}, chains |-> 0]              \* the device's side

alloc_descriptor(q) ==
    [q EXCEPT !.free_desc_index = q.next[@], !.num_free_descs = @ - 1]

\* Mutant: the descriptor is not linked to the rest of the list.
free_descriptor_unlinked(q, i) ==
    [q EXCEPT !.free_desc_index = i, !.num_free_descs = @ + 1]

free_descriptor(q, i) ==
    [q EXCEPT !.next[i] = q.free_desc_index, !.free_desc_index = i,
              !.num_free_descs = @ + 1]

submit_descriptor(q, i) ==
    [q EXCEPT !.avail[q.avail_index % q.length] = i,
              !.avail_index = (@ + 1) % IndexWord]

\* All receive descriptors are given to the device, each with its page.
NetDevice_init ==
    LET after[k \in 0 .. RxLength] ==
          IF k = 0 THEN Queue_init(RxLength)
          ELSE submit_descriptor(alloc_descriptor(after[k - 1]), after[k - 1].free_desc_index)
    IN  after[RxLength]

Idle == [pc |-> "idle", held |-> <<>>]
VioInit ==
    /\ vio_queue = Queue_init(BlockLength)
    /\ vio_call = [c \in VioCallers |-> Idle]
    /\ vio_rx = NetDevice_init
    /\ vio_io = [tasks |-> <<>>, pc |-> "pop", task |-> RxLength]
-----------------------------------------------------------------------------
\* BlockDevice::read_write_block: a request (there are more of them than
\* chains, so one is free), three descriptors, the chain, submission.  The
\* first descriptor holds the address of the request, hence the caller.
read_write_block(c) ==
    /\ vio_call[c].pc = "idle"
    /\ vio_call' = [vio_call EXCEPT ![c].pc = "allocating"]
    /\ UNCHANGED <<vio_queue, vio_rx, vio_io>>

allocate(c) ==
    /\ vio_call[c].pc = "allocating" /\ Len(vio_call[c].held) < 3
    /\ vio_queue.free_desc_index # BlockLength
    /\ vio_call' = [vio_call EXCEPT ![c].held = Append(@, vio_queue.free_desc_index)]
    /\ vio_queue' = alloc_descriptor(vio_queue)
    /\ UNCHANGED <<vio_rx, vio_io>>

\* Gives back in reverse order, one descriptor at a time.
fail(c) ==
    LET held == vio_call[c].held IN
    /\ \/ /\ vio_call[c].pc = "allocating" /\ Len(held) < 3
          /\ vio_queue.free_desc_index = BlockLength
       \/ vio_call[c].pc = "failing"
    /\ IF held = <<>>
       THEN /\ vio_call' = [vio_call EXCEPT ![c] = Idle]
            /\ UNCHANGED vio_queue
       ELSE /\ vio_call' = [vio_call EXCEPT ![c] =
                              [pc |-> "failing", held |-> SubSeq(held, 1, Len(held) - 1)]]
            /\ vio_queue' = free_descriptor(vio_queue, held[Len(held)])
    /\ UNCHANGED <<vio_rx, vio_io>>

Linked(q, held) == [q EXCEPT !.next[held[1]] = held[2], !.next[held[2]] = held[3],
                             !.chains = @ + 1]
submit(c) ==
    LET held == vio_call[c].held IN
    /\ vio_call[c].pc = "allocating" /\ Len(held) = 3 /\ vio_queue.chains < MaxChains
    /\ vio_queue' = submit_descriptor(Linked(vio_queue, held), held[1])
    /\ vio_call' = [vio_call EXCEPT ![c].pc = "waiting"]
    /\ UNCHANGED <<vio_rx, vio_io>>

\* The whole call from the handler: it fails without a trace when fewer than
\* three descriptors are free.
CallAgain(q) ==
    LET d1 == q.free_desc_index   q1 == alloc_descriptor(q)
        d2 == q1.free_desc_index  q2 == alloc_descriptor(q1)
        d3 == q2.free_desc_index  q3 == alloc_descriptor(q2)
    IN  [call |-> [pc |-> "waiting", held |-> <<d1, d2, d3>>],
         queue |-> submit_descriptor(Linked(q3, <<d1, d2, d3>>), d1)]

FreeChain(q, desc) ==
    free_descriptor(free_descriptor(free_descriptor(q, q.next[q.next[desc]]), q.next[desc]), desc)

Seen(q) == [q EXCEPT !.used[q.last_seen_used] = 0,
                     !.last_seen_used = (@ + 1) % q.length]

\* BlockDevice::irq, one used entry.  The callback comes first: it may have
\* submitted another chain when this one is freed.
block_irq ==
    LET q == vio_queue
        desc == q.used[q.last_seen_used]
        owner == {c \in VioCallers : /\ vio_call[c].pc = "waiting"
                                     /\ vio_call[c].held[1] = desc}
    IN  /\ q.last_seen_used # q.used_index % q.length
        /\ \E c \in owner :
              \/ /\ vio_call' = [vio_call EXCEPT ![c] = Idle]
                 /\ vio_queue' = Seen(FreeChain(q, desc))
              \/ /\ q.num_free_descs >= 3 /\ q.chains < MaxChains
                 /\ vio_call' = [vio_call EXCEPT ![c] = CallAgain(q).call]
                 /\ vio_queue' = Seen(FreeChain(CallAgain(q).queue, desc))
        /\ UNCHANGED <<vio_rx, vio_io>>
-----------------------------------------------------------------------------

\* NetDevice::rx_irq, one used entry, and IoService::push.  The trigger is
\* dropped unless the service thread already waits.
rx_irq ==
    /\ vio_rx.last_seen_used # vio_rx.used_index % RxLength
    /\ vio_io' = [vio_io EXCEPT !.tasks = Append(@, vio_rx.used[vio_rx.last_seen_used]),
                                !.pc = IF @ = "waits" THEN "pop" ELSE @]
    /\ vio_rx' = Seen(vio_rx)
    /\ UNCHANGED <<vio_queue, vio_call>>

\* IoService::pop in thread_loop.
pop ==
    /\ vio_io.pc = "pop"
    /\ vio_io' = IF vio_io.tasks = <<>> THEN [vio_io EXCEPT !.pc = "empty"]
                 ELSE [tasks |-> Tail(vio_io.tasks), pc |-> "task", task |-> Head(vio_io.tasks)]
    /\ UNCHANGED <<vio_queue, vio_call, vio_rx>>
wait_queue_event ==
    /\ vio_io.pc = "empty"
    /\ vio_io' = [vio_io EXCEPT !.pc = "waits"]
    /\ UNCHANGED <<vio_queue, vio_call, vio_rx>>

\* The task: eth_process, then the buffer goes back to the device.
rx_task ==
    /\ vio_io.pc = "task"
    /\ vio_rx' = submit_descriptor(vio_rx, vio_io.task)
    /\ vio_io' = [vio_io EXCEPT !.pc = "pop", !.task = RxLength]
    /\ UNCHANGED <<vio_queue, vio_call>>
-----------------------------------------------------------------------------
Unseen(q) == (q.used_index + q.length - q.last_seen_used) % q.length
DeviceTakes(q) == [q EXCEPT !.held = @ \cup {q.avail[q.dev_index % q.length]},
                            !.avail[q.dev_index % q.length] = 0,
                            !.dev_index = (@ + 1) % IndexWord]
DeviceReturns(q, i) == [q EXCEPT !.held = @ \ {i}, !.used[q.used_index % q.length] = i,
                                 !.used_index = (@ + 1) % IndexWord]
block_device ==
    /\ \/ vio_queue.dev_index # vio_queue.avail_index /\ vio_queue' = DeviceTakes(vio_queue)
       \/ \E i \in vio_queue.held : vio_queue' = DeviceReturns(vio_queue, i)
    /\ UNCHANGED <<vio_call, vio_rx, vio_io>>
net_device ==
    /\ \/ vio_rx.dev_index # vio_rx.avail_index /\ vio_rx' = DeviceTakes(vio_rx)
       \/ \E i \in vio_rx.held :
             Unseen(vio_rx) < MaxBurst /\ vio_rx' = DeviceReturns(vio_rx, i)
    /\ UNCHANGED <<vio_queue, vio_call, vio_io>>

BlockNext ==
    \/ \E c \in VioCallers : read_write_block(c) \/ allocate(c) \/ fail(c) \/ submit(c)
    \/ block_irq
    \/ block_device
RxNext == rx_irq \/ pop \/ wait_queue_event \/ rx_task \/ net_device

VioNext == BlockNext \/ RxNext

VioSpec == VioInit /\ [][VioNext]_vio_vars
-----------------------------------------------------------------------------
\* The free list of the block queue, the descriptors that calls hold and the
\* chains on their way through the device are disjoint and lose no descriptor,
\* whatever the order of failing calls, completions and calls from the handler;
\* num_free_descs is the length of the list.
FreeList(q) ==
    LET walk[k \in 0 .. q.length] ==
          IF k = 0 THEN q.free_desc_index
          ELSE LET i == walk[k - 1] IN IF i = q.length THEN i ELSE q.next[i]
    IN  {walk[k] : k \in 0 .. q.num_free_descs - 1}
HeldBy(c) == {vio_call[c].held[i] : i \in DOMAIN vio_call[c].held}
VioDescriptors ==
    /\ FreeList(vio_queue) \cup UNION {HeldBy(c) : c \in VioCallers} = 0 .. BlockLength - 1
    /\ Cardinality(FreeList(vio_queue)) = vio_queue.num_free_descs
    /\ \A c \in VioCallers : FreeList(vio_queue) \cap HeldBy(c) = {}
    /\ \A c, d \in VioCallers : c # d => HeldBy(c) \cap HeldBy(d) = {}

\* What the device has returned always belongs to a caller that waits, whose
\* chain is still linked as it was submitted: the handler finds the request and
\* the three descriptors of that caller and nobody else's.
UsedUnseen(q) == {q.used[(q.last_seen_used + k) % q.length] : k \in 0 .. Unseen(q) - 1}
VioCompletion ==
    /\ \A desc \in UsedUnseen(vio_queue) \cup vio_queue.held :
          \E c \in VioCallers : /\ vio_call[c].pc = "waiting" /\ vio_call[c].held[1] = desc
                                /\ vio_queue.next[desc] = vio_call[c].held[2]
                                /\ vio_queue.next[vio_call[c].held[2]] = vio_call[c].held[3]
    /\ UsedUnseen(vio_queue) \cap vio_queue.held = {}

\* Every receive buffer is in exactly one place: with the device, returned and
\* not yet seen, in a task, or in the task being worked on.  No buffer is lost
\* and none is given to the device while its packet is still processed.
InTasks == {vio_io.tasks[i] : i \in DOMAIN vio_io.tasks}
WithDevice == vio_rx.held \cup
    {vio_rx.avail[(vio_rx.dev_index + k) % RxLength] :
       k \in 0 .. ((vio_rx.avail_index + IndexWord - vio_rx.dev_index) % IndexWord) - 1}
VioBuffers ==
    LET working == {vio_io.task} \ {RxLength}
        parts == <<WithDevice, UsedUnseen(vio_rx), InTasks, working>>
    IN  /\ UNION {parts[i] : i \in DOMAIN parts} = 0 .. RxLength - 1
        /\ \A i, j \in DOMAIN parts : i # j => parts[i] \cap parts[j] = {}
        /\ Len(vio_io.tasks) = Cardinality(InTasks)

\* virtio: descriptors, completions and receive buffers.
VioSafe == VioDescriptors /\ VioCompletion /\ VioBuffers
=============================================================================
