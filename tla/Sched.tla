------------------------------- MODULE Sched --------------------------------
(***************************************************************************)
(* The scheduler (sched/sched.cpp) of the single-core kernel: the run list *)
(* as linked nodes, thread states, the interrupt that switches threads, the*)
(* signals that wake, stop and terminate threads, and process termination. *)
(*                                                                         *)
(* System calls run with interrupts off until they yield, so each is one   *)
(* step up to that point.  Interrupts arrive in user code, in kernel       *)
(* threads and inside yield.  Two loops run with interrupts off and are    *)
(* taken one iteration per step, with no other step in between: the        *)
(* scheduler's "retry" (in_isr) and terminate_process (dying).             *)
(*                                                                         *)
(* What an event waits for is left open: any blocked thread may be woken.  *)
(* A thread's registers are reduced to whose they are and where they point.*)
(***************************************************************************)
EXTENDS Integers, FiniteSets

CONSTANTS Threads,      \* tids of the threads that may exist (integers)
          Idle,         \* the idle thread
          ListHead,         \* sched_list_head
          NULL,
          KernelMain,   \* the kernel's main thread
          Procs, KernelProc, InitProc,
          ProcOf,       \* the process each thread belongs to
          MainOf,       \* the main thread of each process but the kernel's
          Signals,      \* signals that programs send
          Handled,      \* signals for which programs install a handler
          MaxPending    \* bound: signals from programs pending at a time

AllThreads == Threads \cup {Idle}
Nodes == AllThreads \cup {ListHead}
UserProcs == Procs \ {KernelProc}

SIGKILL == 9
SIGUSR1 == 10
SIGSEGV == 11
SIGCHLD == 17
SIGCONT == 18
SIGSTOP == 19

AllSignals == Signals \cup {SIGCHLD, SIGSEGV}

ASSUME NodeAssumption ==
    /\ Idle \notin Threads /\ ListHead \notin AllThreads /\ NULL \notin Nodes
ASSUME ProcAssumption ==
    /\ KernelProc \in Procs /\ InitProc \in UserProcs
    /\ ProcOf \in [AllThreads -> Procs] /\ ProcOf[Idle] = KernelProc
    /\ KernelMain \in Threads /\ ProcOf[KernelMain] = KernelProc
    /\ MainOf \in [UserProcs -> Threads]
    /\ \A p \in UserProcs : ProcOf[MainOf[p]] = p
ASSUME SignalAssumption == Signals \subseteq Nat
ASSUME BoundAssumption == MaxPending \in Nat
ASSUME ThreadAssumption == IsFiniteSet(Threads)

VARIABLES list,       \* next and prev of every sched_link
          state,      \* Thread::state, "FREE" before the thread is created
          gpr,        \* Thread::gpr_state
          running,    \* cpu->running_thread
          regs,       \* the registers of the interrupted or running code
          ipi,        \* a self interrupt is pending
          in_isr,     \* scheduler_isr is about to retry
          dying,      \* threads terminate_process has still to visit
          pending,    \* Thread::pending_signals
          entering,   \* Thread::entering_signal
          enqueued,   \* whether Thread::enqueued_by_signal is SIGCONT
          parent,     \* Process::parent
          living,     \* Process::num_living_threads
          zombie,     \* Process::is_zombie (its pagemap is deleted)
          active,     \* the process that owns vmm->active_pagemap
          panic       \* what stopped the kernel, if anything did

threadVars == <<pending, entering, enqueued>>
procVars == <<parent, living, zombie, active>>
vars == <<list, state, gpr, running, regs, ipi, in_isr, dying, threadVars,
          procVars, panic>>

States == {"FREE", "READY", "RUNNING", "BLOCKED", "STOPPED", "ZOMBIE"}
Places == {"user", "kernel", "wait", "yield", "dead", "boot"}
Lists == [next : [Nodes -> Nodes \cup {NULL}],
          prev : [Nodes -> Nodes \cup {NULL}]]
Contexts == [tid : AllThreads, at : Places]
Panics == {"none", "pick_assert", "dequeue_assert", "init_died",
           "null_pagemap"}
-----------------------------------------------------------------------------
\* klib::ListHead

is_linked(l, x) == l.next[x] # NULL

\* head->add_before(x): x becomes the last element.
add_before(l, x) ==
    [next |-> [l.next EXCEPT ![l.prev[ListHead]] = x, ![x] = ListHead],
     prev |-> [l.prev EXCEPT ![x] = l.prev[ListHead], ![ListHead] = x]]

\* Mutant: the removed element keeps its own links.
remove_dangling(l, x) ==
    [next |-> [l.next EXCEPT ![l.prev[x]] = l.next[x]],
     prev |-> [l.prev EXCEPT ![l.next[x]] = l.prev[x]]]

remove(l, x) ==
    [next |-> [l.next EXCEPT ![l.prev[x]] = l.next[x], ![x] = NULL],
     prev |-> [l.prev EXCEPT ![l.next[x]] = l.prev[x], ![x] = NULL]]
-----------------------------------------------------------------------------
\* enqueue_thread(t, sig), sig = -1 when an event and not a signal wakes t.
\* A stopped thread is linked again but stays STOPPED until it is picked.

enqueues(st, t, sig) ==
    st[t] = "BLOCKED" \/ (st[t] = "STOPPED" /\ sig = SIGCONT)

enqueue_list(l, st, t, sig) ==
    IF enqueues(st, t, sig) THEN add_before(l, t) ELSE l

enqueue_state(st, t) ==
    IF st[t] = "BLOCKED" THEN [st EXCEPT ![t] = "READY"] ELSE st

enqueue_by(st, t, sig) ==
    IF enqueues(st, t, sig) THEN [enqueued EXCEPT ![t] = (sig = SIGCONT)] ELSE enqueued

\* Thread::send_signal on a list and on states that the caller may have
\* changed already.
send_signal(l, st, t, sig) ==
    /\ list' = enqueue_list(l, st, t, sig)
    /\ state' = enqueue_state(st, t)
    /\ enqueued' = enqueue_by(st, t, sig)

\* What an accepted signal does to its thread.
signal_default_action(sig) ==
    IF sig \in Handled THEN "handler"
    ELSE IF sig = SIGCHLD THEN "ignore"
    ELSE IF sig = SIGCONT THEN "continue"
    ELSE IF sig = SIGSTOP THEN "stop"
    ELSE IF sig = SIGSEGV THEN "core" ELSE "terminate"

First(S) == CHOOSE s \in S : \A u \in S : s <= u

\* Mutant: terminating a process skips its main thread.
LivingThreads_but_main(p) ==
    {t \in Threads : ProcOf[t] = p /\ state[t] \notin {"FREE", "ZOMBIE"}
                     /\ t # MainOf[p]}

LivingThreads(p) ==
    {t \in Threads : ProcOf[t] = p /\ state[t] \notin {"FREE", "ZOMBIE"}}
-----------------------------------------------------------------------------
\* sched::start: the kernel's main thread is ready, kmain is interrupted.
Init ==
    /\ LET links == [x \in Nodes |-> IF x = ListHead THEN KernelMain
                                   ELSE IF x = KernelMain THEN ListHead ELSE NULL]
       IN  list = [next |-> links, prev |-> links]
    /\ state = [t \in AllThreads |->
                  IF t \in {Idle, KernelMain} THEN "READY" ELSE "FREE"]
    /\ gpr = [t \in AllThreads |->
                [tid |-> t,
                 at |-> IF ProcOf[t] = KernelProc THEN "kernel" ELSE "user"]]
    /\ running = NULL
    /\ regs = [tid |-> Idle, at |-> "boot"]
    /\ ipi = FALSE /\ in_isr = FALSE /\ dying = {}
    /\ pending = [t \in AllThreads |-> {}]
    /\ entering = [t \in AllThreads |-> FALSE]
    /\ enqueued = [t \in AllThreads |-> FALSE]
    /\ parent = [p \in Procs |-> InitProc]
    /\ living = [p \in Procs |-> 0]
    /\ zombie = [p \in Procs |-> FALSE]
    /\ active = KernelProc
    /\ panic = "none"

\* No loop with interrupts off is under way.
Open == panic = "none" /\ ~in_isr /\ dying = {}

\* Thread t executes at place `at'.
Executes(t, at) ==
    /\ Open /\ ~ipi
    /\ running = t /\ regs.at = at

\* The executing code moves on to place `at'.
context_at(at) == [tid |-> regs.tid, at |-> at]

\* The end of __syscall_handler: back to user code, with an interrupt when a
\* signal is to be delivered.
syscall_return(t, pend) ==
    /\ regs' = context_at("user")
    /\ entering' = [entering EXCEPT ![t] = @ \/ pend[t] # {}]
    /\ ipi' = (~entering[t] /\ pend[t] # {})

\* kill and tgkill.
kill(t, u, sig) ==
    /\ Executes(t, "user")
    /\ state[u] \notin {"FREE", "ZOMBIE"}
    /\ Cardinality({v \in Threads : pending[v] \cap Signals # {}}) < MaxPending
    /\ pending' = [pending EXCEPT ![u] = @ \cup {sig}]
    /\ send_signal(list, state, u, sig)
    /\ syscall_return(t, pending')
    /\ UNCHANGED <<gpr, running, in_isr, dying, procVars, panic>>

\* Mutant: a thread that blocks does not yield the CPU.
block_without_yield(t) ==
    /\ pending[t] = {}
    /\ \/ /\ state[t] \in {"READY", "RUNNING"}
          /\ list' = remove(list, t)
          /\ state' = [state EXCEPT ![t] = "BLOCKED"]
          /\ regs' = context_at("wait")
          /\ UNCHANGED <<ipi, panic>>
       \/ /\ state[t] \notin {"READY", "RUNNING"}
          /\ panic' = "dequeue_assert"
          /\ UNCHANGED <<list, state, regs, ipi>>
    /\ UNCHANGED <<gpr, running, in_isr, dying, threadVars, procVars>>

\* Event::wait that has to block: dequeue_thread, then yield.
block(t) ==
    /\ pending[t] = {}
    /\ \/ /\ state[t] \in {"READY", "RUNNING"}
          /\ list' = remove(list, t)
          /\ state' = [state EXCEPT ![t] = "BLOCKED"]
          /\ regs' = context_at("wait")
          /\ ipi' = TRUE
          /\ UNCHANGED panic
       \/ /\ state[t] \notin {"READY", "RUNNING"}
          /\ panic' = "dequeue_assert"
          /\ UNCHANGED <<list, state, regs, ipi>>
    /\ UNCHANGED <<gpr, running, in_isr, dying, threadVars, procVars>>

wait(t) ==
    /\ \E at \in {"user", "kernel", "wait"} : Executes(t, at)
    /\ t # Idle
    /\ block(t)

\* Event::wait returns, or does not block at all, and the call ends.
wait_return(t) ==
    /\ \E at \in {"user", "wait", "yield"} : Executes(t, at)
    /\ ProcOf[t] # KernelProc
    /\ syscall_return(t, pending)
    /\ UNCHANGED <<list, state, gpr, running, in_isr, dying, pending,
                   enqueued, procVars, panic>>

kernel_thread_resume(t) ==
    /\ Executes(t, "wait")
    /\ ProcOf[t] = KernelProc
    /\ regs' = context_at("kernel")
    /\ UNCHANGED <<list, state, gpr, running, ipi, in_isr, dying, threadVars,
                   procVars, panic>>

sched_yield(t) ==
    /\ Executes(t, "user")
    /\ regs' = context_at("yield")
    /\ ipi' = TRUE
    /\ UNCHANGED <<list, state, gpr, running, in_isr, dying, threadVars,
                   procVars, panic>>

\* An event is triggered that t waits for, by a device interrupt, by a timer
\* or by the running thread.
trigger(t) ==
    /\ Open
    /\ state[t] = "BLOCKED"
    /\ list' = enqueue_list(list, state, t, -1)
    /\ state' = enqueue_state(state, t)
    /\ enqueued' = enqueue_by(state, t, -1)
    /\ UNCHANGED <<gpr, running, regs, ipi, in_isr, dying, pending, entering,
                   procVars, panic>>

\* Mutant: a new thread is not counted.
start_thread_uncounted(u) ==
    /\ list' = add_before(list, u)
    /\ state' = [state EXCEPT ![u] = "READY"]
    /\ UNCHANGED living

\* The new thread u is made ready.
start_thread(u) ==
    /\ list' = add_before(list, u)
    /\ state' = [state EXCEPT ![u] = "READY"]
    /\ living' = [living EXCEPT ![ProcOf[u]] = @ + 1]

\* The kernel's main thread starts other kernel threads and init.
create_init_process(t, u) ==
    /\ t = KernelMain /\ Executes(t, "kernel")
    /\ state[u] = "FREE"
    /\ ProcOf[u] = KernelProc \/ u = MainOf[InitProc]
    /\ start_thread(u)
    /\ active' = IF ProcOf[u] = InitProc THEN InitProc ELSE active
    /\ UNCHANGED <<gpr, running, regs, ipi, in_isr, dying, threadVars, parent,
                   zombie, panic>>

\* clone: a thread of the caller's process, or the main thread of a new one,
\* whose pagemap is a copy of the caller's.
clone(t, u) ==
    LET p == ProcOf[u]
    IN  /\ Executes(t, "user") /\ ProcOf[t] \in UserProcs
        /\ state[u] = "FREE"
        /\ p = ProcOf[t] \/ (p \in UserProcs \ {InitProc} /\ u = MainOf[p])
        /\ IF p # ProcOf[t] /\ zombie[ProcOf[t]]
           THEN /\ panic' = "null_pagemap"
                /\ UNCHANGED <<list, state, regs, ipi, entering, parent, living>>
           ELSE /\ start_thread(u)
                /\ parent' = IF p = ProcOf[t] THEN parent
                             ELSE [parent EXCEPT ![p] = ProcOf[t]]
                /\ syscall_return(t, pending)
                /\ UNCHANGED panic
        /\ UNCHANGED <<gpr, running, in_isr, dying, pending, enqueued, zombie,
                       active>>

\* terminate_self: the threads are terminated by the steps that follow, then
\* the thread yields for good.
terminate_self(t, targets) ==
    /\ Executes(t, "user")
    /\ dying' = targets
    /\ regs' = context_at("dead")
    /\ ipi' = TRUE
    /\ UNCHANGED <<list, state, gpr, running, in_isr, threadVars, procVars,
                   panic>>

exit(t) == terminate_self(t, {t})
exit_group(t) == terminate_self(t, LivingThreads(ProcOf[t]))

\* Mutant: only a thread that is not running is taken off the list.
unlink_ready(t) == IF state[t] = "READY" THEN remove(list, t) ELSE list

\* The run list without t if t was runnable.
unlink(t) ==
    IF state[t] \in {"READY", "RUNNING"} THEN remove(list, t) ELSE list

\* Process::zombify: children go to init, the parent's main thread gets
\* SIGCHLD.
zombify(p, l, st) ==
    /\ zombie' = [zombie EXCEPT ![p] = TRUE]
    /\ parent' = [c \in Procs |-> IF parent[c] = p THEN InitProc ELSE parent[c]]
    /\ pending' = [pending EXCEPT ![MainOf[parent[p]]] = @ \cup {SIGCHLD}]
    /\ send_signal(l, st, MainOf[parent[p]], SIGCHLD)
    /\ UNCHANGED panic

terminate_thread(t) ==
    LET p == ProcOf[t]
        st == [state EXCEPT ![t] = "ZOMBIE"]
    IN  /\ panic = "none"
        /\ t \in dying /\ \A u \in dying : t <= u
        /\ dying' = dying \ {t}
        /\ IF state[t] = "ZOMBIE"
           THEN UNCHANGED <<list, state, pending, enqueued, parent, living,
                            zombie, panic>>
           ELSE /\ living' = [living EXCEPT ![p] = @ - 1]
                /\ IF living[p] = 1 /\ p # InitProc
                   THEN zombify(p, unlink(t), st)
                   ELSE /\ list' = unlink(t)
                        /\ state' = st
                        /\ panic' = IF living[p] = 1 THEN "init_died" ELSE panic
                        /\ UNCHANGED <<pending, enqueued, parent, zombie>>
        /\ UNCHANGED <<gpr, running, regs, ipi, in_isr, entering, active>>
-----------------------------------------------------------------------------
\* dispatch_pending_signal(t): list, state and gpr are those the caller has
\* reached.  A stop unlinks t and tells the parent; a termination leaves the
\* threads of the process to terminate_thread.

Accepted(t, pend) == First(pend[t])

\* dequeue_thread(t, SIGSTOP): t leaves the list and the parent's main thread
\* gets SIGCHLD.
dequeue_stopped(t, l, st, main) ==
    LET st1 == [st EXCEPT ![t] = "STOPPED"]
        l1 == remove(l, t)
    IN  /\ list' = enqueue_list(l1, st1, main, SIGCHLD)
        /\ state' = enqueue_state(st1, main)
        /\ enqueued' = [enqueue_by(st1, main, SIGCHLD) EXCEPT ![t] = FALSE]

dispatch(t, l, st, pend) ==
    LET sig == Accepted(t, pend)
        act == IF pend[t] = {} THEN "none" ELSE signal_default_action(sig)
        rest == IF pend[t] = {} THEN pend ELSE [pend EXCEPT ![t] = @ \ {sig}]
        main == MainOf[parent[ProcOf[t]]]
    IN  /\ entering' = [entering EXCEPT ![t] = FALSE]
        /\ dying' = IF act \in {"terminate", "core"}
                    THEN LivingThreads(ProcOf[t]) ELSE {}
        /\ IF act = "stop" /\ st[t] \in {"READY", "RUNNING"}
           THEN /\ dequeue_stopped(t, l, st, main)
                /\ pending' = [rest EXCEPT ![main] = @ \cup {SIGCHLD}]
                /\ UNCHANGED panic
           ELSE /\ list' = l
                /\ state' = st
                /\ enqueued' = [enqueued EXCEPT ![t] = FALSE]
                /\ pending' = rest
                /\ panic' = IF act = "stop" THEN "dequeue_assert" ELSE panic

\* Mutant: the search for the next thread restarts at the head every time.
pick_first == IF list.next[ListHead] # ListHead THEN list.next[ListHead] ELSE Idle

\* The thread scheduler_isr picks: the one after the current thread in the
\* run list, else the first, else the idle thread.
pick ==
    IF running # NULL /\ list.next[running] \notin {NULL, ListHead}
    THEN list.next[running]
    ELSE IF list.next[ListHead] # ListHead THEN list.next[ListHead] ELSE Idle

\* scheduler_isr, from a timer or self interrupt, or from its own retry.
\* Save the registers into the current thread, pick the next, deliver a
\* signal to it, and load its registers unless the signal took it away.
scheduler_isr ==
    LET cur == running
        g == IF cur = NULL THEN gpr ELSE [gpr EXCEPT ![cur] = regs]
        st0 == IF cur # NULL /\ state[cur] = "RUNNING"
               THEN [state EXCEPT ![cur] = "READY"] ELSE state
        t == pick
        st1 == IF enqueued[t] /\ st0[t] = "STOPPED"
               THEN [st0 EXCEPT ![t] = "READY"] ELSE st0
        delivers == entering[t] /\ g[t].at = "user"
        lost == \/ delivers /\ pending[t] # {}
                   /\ signal_default_action(Accepted(t, pending))
                          \in {"stop", "terminate", "core"}
                \/ st1[t] \in {"ZOMBIE", "STOPPED"}
    IN  /\ panic = "none" /\ dying = {}
        /\ IF st0[t] \in {"BLOCKED", "ZOMBIE"}
           THEN /\ panic' = "pick_assert"
                /\ UNCHANGED <<list, state, gpr, running, regs, ipi, in_isr,
                               dying, threadVars, procVars>>
           ELSE IF zombie[ProcOf[t]]
           THEN /\ panic' = "null_pagemap"
                /\ UNCHANGED <<list, state, gpr, running, regs, ipi, in_isr,
                               dying, threadVars, procVars>>
           ELSE /\ gpr' = g
                /\ running' = t
                /\ active' = IF ProcOf[t] = KernelProc THEN active ELSE ProcOf[t]
                /\ ipi' = FALSE
                /\ in_isr' = lost
                /\ regs' = IF lost THEN regs ELSE g[t]
                /\ LET st2 == IF lost THEN st1 ELSE [st1 EXCEPT ![t] = "RUNNING"]
                   IN  IF delivers
                       THEN dispatch(t, list, st2, pending)
                       ELSE /\ state' = st2
                            /\ UNCHANGED <<list, dying, threadVars, panic>>
                /\ UNCHANGED <<parent, living, zombie>>

\* exception_handler: the signal is dispatched on the spot and the handler
\* returns to user code whatever became of the thread.
exception(t) ==
    LET pend == [pending EXCEPT ![t] = @ \cup {SIGSEGV}]
    IN  /\ Executes(t, "user")
        /\ IF zombie[ProcOf[t]] /\ signal_default_action(Accepted(t, pend)) = "core"
           THEN /\ panic' = "null_pagemap"
                /\ UNCHANGED <<list, state, gpr, dying, threadVars>>
           ELSE /\ gpr' = [gpr EXCEPT ![t] = regs]
                /\ dispatch(t, list, state, pend)
        /\ UNCHANGED <<running, regs, ipi, in_isr, procVars>>

\* A panic stops the machine.
halted == panic # "none" /\ UNCHANGED vars

\* The steps of a system in which no instruction faults.
SteadyNext ==
    \/ \E t \in Threads :
          \/ \E u \in Threads, sig \in Signals : kill(t, u, sig)
          \/ wait(t)
          \/ wait_return(t)
          \/ kernel_thread_resume(t)
          \/ sched_yield(t)
          \/ trigger(t)
          \/ \E u \in Threads : create_init_process(t, u)
          \/ \E u \in Threads : clone(t, u)
          \/ exit(t)
          \/ exit_group(t)
          \/ terminate_thread(t)
    \/ scheduler_isr
    \/ halted

Next == SteadyNext \/ \E t \in Threads : exception(t)

Spec == Init /\ [][Next]_vars
SteadySpec == Init /\ [][SteadyNext]_vars

\* The timer is rearmed at the end of every interrupt, so interrupts keep
\* coming; the loop of terminate_process runs to its end.
FairSpec ==
    /\ SteadySpec
    /\ WF_vars(scheduler_isr)
    /\ WF_vars(\E t \in Threads : terminate_thread(t))
-----------------------------------------------------------------------------
TypeOK ==
    /\ list \in Lists
    /\ state \in [AllThreads -> States]
    /\ gpr \in [AllThreads -> Contexts]
    /\ running \in AllThreads \cup {NULL}
    /\ regs \in Contexts
    /\ ipi \in BOOLEAN /\ in_isr \in BOOLEAN
    /\ dying \subseteq Threads
    /\ pending \in [AllThreads -> SUBSET AllSignals]
    /\ entering \in [AllThreads -> BOOLEAN]
    /\ enqueued \in [AllThreads -> BOOLEAN]
    /\ parent \in [Procs -> UserProcs]
    /\ living \in [Procs -> Int]
    /\ zombie \in [Procs -> BOOLEAN]
    /\ active \in Procs
    /\ panic \in Panics

ReadyThreads(st) == {t \in Threads : st[t] \in {"READY", "RUNNING"}}

\* l is a doubly linked list of the threads in S and of the head; no threads form
\* a ring of their own, so that all are reached from the head.
LinkedList(l, S) ==
    /\ is_linked(l, ListHead)
    /\ \A x \in AllThreads : is_linked(l, x) <=> x \in S
    /\ \A x \in Nodes : is_linked(l, x) =>
          /\ is_linked(l, l.next[x]) /\ l.prev[l.next[x]] = x
          /\ is_linked(l, l.prev[x]) /\ l.next[l.prev[x]] = x
          /\ l.next[x] \in Nodes /\ l.prev[x] \in Nodes
    /\ \A X \in (SUBSET S) \ {{}} : \E x \in X : l.next[x] \notin X

\* The links of the run list are consistent, exactly the ready and running
\* threads are linked and none is cut off from the head, across blocking, waking,
\* stopping and termination.
RunListLinked == LinkedList(list, ReadyThreads(state))

\* The assertion of scheduler_isr (sched.cpp:734): it never picks a blocked
\* or a terminated thread.
PickAssertHolds == panic # "pick_assert"

\* The assertion of dequeue_thread (sched.cpp:628): only a ready or running
\* thread is taken off the run list.
DequeueAssertHolds == panic # "dequeue_assert"

\* scheduler_isr copies the saved registers into the current thread
\* (sched.cpp:714): the code that runs, and the code a runnable or blocked
\* thread will run, is that thread's own.
OwnContext ==
    /\ running # NULL /\ ~in_isr => regs.tid = running
    /\ \A t \in AllThreads : state[t] \in {"READY", "RUNNING", "BLOCKED"} =>
          gpr[t].tid = t

\* What makes the three properties above inductive while no program sends
\* SIGCONT: nothing restarts a stopped thread; the thread the scheduler retries
\* from is stopped or about to be terminated, so the foreign registers it is
\* given are never loaded; the idle thread stays ready and gets no signal.
SchedInv ==
    /\ TypeOK /\ RunListLinked /\ PickAssertHolds /\ OwnContext
    /\ \A t \in AllThreads :
          /\ ~enqueued[t]
          /\ state[t] = "FREE" => gpr[t].tid = t
    /\ in_isr => /\ running \in Threads
                 /\ running \in dying \/ state[running] \in {"STOPPED", "ZOMBIE"}
    /\ state[Idle] \in {"READY", "RUNNING"} /\ ~entering[Idle]

\* A thread that may not run leaves the CPU at the next interrupt, which is
\* already pending: it executes no instruction of its program, and yield in
\* terminate_self never returns (klib::unreachable, sched.cpp:687).
OnlyRunnableRuns ==
    Open /\ ~ipi /\ running # NULL =>
        /\ state[running] = "RUNNING"
        /\ regs.at # "dead"

\* A blocked thread is inside Event::wait, where the trigger that wakes it
\* finds it.
BlockedWaits ==
    \A t \in AllThreads : state[t] = "BLOCKED" =>
        IF t = running /\ ~in_isr THEN regs.at = "wait" ELSE gpr[t].at = "wait"

\* A process is a zombie exactly when its last thread has been terminated,
\* and the parent that gets the SIGCHLD is not a zombie.
ZombieCount ==
    \A p \in UserProcs :
        /\ living[p] = Cardinality(LivingThreads(p))
        /\ panic = "none" =>
              (zombie[p] <=> living[p] = 0 /\ state[MainOf[p]] = "ZOMBIE")
        /\ ~zombie[parent[p]]

\* "kernel pages are global so no need to switch" (sched.cpp:748): the page
\* tables in use when interrupts are on belong to a process that still has
\* them.
ActivePagemapExists == Open /\ ~ipi => ~zombie[active]

\* Round robin does not starve: a ready thread runs or is taken off the list.
ReadyRuns ==
    \A t \in Threads :
        state[t] = "READY" ~> (state[t] # "READY" \/ panic # "none")

\* What the scheduler keeps of a thread agrees with what the CPU does: a thread
\* that may not run leaves the CPU, a blocked one can be woken.
SchedConsistent == OnlyRunnableRuns /\ BlockedWaits
=============================================================================
