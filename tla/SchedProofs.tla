----------------------------- MODULE SchedProofs ----------------------------
(***************************************************************************)
(* Proofs about the scheduler for every set of threads, processes and      *)
(* signals: what the list operations do to a well formed list, the type    *)
(* invariant, and the invariant of the run list.                           *)
(*                                                                         *)
(* The last part is about the scheduler while no instruction faults and no *)
(* program sends SIGCONT: only a running thread executes, a blocked one    *)
(* can be woken, and a process becomes a zombie exactly when its last      *)
(* thread has ended.                                                       *)
(***************************************************************************)
EXTENDS Sched, FiniteSetTheorems, TLAPS

LEMMA ReadyAreThreads ==
    ASSUME NEW st
    PROVE  ReadyThreads(st) \in SUBSET Threads
BY DEF ReadyThreads

\* Adding a thread that is not in the list keeps klib::ListHead well formed.
LEMMA AddBeforeLinked ==
    ASSUME NEW l \in Lists, NEW S \in SUBSET Threads, NEW x \in Threads,
           LinkedList(l, S), x \notin S
    PROVE  /\ add_before(l, x) \in Lists
           /\ LinkedList(add_before(l, x), S \cup {x})
<1> DEFINE m == add_before(l, x)
<1> x \in Nodes /\ ListHead \in Nodes /\ x # ListHead /\ NULL \notin Nodes
  BY NodeAssumption DEF Nodes, AllThreads
<1> l.next[x] = NULL
  BY DEF LinkedList, is_linked, AllThreads
<1> /\ l.next[ListHead] # NULL /\ l.prev[ListHead] \in Nodes
    /\ l.next[l.prev[ListHead]] = ListHead
  BY DEF LinkedList, is_linked
<1>1. m \in Lists
  BY DEF Lists, add_before
<1>2. \A y \in Nodes : m.next[y] = IF y = x THEN ListHead
                                   ELSE IF y = l.prev[ListHead] THEN x ELSE l.next[y]
  BY DEF Lists, add_before
<1>3. \A y \in Nodes : m.prev[y] = IF y = ListHead THEN x
                                   ELSE IF y = x THEN l.prev[ListHead] ELSE l.prev[y]
  BY DEF Lists, add_before
<1>4. is_linked(m, ListHead)
  BY <1>2 DEF is_linked
<1>5. \A y \in Nodes : is_linked(m, y) <=> (y = x \/ is_linked(l, y))
  BY <1>2 DEF is_linked
<1>6. \A y \in AllThreads : is_linked(m, y) <=> y \in S \cup {x}
  BY <1>5 DEF LinkedList, Nodes
<1>7. ASSUME NEW y \in Nodes, is_linked(m, y)
      PROVE  /\ is_linked(m, m.next[y]) /\ m.prev[m.next[y]] = y
             /\ is_linked(m, m.prev[y]) /\ m.next[m.prev[y]] = y
             /\ m.next[y] \in Nodes /\ m.prev[y] \in Nodes
  <2>1. CASE y = x
    BY <2>1, <1>2, <1>3, <1>5 DEF LinkedList, is_linked
  <2>2. CASE y # x
    <3>1. /\ is_linked(l, y)
          /\ is_linked(l, l.next[y]) /\ l.prev[l.next[y]] = y
          /\ is_linked(l, l.prev[y]) /\ l.next[l.prev[y]] = y
          /\ l.next[y] \in Nodes /\ l.prev[y] \in Nodes
      BY <1>5, <1>7, <2>2 DEF LinkedList
    <3>2. l.next[y] # x /\ l.prev[y] # x
      BY <3>1 DEF is_linked
    <3> QED
      BY <1>2, <1>3, <1>5, <2>2, <3>1, <3>2 DEF is_linked
  <2> QED
    BY <2>1, <2>2
<1>8. ASSUME NEW X \in (SUBSET (S \cup {x})) \ {{}}
      PROVE  \E y \in X : m.next[y] \notin X
  <2> SUFFICES ASSUME \A y \in X : m.next[y] \in X PROVE FALSE
    OBVIOUS
  <2>1. X \subseteq Nodes /\ ListHead \notin X
    BY NodeAssumption DEF Nodes, AllThreads
  <2>2. x \notin X
    BY <1>2, <2>1
  <2>3. PICK y \in X : l.next[y] \notin X
    BY <2>2 DEF LinkedList
  <2> QED
    BY <1>2, <2>1, <2>2, <2>3
<1> QED
  BY <1>1, <1>4, <1>6, <1>7, <1>8 DEF LinkedList

\* Removing a thread that is in the list keeps klib::ListHead well formed.
LEMMA RemoveLinked ==
    ASSUME NEW l \in Lists, NEW S \in SUBSET Threads, NEW x \in Threads,
           LinkedList(l, S), x \in S
    PROVE  /\ remove(l, x) \in Lists
           /\ LinkedList(remove(l, x), S \ {x})
<1> DEFINE m == remove(l, x)
<1> x \in Nodes /\ ListHead \in Nodes /\ x # ListHead /\ NULL \notin Nodes
  BY NodeAssumption DEF Nodes, AllThreads
<1>0. /\ is_linked(l, x)
      /\ is_linked(l, l.next[x]) /\ l.prev[l.next[x]] = x
      /\ is_linked(l, l.prev[x]) /\ l.next[l.prev[x]] = x
      /\ l.next[x] \in Nodes /\ l.prev[x] \in Nodes
  BY DEF LinkedList, AllThreads
<1>1. m \in Lists
  BY <1>0 DEF Lists, remove
<1>2. \A y \in Nodes : m.next[y] = IF y = x THEN NULL
                                   ELSE IF y = l.prev[x] THEN l.next[x] ELSE l.next[y]
  BY DEF Lists, remove
<1>3. \A y \in Nodes : m.prev[y] = IF y = x THEN NULL
                                   ELSE IF y = l.next[x] THEN l.prev[x] ELSE l.prev[y]
  BY DEF Lists, remove
<1>4. \A y \in Nodes : is_linked(m, y) <=> (y # x /\ is_linked(l, y))
  BY <1>0, <1>2 DEF is_linked
<1>5. is_linked(m, ListHead)
  BY <1>4 DEF LinkedList
<1>6. \A y \in AllThreads : is_linked(m, y) <=> y \in S \ {x}
  BY <1>4 DEF LinkedList, Nodes
<1>7. ASSUME NEW y \in Nodes, is_linked(m, y)
      PROVE  /\ is_linked(m, m.next[y]) /\ m.prev[m.next[y]] = y
             /\ is_linked(m, m.prev[y]) /\ m.next[m.prev[y]] = y
             /\ m.next[y] \in Nodes /\ m.prev[y] \in Nodes
  <2>1. /\ y # x /\ is_linked(l, y)
        /\ is_linked(l, l.next[y]) /\ l.prev[l.next[y]] = y
        /\ is_linked(l, l.prev[y]) /\ l.next[l.prev[y]] = y
        /\ l.next[y] \in Nodes /\ l.prev[y] \in Nodes
    BY <1>4, <1>7 DEF LinkedList
  <2>2. /\ m.next[y] \in Nodes /\ m.next[y] # x /\ is_linked(m, m.next[y])
        /\ m.prev[m.next[y]] = y
    BY <1>0, <1>2, <1>3, <1>4, <2>1
  <2>3. /\ m.prev[y] \in Nodes /\ m.prev[y] # x /\ is_linked(m, m.prev[y])
        /\ m.next[m.prev[y]] = y
    BY <1>0, <1>2, <1>3, <1>4, <2>1
  <2> QED
    BY <2>2, <2>3
<1>8. ASSUME NEW X \in (SUBSET (S \ {x})) \ {{}}
      PROVE  \E y \in X : m.next[y] \notin X
  <2> SUFFICES ASSUME \A y \in X : m.next[y] \in X PROVE FALSE
    OBVIOUS
  <2>1. X \subseteq Nodes /\ x \notin X
    BY DEF Nodes, AllThreads
  <2>2. CASE l.prev[x] \in X
    <3> DEFINE Y == X \cup {x}
    <3>1. Y \in (SUBSET S) \ {{}}
      OBVIOUS
    <3> HIDE DEF Y
    <3>2. PICK y \in Y : l.next[y] \notin Y
      BY <3>1 DEF LinkedList
    <3>3. m.next[l.prev[x]] = l.next[x]
      BY <1>0, <1>2, <2>1, <2>2
    <3>4. l.next[x] \in X /\ l.next[y] # x /\ l.next[y] \notin X
      BY <2>2, <3>2, <3>3 DEF Y
    <3>5. y \in X
      BY <3>2, <3>4 DEF Y
    <3>6. y # l.prev[x]
      BY <1>0, <3>4
    <3> QED
      BY <1>2, <2>1, <3>4, <3>5, <3>6
  <2>3. CASE l.prev[x] \notin X
    <3>1. PICK y \in X : l.next[y] \notin X
      BY DEF LinkedList
    <3> QED
      BY <1>2, <2>1, <2>3, <3>1
  <2> QED
    BY <2>2, <2>3
<1> QED
  BY <1>1, <1>5, <1>6, <1>7, <1>8 DEF LinkedList
-----------------------------------------------------------------------------
\* List operations and enqueue_thread keep the types.
LEMMA ListType ==
    ASSUME NEW l \in Lists, NEW x \in AllThreads
    PROVE  add_before(l, x) \in Lists /\ remove(l, x) \in Lists
BY NodeAssumption DEF Lists, add_before, remove, Nodes

LEMMA EnqueueType ==
    ASSUME NEW l \in Lists, NEW st \in [AllThreads -> States],
           enqueued \in [AllThreads -> BOOLEAN],
           NEW t \in AllThreads, NEW sig
    PROVE  /\ enqueue_list(l, st, t, sig) \in Lists
           /\ enqueue_state(st, t) \in [AllThreads -> States]
           /\ enqueue_by(st, t, sig) \in [AllThreads -> BOOLEAN]
BY ListType DEF enqueue_list, enqueue_state, enqueue_by, States

\* dispatch_pending_signal keeps the types.
LEMMA DispatchType ==
    ASSUME TypeOK, NEW t \in AllThreads, NEW l \in Lists,
           NEW st \in [AllThreads -> States],
           NEW pend \in [AllThreads -> SUBSET AllSignals],
           dispatch(t, l, st, pend)
    PROVE  /\ list' \in Lists /\ state' \in [AllThreads -> States]
           /\ pending' \in [AllThreads -> SUBSET AllSignals]
           /\ entering' \in [AllThreads -> BOOLEAN]
           /\ enqueued' \in [AllThreads -> BOOLEAN]
           /\ dying' \subseteq Threads /\ panic' \in Panics
<1> DEFINE sig == Accepted(t, pend)
           act == IF pend[t] = {} THEN "none" ELSE signal_default_action(sig)
           rest == IF pend[t] = {} THEN pend ELSE [pend EXCEPT ![t] = @ \ {sig}]
           main == MainOf[parent[ProcOf[t]]]
           st1 == [st EXCEPT ![t] = "STOPPED"]
<1>1. main \in AllThreads
  BY ProcAssumption DEF TypeOK, AllThreads
<1>2. rest \in [AllThreads -> SUBSET AllSignals]
  OBVIOUS
<1>3. st1 \in [AllThreads -> States] /\ remove(l, t) \in Lists
  BY ListType DEF States
<1>4. /\ entering' \in [AllThreads -> BOOLEAN]
      /\ dying' \subseteq Threads
  BY DEF TypeOK, dispatch, LivingThreads
<1>5. CASE act = "stop" /\ st[t] \in {"READY", "RUNNING"}
  <2>1. /\ pending' = [rest EXCEPT ![main] = @ \cup {SIGCHLD}]
        /\ list' = enqueue_list(remove(l, t), st1, main, SIGCHLD)
        /\ state' = enqueue_state(st1, main)
        /\ enqueued' = [enqueue_by(st1, main, SIGCHLD) EXCEPT ![t] = FALSE]
        /\ UNCHANGED panic
    BY <1>5 DEF dispatch, dequeue_stopped
  <2>2. pending' \in [AllThreads -> SUBSET AllSignals]
    BY <2>1, <1>1, <1>2 DEF AllSignals
  <2> HIDE DEF rest, main, st1
  <2> QED
    BY <2>1, <2>2, <1>1, <1>3, <1>4, EnqueueType DEF TypeOK
<1>6. CASE ~(act = "stop" /\ st[t] \in {"READY", "RUNNING"})
  BY <1>2, <1>4, <1>6 DEF dispatch, TypeOK, Panics
<1> QED
  BY <1>5, <1>6

LEMMA SyscallReturnType ==
    ASSUME TypeOK, NEW t \in AllThreads, NEW pend, syscall_return(t, pend)
    PROVE  /\ regs' \in Contexts /\ ipi' \in BOOLEAN
           /\ entering' \in [AllThreads -> BOOLEAN]
BY DEF TypeOK, syscall_return, context_at, Contexts, Places

\* scheduler_isr keeps the types.
LEMMA IsrType ==
    ASSUME TypeOK, pick \in AllThreads, scheduler_isr
    PROVE  TypeOK'
<1> DEFINE cur == running
           g == IF cur = NULL THEN gpr ELSE [gpr EXCEPT ![cur] = regs]
           st0 == IF cur # NULL /\ state[cur] = "RUNNING"
                  THEN [state EXCEPT ![cur] = "READY"] ELSE state
           t == pick
           st1 == IF enqueued[t] /\ st0[t] = "STOPPED"
                  THEN [st0 EXCEPT ![t] = "READY"] ELSE st0
           delivers == entering[t] /\ g[t].at = "user"
           lost == \/ delivers /\ pending[t] # {}
                      /\ signal_default_action(Accepted(t, pending))
                             \in {"stop", "terminate", "core"}
                   \/ st1[t] \in {"ZOMBIE", "STOPPED"}
           st2 == IF lost THEN st1 ELSE [st1 EXCEPT ![t] = "RUNNING"]
           stops == st0[t] \in {"BLOCKED", "ZOMBIE"} \/ zombie[ProcOf[t]]
<1>1. g \in [AllThreads -> Contexts] /\ st0 \in [AllThreads -> States]
  BY DEF TypeOK, States
<1>2. CASE stops
  BY <1>2 DEF scheduler_isr, TypeOK, threadVars, procVars, Panics
<1>3. CASE ~stops
  <2>1. /\ gpr' = g /\ running' = t
        /\ active' = IF ProcOf[t] = KernelProc THEN active ELSE ProcOf[t]
        /\ ipi' = FALSE /\ in_isr' = lost
        /\ regs' = IF lost THEN regs ELSE g[t]
        /\ IF delivers
           THEN dispatch(t, list, st2, pending)
           ELSE /\ state' = st2
                /\ UNCHANGED <<list, dying, threadVars, panic>>
        /\ UNCHANGED <<parent, living, zombie>>
    BY <1>3 DEF scheduler_isr
  <2>2. t \in AllThreads
    OBVIOUS
  <2>3. st1 \in [AllThreads -> States]
    BY <1>1 DEF States
  <2>4. st2 \in [AllThreads -> States]
    BY <2>3 DEF States
  <2>5. /\ gpr' \in [AllThreads -> Contexts] /\ running' \in AllThreads \cup {NULL}
        /\ active' \in Procs /\ ipi' \in BOOLEAN /\ in_isr' \in BOOLEAN
        /\ regs' \in Contexts
        /\ parent' \in [Procs -> UserProcs] /\ living' \in [Procs -> Int]
        /\ zombie' \in [Procs -> BOOLEAN]
    BY <1>1, <2>1, <2>2, ProcAssumption DEF TypeOK
  <2>6. /\ list' \in Lists /\ state' \in [AllThreads -> States]
        /\ pending' \in [AllThreads -> SUBSET AllSignals]
        /\ entering' \in [AllThreads -> BOOLEAN]
        /\ enqueued' \in [AllThreads -> BOOLEAN]
        /\ dying' \subseteq Threads /\ panic' \in Panics
    <3> HIDE DEF t, st2
    <3>1. CASE delivers
      <4>1. dispatch(t, list, st2, pending)
        BY <2>1, <3>1
      <4> QED
        BY <4>1, <2>2, <2>4, DispatchType DEF TypeOK
    <3>2. CASE ~delivers
      BY <2>1, <2>4, <3>2 DEF TypeOK, threadVars
    <3> QED
      BY <3>1, <3>2
  <2> QED
    BY <2>5, <2>6 DEF TypeOK
<1> QED
  BY <1>2, <1>3

LEMMA StartThreadType ==
    ASSUME TypeOK, NEW u \in Threads, start_thread(u)
    PROVE  /\ list' \in Lists /\ state' \in [AllThreads -> States]
           /\ living' \in [Procs -> Int]
<1> u \in AllThreads
  BY DEF AllThreads
<1>1. list' \in Lists
  BY ListType DEF start_thread, TypeOK
<1>2. state' \in [AllThreads -> States]
  BY DEF start_thread, TypeOK, States
<1>3. living' \in [Procs -> Int]
  <2>1. ProcOf[u] \in Procs
    BY ProcAssumption
  <2>2. living[ProcOf[u]] + 1 \in Int
    BY <2>1 DEF TypeOK
  <2> QED
    BY <2>1, <2>2 DEF start_thread, TypeOK
<1> QED
  BY <1>1, <1>2, <1>3

\* Every step of the scheduler keeps the types.
LEMMA TypeStep ==
    ASSUME TypeOK, pick \in AllThreads, [Next]_vars
    PROVE  TypeOK'
<1> Threads \subseteq AllThreads
  BY DEF AllThreads
<1>1. ASSUME NEW t \in Threads, NEW u \in Threads, NEW sig \in Signals,
             kill(t, u, sig)
      PROVE  TypeOK'
  <2>1. pending' \in [AllThreads -> SUBSET AllSignals]
    BY <1>1 DEF kill, TypeOK, AllSignals
  <2>2. /\ list' \in Lists /\ state' \in [AllThreads -> States]
        /\ enqueued' \in [AllThreads -> BOOLEAN]
    BY <1>1, EnqueueType DEF kill, send_signal, TypeOK
  <2>3. /\ regs' \in Contexts /\ ipi' \in BOOLEAN
        /\ entering' \in [AllThreads -> BOOLEAN]
    BY <1>1, SyscallReturnType DEF kill
  <2> QED
    BY <1>1, <2>1, <2>2, <2>3 DEF kill, TypeOK, procVars
<1>2. ASSUME NEW t \in Threads, wait(t)
      PROVE  TypeOK'
  <2>1. block(t)
    BY <1>2 DEF wait
  <2>2. UNCHANGED <<gpr, running, in_isr, dying, threadVars, procVars>>
    BY <2>1 DEF block
  <2>3. CASE /\ list' = remove(list, t)
             /\ state' = [state EXCEPT ![t] = "BLOCKED"]
             /\ regs' = context_at("wait") /\ ipi' = TRUE /\ UNCHANGED panic
    <3>1. list' \in Lists /\ state' \in [AllThreads -> States]
      BY <2>3, ListType DEF TypeOK, States
    <3>2. regs' \in Contexts
      BY <2>3 DEF context_at, TypeOK, Contexts, Places
    <3> QED
      BY <2>2, <2>3, <3>1, <3>2 DEF TypeOK, threadVars, procVars
  <2>4. CASE panic' = "dequeue_assert" /\ UNCHANGED <<list, state, regs, ipi>>
    BY <2>2, <2>4 DEF TypeOK, threadVars, procVars, Panics
  <2> QED
    BY <2>1, <2>3, <2>4 DEF block
<1>3. ASSUME NEW t \in Threads, wait_return(t)
      PROVE  TypeOK'
  BY <1>3, SyscallReturnType DEF wait_return, TypeOK, procVars
<1>4. ASSUME NEW t \in Threads, kernel_thread_resume(t)
      PROVE  TypeOK'
  BY <1>4
  DEF kernel_thread_resume, TypeOK, threadVars, procVars, context_at, Contexts, Places
<1>5. ASSUME NEW t \in Threads, sched_yield(t)
      PROVE  TypeOK'
  BY <1>5 DEF sched_yield, TypeOK, threadVars, procVars, context_at, Contexts, Places
<1>6. ASSUME NEW t \in Threads, trigger(t)
      PROVE  TypeOK'
  BY <1>6, EnqueueType DEF trigger, TypeOK, procVars
<1>7. ASSUME NEW t \in Threads, NEW u \in Threads, create_init_process(t, u)
      PROVE  TypeOK'
  BY <1>7, StartThreadType, ProcAssumption
  DEF create_init_process, TypeOK, threadVars, UserProcs
<1>8. ASSUME NEW t \in Threads, NEW u \in Threads, clone(t, u)
      PROVE  TypeOK'
  <2>1. CASE ProcOf[u] # ProcOf[t] /\ zombie[ProcOf[t]]
    BY <1>8, <2>1 DEF clone, TypeOK, Panics
  <2>2. CASE ~(ProcOf[u] # ProcOf[t] /\ zombie[ProcOf[t]])
    <3>1. /\ start_thread(u) /\ syscall_return(t, pending)
          /\ parent' = IF ProcOf[u] = ProcOf[t] THEN parent
                       ELSE [parent EXCEPT ![ProcOf[u]] = ProcOf[t]]
          /\ UNCHANGED <<panic, gpr, running, in_isr, dying, pending, enqueued,
                         zombie, active>>
      BY <1>8, <2>2 DEF clone
    <3>2. /\ list' \in Lists /\ state' \in [AllThreads -> States]
          /\ living' \in [Procs -> Int]
      BY <3>1, StartThreadType
    <3>3. parent' \in [Procs -> UserProcs]
      BY <1>8, <3>1 DEF clone, TypeOK
    <3> QED
      BY <3>1, <3>2, <3>3, SyscallReturnType DEF TypeOK
  <2> QED
    BY <2>1, <2>2
<1>9. ASSUME NEW t \in Threads, exit(t) \/ exit_group(t)
      PROVE  TypeOK'
  <2>1. PICK S \in SUBSET Threads : terminate_self(t, S)
    BY <1>9 DEF exit, exit_group, LivingThreads
  <2>2. regs' \in Contexts
    BY <2>1 DEF terminate_self, context_at, TypeOK, Contexts, Places
  <2> QED
    BY <2>1, <2>2 DEF terminate_self, TypeOK, threadVars, procVars
<1>10. ASSUME NEW t \in Threads, terminate_thread(t)
       PROVE  TypeOK'
  <2> DEFINE p == ProcOf[t]
             st == [state EXCEPT ![t] = "ZOMBIE"]
             main == MainOf[parent[p]]
  <2>1. unlink(t) \in Lists /\ st \in [AllThreads -> States]
        /\ main \in AllThreads /\ p \in Procs /\ InitProc \in UserProcs
    BY ListType, ProcAssumption DEF unlink, TypeOK, States
  <2>2. /\ dying' \subseteq Threads
        /\ UNCHANGED <<gpr, running, regs, ipi, in_isr, entering, active>>
    BY <1>10 DEF terminate_thread, TypeOK
  <2>3. CASE state[t] = "ZOMBIE"
    BY <1>10, <2>2, <2>3 DEF terminate_thread, TypeOK
  <2>4. CASE state[t] # "ZOMBIE"
    <3>1. living' \in [Procs -> Int]
      BY <1>10, <2>1, <2>4 DEF terminate_thread, TypeOK
    <3>2. CASE living[p] = 1 /\ p # InitProc
      <4>1. zombify(p, unlink(t), st)
        BY <1>10, <2>4, <3>2 DEF terminate_thread
      <4>2. /\ list' \in Lists /\ state' \in [AllThreads -> States]
            /\ enqueued' \in [AllThreads -> BOOLEAN]
        BY <2>1, <4>1, EnqueueType DEF zombify, send_signal, TypeOK
      <4>3. pending' \in [AllThreads -> SUBSET AllSignals]
        BY <2>1, <4>1 DEF zombify, TypeOK, AllSignals
      <4>4. /\ parent' \in [Procs -> UserProcs] /\ zombie' \in [Procs -> BOOLEAN]
            /\ panic' \in Panics
        BY <2>1, <4>1 DEF zombify, TypeOK
      <4> QED
        BY <2>2, <3>1, <4>2, <4>3, <4>4 DEF TypeOK
    <3>3. CASE ~(living[p] = 1 /\ p # InitProc)
      BY <1>10, <2>1, <2>2, <2>4, <3>1, <3>3
      DEF terminate_thread, TypeOK, Panics
    <3> QED
      BY <3>2, <3>3
  <2> QED
    BY <2>3, <2>4
<1>11. ASSUME NEW t \in Threads, exception(t)
       PROVE  TypeOK'
  <2> DEFINE pend == [pending EXCEPT ![t] = @ \cup {SIGSEGV}]
             dies == zombie[ProcOf[t]]
                     /\ signal_default_action(Accepted(t, pend)) = "core"
  <2>1. pend \in [AllThreads -> SUBSET AllSignals]
    BY DEF TypeOK, AllSignals
  <2>2. UNCHANGED <<running, regs, ipi, in_isr, procVars>>
    BY <1>11 DEF exception
  <2>3. CASE dies
    BY <1>11, <2>2, <2>3 DEF exception, TypeOK, threadVars, procVars, Panics
  <2>4. CASE ~dies
    <3>1. /\ gpr' = [gpr EXCEPT ![t] = regs]
          /\ dispatch(t, list, state, pend)
      BY <1>11, <2>4 DEF exception
    <3> HIDE DEF pend
    <3> QED
      BY <2>1, <2>2, <3>1, DispatchType DEF TypeOK, procVars
  <2> QED
    BY <2>3, <2>4
<1>12. CASE scheduler_isr
  BY <1>12, IsrType
<1>13. CASE halted \/ UNCHANGED vars
  BY <1>13 DEF halted, vars, threadVars, procVars, TypeOK
<1> QED
  BY <1>1, <1>2, <1>3, <1>4, <1>5, <1>6, <1>7, <1>8, <1>9, <1>10, <1>11,
     <1>12, <1>13 DEF Next, SteadyNext

\* The initial state has the types.
LEMMA TypeInit ==
    ASSUME Init
    PROVE  TypeOK
<1>1. list \in Lists
  BY ProcAssumption DEF Init, Lists, Nodes, AllThreads
<1>2. state \in [AllThreads -> States]
  BY DEF Init, States
<1>3. gpr \in [AllThreads -> Contexts] /\ regs \in Contexts
  BY DEF Init, Contexts, Places, AllThreads
<1>4. pending \in [AllThreads -> SUBSET AllSignals]
  BY DEF Init
<1>5. /\ parent \in [Procs -> UserProcs] /\ living \in [Procs -> Int]
      /\ active \in Procs
  BY ProcAssumption DEF Init
<1> QED
  BY <1>1, <1>2, <1>3, <1>4, <1>5 DEF Init, TypeOK, Panics
-----------------------------------------------------------------------------
\* enqueue_thread links a blocked thread and changes nothing else, unless it
\* is called for SIGCONT.
LEMMA EnqueueLinked ==
    ASSUME NEW l \in Lists, NEW st \in [AllThreads -> States],
           enqueued \in [AllThreads -> BOOLEAN],
           LinkedList(l, ReadyThreads(st)),
           NEW t \in Threads, NEW sig, sig # SIGCONT
    PROVE  /\ LinkedList(enqueue_list(l, st, t, sig),
                         ReadyThreads(enqueue_state(st, t)))
           /\ \A u \in AllThreads :
                 /\ \/ enqueue_state(st, t)[u] = st[u]
                    \/ /\ u = t /\ st[u] = "BLOCKED"
                       /\ enqueue_state(st, t)[u] = "READY"
                 /\ enqueue_by(st, t, sig)[u] => enqueued[u]
<1> t \in AllThreads /\ Threads \subseteq AllThreads
  BY DEF AllThreads
<1>1. CASE st[t] = "BLOCKED"
  <2>1. enqueue_state(st, t) = [st EXCEPT ![t] = "READY"]
    BY <1>1 DEF enqueue_state
  <2>2. ReadyThreads(enqueue_state(st, t)) = ReadyThreads(st) \cup {t}
    BY <2>1 DEF ReadyThreads
  <2>3. t \notin ReadyThreads(st)
    BY <1>1 DEF ReadyThreads
  <2>4. enqueue_list(l, st, t, sig) = add_before(l, t)
    BY <1>1 DEF enqueue_list, enqueues
  <2>5. LinkedList(add_before(l, t), ReadyThreads(st) \cup {t})
    BY <2>3, AddBeforeLinked, ReadyAreThreads
  <2> QED
    BY <1>1, <2>1, <2>2, <2>4, <2>5 DEF enqueue_by
<1>2. CASE st[t] # "BLOCKED"
  BY <1>2 DEF enqueue_state, enqueue_list, enqueues, enqueue_by
<1> QED
  BY <1>1, <1>2

\* Thread::send_signal of anything but SIGCONT keeps the run list and can only
\* make a blocked thread ready.
LEMMA SendSignalLinked ==
    ASSUME SchedInv, NEW l \in Lists, NEW st \in [AllThreads -> States],
           LinkedList(l, ReadyThreads(st)),
           NEW t \in Threads, NEW sig, sig # SIGCONT, send_signal(l, st, t, sig)
    PROVE  /\ RunListLinked'
           /\ \A u \in AllThreads :
                 /\ ~enqueued'[u]
                 /\ \/ state'[u] = st[u]
                    \/ u = t /\ st[u] = "BLOCKED" /\ state'[u] = "READY"
<1>1. enqueued \in [AllThreads -> BOOLEAN] /\ \A u \in AllThreads : ~enqueued[u]
  BY DEF SchedInv, TypeOK
<1>2. /\ list' = enqueue_list(l, st, t, sig) /\ state' = enqueue_state(st, t)
      /\ enqueued' = enqueue_by(st, t, sig)
  BY DEF send_signal
<1> QED
  BY <1>1, <1>2, EnqueueLinked DEF RunListLinked

\* scheduler_isr picks the idle thread or a ready one.
LEMMA PickReady ==
    ASSUME SchedInv
    PROVE  /\ pick \in AllThreads
           /\ pick # Idle => pick \in ReadyThreads(state)
           /\ in_isr /\ dying = {} => pick # running
<1> Threads \subseteq AllThreads /\ Idle \in AllThreads
  BY DEF AllThreads
<1>1. /\ list \in Lists /\ running \in AllThreads \cup {NULL}
      /\ LinkedList(list, ReadyThreads(state))
  BY DEF SchedInv, TypeOK, RunListLinked
<1>2. ASSUME NEW x \in Nodes, is_linked(list, x), x # ListHead
      PROVE  x \in ReadyThreads(state)
  BY <1>1, <1>2 DEF LinkedList, Nodes
<1>3. CASE running # NULL /\ list.next[running] \notin {NULL, ListHead}
  <2>1. /\ running \in Nodes /\ is_linked(list, running)
    BY <1>1, <1>3 DEF is_linked, Nodes
  <2>2. list.next[running] \in Nodes /\ is_linked(list, list.next[running])
    BY <1>1, <2>1 DEF LinkedList
  <2>3. pick = list.next[running]
    BY <1>3 DEF pick
  <2>4. pick \in ReadyThreads(state)
    BY <1>2, <1>3, <2>2, <2>3
  <2>5. running \in ReadyThreads(state)
    BY <1>1, <1>3, <2>1, <1>2, NodeAssumption
  <2>6. ~(in_isr /\ dying = {})
    BY <2>5 DEF SchedInv, ReadyThreads
  <2> QED
    BY <2>4, <2>6 DEF ReadyThreads
<1>4. CASE ~(running # NULL /\ list.next[running] \notin {NULL, ListHead})
  <2>1. CASE list.next[ListHead] # ListHead
    <3>1. list.next[ListHead] \in Nodes /\ is_linked(list, list.next[ListHead])
      BY <1>1 DEF LinkedList, Nodes
    <3>2. pick = list.next[ListHead]
      BY <1>4, <2>1 DEF pick
    <3>3. pick \in ReadyThreads(state)
      BY <1>2, <2>1, <3>1, <3>2
    <3> QED
      BY <3>3 DEF ReadyThreads, SchedInv
  <2>2. CASE list.next[ListHead] = ListHead
    <3>1. pick = Idle
      BY <1>4, <2>2 DEF pick
    <3> QED
      BY <3>1, NodeAssumption DEF SchedInv
  <2> QED
    BY <2>1, <2>2
<1> QED
  BY <1>3, <1>4

\* dispatch_pending_signal keeps the run list; it stops or begins to terminate
\* its thread exactly when the accepted signal says so.
LEMMA DispatchLinked ==
    ASSUME SchedInv, NEW t \in Threads, NEW st \in [AllThreads -> States],
           LinkedList(list, ReadyThreads(st)),
           NEW pend \in [AllThreads -> SUBSET AllSignals],
           dispatch(t, list, st, pend)
    PROVE  /\ RunListLinked'
           /\ panic' # "pick_assert"
           /\ ~entering'[Idle]
           /\ \A u \in AllThreads :
                 /\ ~enqueued'[u]
                 /\ \/ state'[u] = st[u]
                    \/ u # t /\ st[u] = "BLOCKED" /\ state'[u] = "READY"
                    \/ u = t /\ state'[u] = "STOPPED"
           /\ (/\ pend[t] # {}
               /\ signal_default_action(Accepted(t, pend))
                     \in {"stop", "terminate", "core"}
               /\ st[t] \in {"READY", "RUNNING"}
               /\ state[t] \notin {"FREE", "ZOMBIE"})
              => t \in dying' \/ state'[t] = "STOPPED"
<1> DEFINE sig == Accepted(t, pend)
           act == IF pend[t] = {} THEN "none" ELSE signal_default_action(sig)
           main == MainOf[parent[ProcOf[t]]]
           st1 == [st EXCEPT ![t] = "STOPPED"]
<1> t \in AllThreads /\ Threads \subseteq AllThreads /\ Idle \in AllThreads
    /\ t # Idle
  BY NodeAssumption DEF AllThreads
<1>1. main \in Threads
  BY ProcAssumption DEF SchedInv, TypeOK, AllThreads
<1>2. ~entering'[Idle] /\ panic' # "pick_assert"
  BY DEF dispatch, SchedInv, TypeOK, PickAssertHolds
<1>3. enqueued \in [AllThreads -> BOOLEAN] /\ \A u \in AllThreads : ~enqueued[u]
  BY DEF SchedInv, TypeOK
<1>4. CASE act = "stop" /\ st[t] \in {"READY", "RUNNING"}
  <2>1. /\ list' = enqueue_list(remove(list, t), st1, main, SIGCHLD)
        /\ state' = enqueue_state(st1, main)
        /\ enqueued' = [enqueue_by(st1, main, SIGCHLD) EXCEPT ![t] = FALSE]
    BY <1>4 DEF dispatch, dequeue_stopped
  <2>2. st1 \in [AllThreads -> States]
    BY DEF States
  <2>3. ReadyThreads(st1) = ReadyThreads(st) \ {t} /\ t \in ReadyThreads(st)
    BY <1>4 DEF ReadyThreads
  <2>4. /\ remove(list, t) \in Lists
        /\ LinkedList(remove(list, t), ReadyThreads(st1))
    <3>1. list \in Lists
      BY DEF SchedInv, TypeOK
    <3> HIDE DEF st1
    <3> QED
      BY <2>3, <3>1, RemoveLinked, ReadyAreThreads
  <2>5. SIGCHLD # SIGCONT
    BY DEF SIGCHLD, SIGCONT
  <2>6. st1[t] = "STOPPED" /\ \A u \in AllThreads : u # t => st1[u] = st[u]
    OBVIOUS
  <2> HIDE DEF main, st1
  <2>7. /\ LinkedList(enqueue_list(remove(list, t), st1, main, SIGCHLD),
                      ReadyThreads(enqueue_state(st1, main)))
        /\ \A u \in AllThreads :
              /\ \/ enqueue_state(st1, main)[u] = st1[u]
                 \/ /\ u = main /\ st1[u] = "BLOCKED"
                    /\ enqueue_state(st1, main)[u] = "READY"
              /\ enqueue_by(st1, main, SIGCHLD)[u] => enqueued[u]
    BY <1>1, <1>3, <2>2, <2>4, <2>5, EnqueueLinked
  <2>8. RunListLinked'
    BY <2>1, <2>7 DEF RunListLinked
  <2>9. \A u \in AllThreads : ~enqueued'[u]
    <3>1. enqueue_by(st1, main, SIGCHLD) \in [AllThreads -> BOOLEAN]
      BY <1>3 DEF enqueue_by
    <3> QED
      BY <1>3, <2>1, <2>7, <3>1
  <2>10. state'[t] = "STOPPED"
    BY <2>1, <2>6, <2>7
  <2> QED
    BY <1>2, <2>1, <2>6, <2>7, <2>8, <2>9, <2>10
<1>5. CASE ~(act = "stop" /\ st[t] \in {"READY", "RUNNING"})
  <2>1. /\ list' = list /\ state' = st
        /\ enqueued' = [enqueued EXCEPT ![t] = FALSE]
        /\ dying' = IF act \in {"terminate", "core"}
                    THEN LivingThreads(ProcOf[t]) ELSE {}
    BY <1>5 DEF dispatch
  <2>2. RunListLinked'
    BY <2>1 DEF RunListLinked
  <2>3. act \in {"terminate", "core"} /\ state[t] \notin {"FREE", "ZOMBIE"}
          => t \in dying'
    BY <2>1 DEF LivingThreads
  <2> QED
    BY <1>2, <1>3, <1>5, <2>1, <2>2, <2>3
<1> QED
  BY <1>4, <1>5

\* scheduler_isr keeps the invariant.
LEMMA IsrInv ==
    ASSUME SchedInv, scheduler_isr
    PROVE  SchedInv'
<1> DEFINE cur == running
           g == IF cur = NULL THEN gpr ELSE [gpr EXCEPT ![cur] = regs]
           st0 == IF cur # NULL /\ state[cur] = "RUNNING"
                  THEN [state EXCEPT ![cur] = "READY"] ELSE state
           t == pick
           st1 == IF enqueued[t] /\ st0[t] = "STOPPED"
                  THEN [st0 EXCEPT ![t] = "READY"] ELSE st0
           delivers == entering[t] /\ g[t].at = "user"
           lost == \/ delivers /\ pending[t] # {}
                      /\ signal_default_action(Accepted(t, pending))
                             \in {"stop", "terminate", "core"}
                   \/ st1[t] \in {"ZOMBIE", "STOPPED"}
           st2 == IF lost THEN st1 ELSE [st1 EXCEPT ![t] = "RUNNING"]
<1> Threads \subseteq AllThreads /\ Idle \in AllThreads /\ Idle \notin Threads
    /\ NULL \notin AllThreads
  BY NodeAssumption DEF AllThreads, Nodes
<1>1. /\ t \in AllThreads /\ (t # Idle => t \in ReadyThreads(state))
      /\ (in_isr /\ dying = {} => t # running)
  BY PickReady
<1>2. TypeOK /\ panic = "none" /\ dying = {}
  BY DEF SchedInv, scheduler_isr
<1>3. TypeOK'
  BY <1>1, <1>2, IsrType
<1>4. /\ st0 \in [AllThreads -> States]
      /\ \A u \in AllThreads :
            st0[u] = state[u] \/ (state[u] = "RUNNING" /\ st0[u] = "READY")
  BY <1>2 DEF TypeOK, States
<1>5. st0[t] \in {"READY", "RUNNING"}
  BY <1>1, <1>4 DEF SchedInv, ReadyThreads
<1>6. st1 = st0
  BY <1>5
<1>7. lost <=> /\ delivers /\ pending[t] # {}
               /\ signal_default_action(Accepted(t, pending))
                      \in {"stop", "terminate", "core"}
  BY <1>5, <1>6
<1>8. /\ st2 \in [AllThreads -> States]
      /\ st2[t] \in {"READY", "RUNNING"}
      /\ \A u \in AllThreads :
            \/ st2[u] = state[u]
            \/ state[u] \in {"READY", "RUNNING"} /\ st2[u] \in {"READY", "RUNNING"}
  <2>1. CASE lost
    BY <2>1, <1>1, <1>4, <1>5, <1>6
  <2>2. CASE ~lost
    <3>1. st2 = [st0 EXCEPT ![t] = "RUNNING"]
      BY <2>2, <1>6
    <3>2. state[t] \in {"READY", "RUNNING"}
      BY <1>1 DEF SchedInv, ReadyThreads
    <3> HIDE DEF st2, st0, t
    <3> QED
      BY <3>1, <3>2, <1>1, <1>4 DEF States
  <2> QED
    BY <2>1, <2>2
<1>9. ReadyThreads(st2) = ReadyThreads(state)
  BY <1>8 DEF ReadyThreads
<1>10. LinkedList(list, ReadyThreads(st2))
  BY <1>9 DEF SchedInv, RunListLinked
<1>11. CASE zombie[ProcOf[t]]
  <2>1. /\ panic' = "null_pagemap"
        /\ UNCHANGED <<list, state, gpr, running, regs, ipi, in_isr, dying,
                       threadVars, procVars>>
    BY <1>5, <1>11 DEF scheduler_isr
  <2> QED
    BY <1>3, <2>1 DEF SchedInv, RunListLinked, PickAssertHolds, OwnContext,
                      threadVars, procVars
<1>12. CASE ~zombie[ProcOf[t]]
  <2>1. /\ gpr' = g /\ running' = t /\ in_isr' = lost
        /\ regs' = IF lost THEN regs ELSE g[t]
        /\ IF delivers
           THEN dispatch(t, list, st2, pending)
           ELSE /\ state' = st2
                /\ UNCHANGED <<list, dying, threadVars, panic>>
    BY <1>5, <1>12 DEF scheduler_isr
  <2>2. \A u \in AllThreads :
           /\ u # cur => g[u] = gpr[u]
           /\ u = cur => g[u] = regs
    BY <1>2 DEF TypeOK
  <2>3. ~in_isr /\ cur # NULL => regs.tid = cur
    BY DEF SchedInv, OwnContext
  <2>4. g[t].tid = t
    <3>1. CASE t = cur
      BY <1>1, <1>2, <2>2, <2>3, <3>1 DEF SchedInv
    <3>2. CASE t # cur
      <4>1. state[t] \in {"READY", "RUNNING"}
        BY <1>1 DEF SchedInv, ReadyThreads
      <4> QED
        BY <1>1, <2>2, <3>2, <4>1 DEF SchedInv, OwnContext
    <3> QED
      BY <3>1, <3>2
  <2>5. \A u \in AllThreads :
           state[u] \in {"FREE", "READY", "RUNNING", "BLOCKED"} => g[u].tid = u
    <3> TAKE u \in AllThreads
    <3>1. CASE u = cur
      <4>1. in_isr => state[u] \in {"STOPPED", "ZOMBIE"}
        BY <1>2, <3>1 DEF SchedInv
      <4> QED
        BY <2>2, <2>3, <3>1, <4>1
    <3>2. CASE u # cur
      BY <2>2, <3>2 DEF SchedInv, OwnContext
    <3> QED
      BY <3>1, <3>2
  <2>6. CASE delivers
    <3>1. t \in Threads
      BY <1>1, <2>6 DEF SchedInv, AllThreads
    <3>2. dispatch(t, list, st2, pending)
      BY <2>1, <2>6
    <3>3. pending \in [AllThreads -> SUBSET AllSignals]
      BY <1>2 DEF TypeOK
    <3>4. /\ RunListLinked' /\ panic' # "pick_assert" /\ ~entering'[Idle]
          /\ \A u \in AllThreads :
                /\ ~enqueued'[u]
                /\ \/ state'[u] = st2[u]
                   \/ u # t /\ st2[u] = "BLOCKED" /\ state'[u] = "READY"
                   \/ u = t /\ state'[u] = "STOPPED"
          /\ (/\ pending[t] # {}
              /\ signal_default_action(Accepted(t, pending))
                    \in {"stop", "terminate", "core"}
              /\ st2[t] \in {"READY", "RUNNING"}
              /\ state[t] \notin {"FREE", "ZOMBIE"})
             => t \in dying' \/ state'[t] = "STOPPED"
      <4> HIDE DEF st2, t
      <4> QED
        BY <1>8, <1>10, <3>1, <3>2, <3>3, DispatchLinked
    <3>5. lost => t \in dying' \/ state'[t] = "STOPPED"
      BY <1>1, <1>7, <1>8, <3>1, <3>4 DEF ReadyThreads
    <3>6. OwnContext'
      <4> HIDE DEF st2, t, g, lost
      <4> QED
        BY <1>8, <2>1, <2>4, <2>5, <3>4 DEF OwnContext
    <3>7. /\ \A u \in AllThreads : state'[u] = "FREE" => gpr'[u].tid = u
          /\ state'[Idle] \in {"READY", "RUNNING"}
      <4>1. state[Idle] \in {"READY", "RUNNING"}
        BY DEF SchedInv
      <4> HIDE DEF st2, t, g, lost
      <4> QED
        BY <1>8, <2>1, <2>5, <3>1, <3>4, <4>1
    <3> HIDE DEF st2, t, g, lost
    <3> QED
      BY <1>3, <2>1, <3>1, <3>4, <3>5, <3>6, <3>7 DEF SchedInv, PickAssertHolds
  <2>7. CASE ~delivers
    <3>1. ~lost
      BY <1>7, <2>7
    <3>2. state' = st2 /\ UNCHANGED <<list, dying, threadVars, panic>>
      BY <2>1, <2>7
    <3>3. RunListLinked'
      BY <1>10, <3>2 DEF RunListLinked
    <3>4. /\ state[Idle] \in {"READY", "RUNNING"} /\ ~entering[Idle]
          /\ \A u \in AllThreads : ~enqueued[u]
      BY DEF SchedInv
    <3> HIDE DEF st2, t, g, lost
    <3>5. OwnContext'
      BY <1>8, <2>1, <2>4, <2>5, <3>1, <3>2 DEF OwnContext
    <3>6. /\ \A u \in AllThreads : state'[u] = "FREE" => gpr'[u].tid = u
          /\ state'[Idle] \in {"READY", "RUNNING"}
      BY <1>8, <2>1, <2>5, <3>2, <3>4
    <3> QED
      BY <1>2, <1>3, <2>1, <3>1, <3>2, <3>3, <3>4, <3>5, <3>6
      DEF SchedInv, PickAssertHolds, threadVars
  <2> QED
    BY <2>6, <2>7
<1> QED
  BY <1>11, <1>12
-----------------------------------------------------------------------------
\* A step that neither switches threads nor saves registers keeps the invariant
\* when it keeps the run list and only moves threads between the states in
\* which their own registers are saved, or out of them.
LEMMA SameContexts ==
    ASSUME SchedInv, TypeOK', RunListLinked', panic' # "pick_assert",
           UNCHANGED <<gpr, running, in_isr>>, regs'.tid = regs.tid,
           ~entering'[Idle], \A u \in AllThreads : ~enqueued'[u],
           \A u \in AllThreads :
              \/ state'[u] = state[u]
              \/ /\ u \in Threads
                 /\ \/ state'[u] \in {"STOPPED", "ZOMBIE"}
                    \/ state[u] \in {"FREE", "READY", "RUNNING", "BLOCKED"},
           in_isr => \/ running \in dying'
                     \/ state'[running] \in {"STOPPED", "ZOMBIE"}
    PROVE  SchedInv'
<1> Idle \in AllThreads /\ Idle \notin Threads
  BY NodeAssumption DEF AllThreads
<1>1. \A u \in AllThreads :
         state'[u] \in {"FREE", "READY", "RUNNING", "BLOCKED"} => gpr'[u].tid = u
  BY DEF SchedInv, OwnContext
<1>2. OwnContext'
  BY <1>1 DEF SchedInv, OwnContext
<1>3. state'[Idle] \in {"READY", "RUNNING"}
  BY DEF SchedInv
<1> QED
  BY <1>1, <1>2, <1>3 DEF SchedInv, PickAssertHolds

\* The invariant holds initially.
LEMMA InvInit ==
    ASSUME Init
    PROVE  SchedInv
<1> Idle \in AllThreads /\ Idle \notin Threads /\ ListHead \notin AllThreads
    /\ NULL \notin AllThreads /\ NULL # ListHead /\ KernelMain \in Threads
    /\ Nodes = AllThreads \cup {ListHead} /\ Threads \subseteq AllThreads
  BY NodeAssumption, ProcAssumption DEF AllThreads, Nodes
<1>1. TypeOK
  BY TypeInit
<1>2. RunListLinked
  <2>1. ReadyThreads(state) = {KernelMain}
    BY DEF Init, ReadyThreads
  <2>2. \A x \in Nodes :
           /\ list.next[x] = IF x = ListHead THEN KernelMain
                             ELSE IF x = KernelMain THEN ListHead ELSE NULL
           /\ list.prev[x] = list.next[x]
    BY DEF Init
  <2> QED
    BY <2>1, <2>2 DEF RunListLinked, LinkedList, is_linked
<1>3. PickAssertHolds /\ OwnContext
  BY DEF Init, PickAssertHolds, OwnContext
<1>4. /\ \A t \in AllThreads : ~enqueued[t] /\ gpr[t].tid = t
      /\ state[Idle] \in {"READY", "RUNNING"} /\ ~entering[Idle] /\ ~in_isr
  BY DEF Init
<1> QED
  BY <1>1, <1>2, <1>3, <1>4 DEF SchedInv

\* Every step of the scheduler keeps the invariant.
LEMMA InvStep ==
    ASSUME SIGCONT \notin Signals, SchedInv, [Next]_vars
    PROVE  SchedInv'
<1> Threads \subseteq AllThreads /\ Idle \in AllThreads /\ Idle \notin Threads
  BY NodeAssumption DEF AllThreads
<1>0. TypeOK'
  BY TypeStep, PickReady DEF SchedInv
<1>a. /\ TypeOK /\ list \in Lists /\ state \in [AllThreads -> States]
      /\ enqueued \in [AllThreads -> BOOLEAN]
      /\ entering \in [AllThreads -> BOOLEAN]
      /\ regs \in Contexts /\ panic # "pick_assert"
      /\ LinkedList(list, ReadyThreads(state))
      /\ \A u \in AllThreads : ~enqueued[u]
      /\ ~entering[Idle]
  BY DEF SchedInv, TypeOK, RunListLinked, PickAssertHolds
<1>b. \A at : context_at(at).tid = regs.tid
  BY DEF context_at
<1>c. ASSUME NEW t \in Threads, NEW pend, syscall_return(t, pend)
      PROVE  regs'.tid = regs.tid /\ ~entering'[Idle]
  BY <1>a, <1>b, <1>c DEF syscall_return
<1>1. ASSUME NEW t \in Threads, NEW u \in Threads, NEW sig \in Signals,
             kill(t, u, sig)
      PROVE  SchedInv'
  <2>1. /\ ~in_isr /\ send_signal(list, state, u, sig)
        /\ syscall_return(t, pending')
        /\ UNCHANGED <<gpr, running, in_isr, panic>>
    BY <1>1 DEF kill, Executes, Open
  <2>2. /\ RunListLinked'
        /\ \A v \in AllThreads :
              /\ ~enqueued'[v]
              /\ \/ state'[v] = state[v]
                 \/ v = u /\ state[v] = "BLOCKED" /\ state'[v] = "READY"
    BY <1>a, <2>1, SendSignalLinked
  <2> QED
    BY <1>0, <1>a, <1>c, <2>1, <2>2, SameContexts
<1>2. ASSUME NEW t \in Threads, wait(t)
      PROVE  SchedInv'
  <2>1. block(t) /\ ~in_isr
    BY <1>2 DEF wait, Executes, Open
  <2>2. UNCHANGED <<gpr, running, in_isr, dying, threadVars, procVars>>
    BY <2>1 DEF block
  <2>3. CASE /\ state[t] \in {"READY", "RUNNING"}
             /\ list' = remove(list, t)
             /\ state' = [state EXCEPT ![t] = "BLOCKED"]
             /\ regs' = context_at("wait") /\ UNCHANGED panic
    <3>1. /\ ReadyThreads(state') = ReadyThreads(state) \ {t}
          /\ t \in ReadyThreads(state)
      BY <1>a, <2>3 DEF ReadyThreads
    <3>2. LinkedList(remove(list, t), ReadyThreads(state) \ {t})
      BY <1>a, <3>1, RemoveLinked, ReadyAreThreads
    <3>3. RunListLinked'
      BY <2>3, <3>1, <3>2 DEF RunListLinked
    <3>4. \A u \in AllThreads :
             state'[u] = state[u] \/ (u = t /\ state[u] \in {"READY", "RUNNING"})
      BY <1>a, <2>3
    <3> QED
      BY <1>0, <1>a, <1>b, <2>1, <2>2, <2>3, <3>3, <3>4, SameContexts
      DEF threadVars
  <2>4. CASE panic' = "dequeue_assert" /\ UNCHANGED <<list, state, regs>>
    <3>1. RunListLinked'
      BY <1>a, <2>4 DEF RunListLinked
    <3> QED
      BY <1>0, <1>a, <2>1, <2>2, <2>4, <3>1, SameContexts DEF threadVars
  <2> QED
    BY <2>1, <2>3, <2>4 DEF block
<1>3. ASSUME NEW t \in Threads, wait_return(t)
      PROVE  SchedInv'
  <2>1. /\ ~in_isr /\ syscall_return(t, pending)
        /\ UNCHANGED <<list, state, gpr, running, in_isr, enqueued, panic>>
    BY <1>3 DEF wait_return, Executes, Open
  <2>2. RunListLinked'
    BY <1>a, <2>1 DEF RunListLinked
  <2> QED
    BY <1>0, <1>a, <1>c, <2>1, <2>2, SameContexts
<1>4. ASSUME NEW t \in Threads, kernel_thread_resume(t) \/ sched_yield(t)
      PROVE  SchedInv'
  <2>1. /\ ~in_isr /\ regs'.tid = regs.tid
        /\ UNCHANGED <<list, state, gpr, running, in_isr, entering, enqueued, panic>>
    BY <1>4, <1>b
    DEF kernel_thread_resume, sched_yield, Executes, Open, threadVars
  <2>2. RunListLinked'
    BY <1>a, <2>1 DEF RunListLinked
  <2> QED
    BY <1>0, <1>a, <2>1, <2>2, SameContexts
<1>5. ASSUME NEW t \in Threads, trigger(t)
      PROVE  SchedInv'
  <2>1. /\ ~in_isr /\ send_signal(list, state, t, -1)
        /\ UNCHANGED <<gpr, running, regs, in_isr, entering, panic>>
    BY <1>5 DEF trigger, send_signal, Open
  <2>2. -1 # SIGCONT
    BY DEF SIGCONT
  <2>3. /\ RunListLinked'
        /\ \A v \in AllThreads :
              /\ ~enqueued'[v]
              /\ \/ state'[v] = state[v]
                 \/ v = t /\ state[v] = "BLOCKED" /\ state'[v] = "READY"
    BY <1>a, <2>1, <2>2, SendSignalLinked
  <2> QED
    BY <1>0, <1>a, <2>1, <2>3, SameContexts
<1>6. ASSUME NEW u \in Threads, state[u] = "FREE", start_thread(u)
      PROVE  /\ RunListLinked'
             /\ \A v \in AllThreads :
                   state'[v] = state[v] \/ (v = u /\ state[v] = "FREE")
  <2>1. ReadyThreads(state') = ReadyThreads(state) \cup {u} /\ u \notin ReadyThreads(state)
    BY <1>a, <1>6 DEF start_thread, ReadyThreads
  <2>2. LinkedList(add_before(list, u), ReadyThreads(state) \cup {u})
    BY <1>a, <2>1, AddBeforeLinked, ReadyAreThreads
  <2> QED
    BY <1>a, <1>6, <2>1, <2>2 DEF start_thread, RunListLinked
<1>7. ASSUME NEW t \in Threads, NEW u \in Threads, create_init_process(t, u)
      PROVE  SchedInv'
  <2>1. /\ ~in_isr /\ state[u] = "FREE" /\ start_thread(u)
        /\ UNCHANGED <<gpr, running, regs, in_isr, entering, enqueued, panic>>
    BY <1>7 DEF create_init_process, Executes, Open, threadVars
  <2> QED
    BY <1>0, <1>a, <1>6, <2>1, SameContexts
<1>8. ASSUME NEW t \in Threads, NEW u \in Threads, clone(t, u)
      PROVE  SchedInv'
  <2>1. ~in_isr /\ state[u] = "FREE" /\ UNCHANGED <<gpr, running, in_isr, enqueued>>
    BY <1>8 DEF clone, Executes, Open
  <2>2. CASE panic' = "null_pagemap" /\ UNCHANGED <<list, state, regs, entering>>
    <3>1. RunListLinked'
      BY <1>a, <2>2 DEF RunListLinked
    <3> QED
      BY <1>0, <1>a, <2>1, <2>2, <3>1, SameContexts
  <2>3. CASE start_thread(u) /\ syscall_return(t, pending) /\ UNCHANGED panic
    BY <1>0, <1>a, <1>c, <1>6, <2>1, <2>3, SameContexts
  <2> QED
    BY <1>8, <2>2, <2>3 DEF clone
<1>9. ASSUME NEW t \in Threads, exit(t) \/ exit_group(t)
      PROVE  SchedInv'
  <2>1. /\ ~in_isr /\ regs'.tid = regs.tid
        /\ UNCHANGED <<list, state, gpr, running, in_isr, entering, enqueued, panic>>
    BY <1>9, <1>b DEF exit, exit_group, terminate_self, Executes, Open, threadVars
  <2>2. RunListLinked'
    BY <1>a, <2>1 DEF RunListLinked
  <2> QED
    BY <1>0, <1>a, <2>1, <2>2, SameContexts
<1>10. ASSUME NEW t \in Threads, terminate_thread(t)
       PROVE  SchedInv'
  <2> DEFINE p == ProcOf[t]
             st == [state EXCEPT ![t] = "ZOMBIE"]
             main == MainOf[parent[p]]
  <2>1. /\ dying' = dying \ {t}
        /\ UNCHANGED <<gpr, running, regs, in_isr, entering>>
    BY <1>10 DEF terminate_thread
  <2>2. in_isr => /\ running \in Threads
                  /\ running \in dying \/ state[running] \in {"STOPPED", "ZOMBIE"}
    BY DEF SchedInv
  <2>3. CASE state[t] = "ZOMBIE"
    <3>1. UNCHANGED <<list, state, enqueued, panic>>
      BY <1>10, <2>3 DEF terminate_thread
    <3>2. RunListLinked'
      BY <1>a, <3>1 DEF RunListLinked
    <3>3. in_isr => running \in dying' \/ state'[running] \in {"STOPPED", "ZOMBIE"}
      BY <2>1, <2>2, <2>3, <3>1
    <3> QED
      BY <1>0, <1>a, <2>1, <3>1, <3>2, <3>3, SameContexts
  <2>4. CASE state[t] # "ZOMBIE"
    <3>1. /\ st \in [AllThreads -> States] /\ st[t] = "ZOMBIE"
          /\ \A u \in AllThreads : u # t => st[u] = state[u]
          /\ ReadyThreads(st) = ReadyThreads(state) \ {t}
      BY <1>a DEF States, ReadyThreads
    <3>2. unlink(t) \in Lists /\ LinkedList(unlink(t), ReadyThreads(st))
      <4>1. CASE t \in ReadyThreads(state)
        <5> HIDE DEF st
        <5>1. unlink(t) = remove(list, t)
          BY <4>1 DEF unlink, ReadyThreads
        <5> QED
          BY <1>a, <3>1, <4>1, <5>1, RemoveLinked, ReadyAreThreads
      <4>2. CASE t \notin ReadyThreads(state)
        BY <1>a, <3>1, <4>2 DEF unlink, ReadyThreads
      <4> QED
        BY <4>1, <4>2
    <3>3. main \in Threads
      BY <1>a, ProcAssumption DEF TypeOK
    <3>4. SIGCHLD # SIGCONT
      BY DEF SIGCHLD, SIGCONT
    <3>5. /\ RunListLinked' /\ panic' # "pick_assert"
          /\ \A u \in AllThreads :
                /\ ~enqueued'[u]
                /\ \/ state'[u] = st[u]
                   \/ u = main /\ st[u] = "BLOCKED" /\ state'[u] = "READY"
      <4>1. CASE living[p] = 1 /\ p # InitProc
        <5>1. zombify(p, unlink(t), st)
          BY <1>10, <2>4, <4>1 DEF terminate_thread
        <5>2. send_signal(unlink(t), st, main, SIGCHLD) /\ UNCHANGED panic
          BY <5>1 DEF zombify
        <5> HIDE DEF st, main
        <5> QED
          BY <1>a, <3>1, <3>2, <3>3, <3>4, <5>2, SendSignalLinked
      <4>2. CASE ~(living[p] = 1 /\ p # InitProc)
        <5>1. /\ list' = unlink(t) /\ state' = st
              /\ panic' = IF living[p] = 1 THEN "init_died" ELSE panic
              /\ UNCHANGED enqueued
          BY <1>10, <2>4, <4>2 DEF terminate_thread
        <5> HIDE DEF st
        <5> QED
          BY <1>a, <3>2, <5>1 DEF RunListLinked
      <4> QED
        BY <4>1, <4>2
    <3> HIDE DEF st, main
    <3>6. \A u \in AllThreads :
             \/ state'[u] = state[u]
             \/ u \in Threads /\ (\/ state'[u] = "ZOMBIE"
                                  \/ state[u] = "BLOCKED" /\ state'[u] = "READY")
      BY <3>1, <3>3, <3>5
    <3>7. in_isr => running \in dying' \/ state'[running] \in {"STOPPED", "ZOMBIE"}
      BY <2>1, <2>2, <3>1, <3>5
    <3> QED
      BY <1>0, <1>a, <2>1, <3>5, <3>6, <3>7, SameContexts
  <2> QED
    BY <2>3, <2>4
<1>11. ASSUME NEW t \in Threads, exception(t)
       PROVE  SchedInv'
  <2> DEFINE pend == [pending EXCEPT ![t] = @ \cup {SIGSEGV}]
             dies == zombie[ProcOf[t]]
                     /\ signal_default_action(Accepted(t, pend)) = "core"
  <2>1. /\ ~in_isr /\ running = t /\ UNCHANGED <<running, regs, in_isr>>
    BY <1>11 DEF exception, Executes, Open
  <2>2. CASE dies
    <3>1. panic' = "null_pagemap" /\ UNCHANGED <<list, state, gpr, entering, enqueued>>
      BY <1>11, <2>2 DEF exception, threadVars
    <3>2. RunListLinked'
      BY <1>a, <3>1 DEF RunListLinked
    <3> QED
      BY <1>0, <1>a, <2>1, <3>1, <3>2, SameContexts
  <2>3. CASE ~dies
    <3>1. gpr' = [gpr EXCEPT ![t] = regs] /\ dispatch(t, list, state, pend)
      BY <1>11, <2>3 DEF exception
    <3>2. pend \in [AllThreads -> SUBSET AllSignals]
      BY <1>a DEF TypeOK, AllSignals
    <3> HIDE DEF pend
    <3>3. /\ RunListLinked' /\ panic' # "pick_assert" /\ ~entering'[Idle]
          /\ \A u \in AllThreads :
                /\ ~enqueued'[u]
                /\ \/ state'[u] = state[u]
                   \/ u # t /\ state[u] = "BLOCKED" /\ state'[u] = "READY"
                   \/ u = t /\ state'[u] = "STOPPED"
      BY <1>a, <3>1, <3>2, DispatchLinked
    <3>4. regs.tid = t /\ t # NULL
      BY <2>1, NodeAssumption DEF SchedInv, OwnContext, Nodes
    <3>5. \A u \in AllThreads :
             state'[u] \in {"FREE", "READY", "RUNNING", "BLOCKED"} => gpr'[u].tid = u
      BY <1>a, <3>1, <3>3, <3>4 DEF SchedInv, OwnContext, TypeOK
    <3>6. OwnContext'
      BY <2>1, <3>4, <3>5 DEF OwnContext
    <3>7. state'[Idle] \in {"READY", "RUNNING"}
      BY <3>3 DEF SchedInv
    <3> QED
      BY <1>0, <2>1, <3>3, <3>5, <3>6, <3>7 DEF SchedInv, PickAssertHolds
  <2> QED
    BY <2>2, <2>3
<1>12. CASE scheduler_isr
  BY <1>12, IsrInv
<1>13. CASE halted \/ UNCHANGED vars
  BY <1>0, <1>13 DEF halted, vars, threadVars, procVars, SchedInv, RunListLinked,
                     PickAssertHolds, OwnContext
<1> QED
  BY <1>1, <1>2, <1>3, <1>4, <1>5, <1>7, <1>8, <1>9, <1>10, <1>11, <1>12,
     <1>13 DEF Next, SteadyNext
-----------------------------------------------------------------------------
\* While no program sends SIGCONT, whatever the threads, processes and other
\* signals: the run list links exactly the runnable threads, the assertion in
\* scheduler_isr holds and every thread resumes with its own registers.
THEOREM SchedSafe == SIGCONT \notin Signals => (Spec => []SchedInv)
<1> SUFFICES ASSUME SIGCONT \notin Signals
             PROVE  Spec => []SchedInv
  OBVIOUS
<1>1. Init => SchedInv
  BY InvInit
<1>2. SchedInv /\ [Next]_vars => SchedInv'
  BY InvStep
<1> QED
  BY <1>1, <1>2, PTL DEF Spec

\* The run list property of SchedSafe on its own: blocking, waking, stopping
\* and terminating threads never breaks the links of the run list nor leaves a
\* thread on it that cannot run, CPU exceptions included.
THEOREM RunListSafe == SIGCONT \notin Signals => (Spec => []RunListLinked)
<1>1. SchedInv => RunListLinked
  BY DEF SchedInv
<1> QED
  BY <1>1, SchedSafe, PTL

\* The register property of SchedSafe on its own: the retry of scheduler_isr,
\* which copies the registers of one thread into another, never reaches a
\* thread that will load them.
THEOREM ContextSafe == SIGCONT \notin Signals => (Spec => []OwnContext)
<1>1. SchedInv => OwnContext
  BY DEF SchedInv
<1> QED
  BY <1>1, SchedSafe, PTL

-----------------------------------------------------------------------------
\* A thread that is leaving the CPU for good never comes back: terminate_self has
\* an interrupt pending, and the registers it leaves behind are those of a thread
\* that will not run again.
Departing ==
    /\ dying # {} => ipi \/ in_isr
    /\ regs.at = "dead" => /\ running \in Threads
                           /\ running \in dying \/ state[running] \in {"STOPPED", "ZOMBIE"}
    /\ \A t \in AllThreads : state[t] \in {"FREE", "READY", "RUNNING", "BLOCKED"} =>
          gpr[t].at # "dead"

\* The inductive invariant of SchedConsistent.
SteadyInv ==
    SchedInv /\ OnlyRunnableRuns /\ BlockedWaits /\ DequeueAssertHolds /\ Departing

\* What one run of scheduler_isr does, unless the process it switches to has no
\* page tables: the picked thread runs on, with the registers saved for it, or
\* its signal stops it or begins to terminate its process, and a retry follows.
LEMMA IsrEffect ==
    ASSUME SchedInv, scheduler_isr
    PROVE  \/ /\ panic' = "null_pagemap"
              /\ UNCHANGED <<list, state, gpr, running, regs, ipi, in_isr, dying,
                             threadVars, procVars>>
           \/ /\ panic' = "none" /\ dying = {}
              /\ running' = pick /\ pick \in AllThreads
              /\ state[pick] \in {"READY", "RUNNING"}
              /\ gpr' = IF running = NULL THEN gpr ELSE [gpr EXCEPT ![running] = regs]
              /\ \A u \in AllThreads :
                    \/ state'[u] = state[u]
                    \/ state[u] \in {"READY", "RUNNING"} /\ state'[u] \in {"READY", "RUNNING"}
                    \/ state[u] = "BLOCKED" /\ state'[u] = "READY"
                    \/ u = pick /\ in_isr' /\ state'[u] = "STOPPED"
              /\ ~in_isr' => /\ state'[pick] = "RUNNING" /\ regs' = gpr'[pick]
                             /\ dying' = {}
              /\ in_isr' => /\ regs' = regs /\ pick \in Threads /\ gpr'[pick].at = "user"
                            /\ dying' \in {{}, LivingThreads(ProcOf[pick])}
              /\ ~zombie[ProcOf[pick]]
              /\ UNCHANGED <<parent, living, zombie>>
<1> DEFINE cur == running
           g == IF cur = NULL THEN gpr ELSE [gpr EXCEPT ![cur] = regs]
           st0 == IF cur # NULL /\ state[cur] = "RUNNING"
                  THEN [state EXCEPT ![cur] = "READY"] ELSE state
           t == pick
           st1 == IF enqueued[t] /\ st0[t] = "STOPPED"
                  THEN [st0 EXCEPT ![t] = "READY"] ELSE st0
           delivers == entering[t] /\ g[t].at = "user"
           fatal == /\ pending[t] # {}
                    /\ signal_default_action(Accepted(t, pending))
                           \in {"stop", "terminate", "core"}
           lost == \/ delivers /\ pending[t] # {}
                      /\ signal_default_action(Accepted(t, pending))
                             \in {"stop", "terminate", "core"}
                   \/ st1[t] \in {"ZOMBIE", "STOPPED"}
           st2 == IF lost THEN st1 ELSE [st1 EXCEPT ![t] = "RUNNING"]
<1> Threads \subseteq AllThreads /\ Idle \in AllThreads /\ NULL \notin AllThreads
  BY NodeAssumption DEF AllThreads, Nodes
<1>1. t \in AllThreads /\ (t # Idle => t \in ReadyThreads(state))
  BY PickReady
<1>2. TypeOK /\ panic = "none" /\ dying = {}
  BY DEF SchedInv, scheduler_isr
<1>3. state[t] \in {"READY", "RUNNING"}
  BY <1>1 DEF SchedInv, ReadyThreads
<1>4. /\ st0 \in [AllThreads -> States]
      /\ \A u \in AllThreads :
            st0[u] = state[u] \/ (state[u] = "RUNNING" /\ st0[u] = "READY")
  BY <1>2 DEF TypeOK, States
<1>5. st0[t] \in {"READY", "RUNNING"} /\ st1 = st0
  BY <1>1, <1>3, <1>4
<1>6. lost <=> delivers /\ fatal
  BY <1>5
<1>7. CASE zombie[ProcOf[t]]
  BY <1>5, <1>7 DEF scheduler_isr
<1>8. CASE ~zombie[ProcOf[t]]
  <2>1. /\ gpr' = g /\ running' = t /\ in_isr' = lost
        /\ regs' = IF lost THEN regs ELSE g[t]
        /\ IF delivers
           THEN dispatch(t, list, st2, pending)
           ELSE /\ state' = st2
                /\ UNCHANGED <<list, dying, threadVars, panic>>
        /\ UNCHANGED <<parent, living, zombie>>
    BY <1>5, <1>8 DEF scheduler_isr
  <2>2. /\ lost => st2 = st0
        /\ ~lost => st2 = [st0 EXCEPT ![t] = "RUNNING"]
    BY <1>5
  <2>3. /\ \A u \in AllThreads :
              \/ st2[u] = state[u]
              \/ state[u] \in {"READY", "RUNNING"} /\ st2[u] \in {"READY", "RUNNING"}
        /\ st2[t] \in {"READY", "RUNNING"}
        /\ ~lost => st2[t] = "RUNNING"
        /\ st2 \in [AllThreads -> States]
    <3>1. CASE lost
      <4> HIDE DEF lost, st2, st0, t
      <4> QED BY <1>1, <1>4, <1>5, <2>2, <3>1
    <3>2. CASE ~lost
      <4> HIDE DEF lost, st2, st0, t
      <4> QED BY <1>1, <1>3, <1>4, <2>2, <3>2 DEF States
    <3> QED BY <3>1, <3>2
  <2>4. CASE ~delivers
    <3>1. ~lost /\ state' = st2 /\ dying' = dying /\ panic' = panic
      BY <1>6, <2>1, <2>4
    <3> HIDE DEF lost, st2, st0, t, st1
    <3> QED BY <1>1, <1>2, <1>3, <1>8, <2>1, <2>3, <3>1 DEF t
  <2>5. CASE delivers
    <3> DEFINE sig == Accepted(t, pending)
               act == IF pending[t] = {} THEN "none" ELSE signal_default_action(sig)
               main == MainOf[parent[ProcOf[t]]]
    <3>1. t \in Threads
      BY <1>1, <2>5 DEF SchedInv, AllThreads
    <3>2. dispatch(t, list, st2, pending)
      BY <2>1, <2>5
    <3>3. lost <=> act \in {"stop", "terminate", "core"}
      BY <1>6, <2>5
    <3>4. /\ dying' = IF act \in {"terminate", "core"} THEN LivingThreads(ProcOf[t]) ELSE {}
          /\ IF act = "stop" /\ st2[t] \in {"READY", "RUNNING"}
             THEN dequeue_stopped(t, list, st2, main) /\ UNCHANGED panic
             ELSE state' = st2 /\ panic' = IF act = "stop" THEN "dequeue_assert" ELSE panic
      BY <3>2 DEF dispatch
    <3> HIDE DEF act, st2, lost, st1
    <3>5. panic' = "none" /\ dying' \in {{}, LivingThreads(ProcOf[t])} /\ (~lost => dying' = {})
      BY <1>2, <2>3, <3>3, <3>4
    <3>6. CASE act = "stop"
      <4> DEFINE s3 == [st2 EXCEPT ![t] = "STOPPED"]
      <4>1. state' = enqueue_state(s3, main)
        BY <2>3, <3>4, <3>6 DEF dequeue_stopped
      <4>2. \A u \in AllThreads : s3[u] = IF u = t THEN "STOPPED" ELSE st2[u]
        BY <2>3
      <4>3. \A u \in AllThreads : \/ state'[u] = s3[u]
                                  \/ s3[u] = "BLOCKED" /\ state'[u] = "READY"
        BY <2>3, <4>1 DEF enqueue_state
      <4> HIDE DEF s3
      <4>4. \A u \in AllThreads :
                \/ state'[u] = state[u]
                \/ state[u] \in {"READY", "RUNNING"} /\ state'[u] \in {"READY", "RUNNING"}
                \/ state[u] = "BLOCKED" /\ state'[u] = "READY"
                \/ u = t /\ lost /\ state'[u] = "STOPPED"
        BY <2>3, <3>3, <3>6, <4>2, <4>3
      <4>5. lost /\ g[t].at = "user"
        BY <2>5, <3>3, <3>6
      <4> HIDE DEF g, delivers
      <4> QED BY <1>1, <1>2, <1>3, <1>8, <2>1, <3>1, <3>5, <4>4, <4>5 DEF g
    <3>7. CASE act # "stop"
      <4>1. state' = st2 /\ g[t].at = "user"
        BY <2>5, <3>4, <3>7
      <4> HIDE DEF delivers
      <4> QED BY <1>1, <1>2, <1>3, <1>8, <2>1, <2>3, <3>1, <3>5, <4>1
    <3> QED BY <3>6, <3>7
  <2> QED BY <2>4, <2>5
<1> QED BY <1>7, <1>8

\* enqueue_thread makes a blocked thread ready and changes no other.
Woken(st, st2) ==
    \A u \in AllThreads : st2[u] = st[u] \/ (st[u] = "BLOCKED" /\ st2[u] = "READY")

LEMMA EnqueueWakes ==
    ASSUME NEW st \in [AllThreads -> States], NEW t \in AllThreads
    PROVE  Woken(st, enqueue_state(st, t))
BY DEF Woken, enqueue_state

\* What one iteration of the loop of terminate_process does.
LEMMA TerminateEffect ==
    ASSUME SchedInv, NEW t \in Threads, terminate_thread(t)
    PROVE  /\ panic = "none" /\ t \in dying /\ dying' = dying \ {t}
           /\ UNCHANGED <<gpr, running, regs, ipi, in_isr>>
           /\ state'[t] = "ZOMBIE"
           /\ \A u \in AllThreads \ {t} :
                 state'[u] = state[u] \/ (state[u] = "BLOCKED" /\ state'[u] = "READY")
           /\ state[t] = "ZOMBIE" => UNCHANGED <<parent, living, zombie, panic>>
           /\ state[t] # "ZOMBIE" =>
                 /\ living' = [living EXCEPT ![ProcOf[t]] = @ - 1]
                 /\ IF living[ProcOf[t]] = 1 /\ ProcOf[t] # InitProc
                    THEN /\ zombie' = [zombie EXCEPT ![ProcOf[t]] = TRUE]
                         /\ parent' = [c \in Procs |-> IF parent[c] = ProcOf[t] THEN InitProc
                                                       ELSE parent[c]]
                         /\ panic' = panic
                    ELSE /\ UNCHANGED <<parent, zombie>>
                         /\ panic' = IF living[ProcOf[t]] = 1 THEN "init_died" ELSE panic
<1> DEFINE p == ProcOf[t]
           st == [state EXCEPT ![t] = "ZOMBIE"]
           main == MainOf[parent[p]]
<1> Threads \subseteq AllThreads
  BY DEF AllThreads
<1>1. /\ panic = "none" /\ t \in dying /\ dying' = dying \ {t}
      /\ UNCHANGED <<gpr, running, regs, ipi, in_isr>>
  BY DEF terminate_thread
<1>2. TypeOK /\ state \in [AllThreads -> States] /\ main \in AllThreads
  BY ProcAssumption DEF SchedInv, TypeOK, AllThreads
<1>3. /\ st \in [AllThreads -> States] /\ st[t] = "ZOMBIE"
      /\ \A u \in AllThreads \ {t} : st[u] = state[u]
  BY <1>2 DEF States
<1>4. CASE state[t] = "ZOMBIE"
  <2>1. UNCHANGED <<list, state, pending, enqueued, parent, living, zombie, panic>>
    BY <1>4 DEF terminate_thread
  <2> QED BY <1>1, <1>4, <2>1
<1>5. CASE state[t] # "ZOMBIE"
  <2>1. living' = [living EXCEPT ![p] = @ - 1]
    BY <1>5 DEF terminate_thread
  <2>2. CASE living[p] = 1 /\ p # InitProc
    <3>1. zombify(p, unlink(t), st)
      BY <1>5, <2>2 DEF terminate_thread
    <3>2. /\ zombie' = [zombie EXCEPT ![p] = TRUE]
          /\ parent' = [c \in Procs |-> IF parent[c] = p THEN InitProc ELSE parent[c]]
          /\ panic' = panic
          /\ state' = enqueue_state(st, main)
      BY <3>1 DEF zombify, send_signal
    <3> HIDE DEF st, main
    <3>3. Woken(st, state')
      BY <1>2, <1>3, <3>2, EnqueueWakes
    <3> QED BY <1>1, <1>3, <1>5, <2>1, <2>2, <3>2, <3>3 DEF Woken
  <2>3. CASE ~(living[p] = 1 /\ p # InitProc)
    <3>1. /\ state' = st /\ UNCHANGED <<parent, zombie>>
          /\ panic' = IF living[p] = 1 THEN "init_died" ELSE panic
      BY <1>5, <2>3 DEF terminate_thread
    <3> HIDE DEF st, main
    <3> QED BY <1>1, <1>3, <1>5, <2>1, <2>3, <3>1
  <2> QED BY <2>2, <2>3
<1> QED BY <1>4, <1>5

\* A step of the running thread that stays in the CPU: the states of threads that
\* do not run may change as long as none of them blocks.
LEMMA StaysSteady ==
    ASSUME SteadyInv, SchedInv', NEW t \in Threads, NEW at, Executes(t, at),
           UNCHANGED <<gpr, running, in_isr, dying>>,
           regs'.at \in {"user", "kernel"},
           panic' \in {"none", "null_pagemap"},
           \A u \in AllThreads : \/ state'[u] = state[u]
                                 \/ state[u] \in {"FREE", "BLOCKED"} /\ state'[u] = "READY"
    PROVE  SteadyInv'
<1> Threads \subseteq AllThreads /\ NULL \notin AllThreads
  BY NodeAssumption DEF AllThreads, Nodes
<1>1. panic = "none" /\ ~in_isr /\ dying = {} /\ ~ipi /\ running = t
  BY DEF Executes, Open
<1>2. state[t] = "RUNNING" /\ state'[t] = "RUNNING"
  BY <1>1 DEF SteadyInv, OnlyRunnableRuns, Open
<1>3. OnlyRunnableRuns'
  BY <1>1, <1>2 DEF OnlyRunnableRuns
<1>4. BlockedWaits'
  BY <1>1, <1>2 DEF SteadyInv, BlockedWaits
<1>5. DequeueAssertHolds'
  BY DEF DequeueAssertHolds
<1>6. Departing'
  BY <1>1 DEF SteadyInv, Departing
<1> QED BY <1>3, <1>4, <1>5, <1>6 DEF SteadyInv

LEMMA SteadyStep ==
    ASSUME SIGCONT \notin Signals, SteadyInv, [SteadyNext]_vars
    PROVE  SteadyInv'
<1> Threads \subseteq AllThreads /\ Idle \in AllThreads /\ NULL \notin AllThreads
  BY NodeAssumption DEF AllThreads, Nodes
<1>0. SchedInv /\ SchedInv'
  BY InvStep DEF SteadyInv, Next
<1>a. state \in [AllThreads -> States] /\ regs \in Contexts /\ gpr \in [AllThreads -> Contexts]
      /\ running \in AllThreads \cup {NULL} /\ dying \subseteq Threads
  BY <1>0 DEF SchedInv, TypeOK
<1>b. \A at : context_at(at).at = at
  BY DEF context_at
<1>1. ASSUME NEW t \in Threads, NEW u \in Threads, NEW sig \in Signals,
             kill(t, u, sig)
      PROVE  SteadyInv'
  <2>1. /\ Executes(t, "user") /\ state' = enqueue_state(state, u)
        /\ regs' = context_at("user") /\ panic = "none"
        /\ UNCHANGED <<gpr, running, in_isr, dying, panic>>
    BY <1>1 DEF kill, send_signal, syscall_return, Executes, Open
  <2>2. Woken(state, state')
    BY <1>a, <2>1, EnqueueWakes
  <2> QED BY <1>0, <1>b, <2>1, <2>2, StaysSteady DEF Woken
<1>2. ASSUME NEW t \in Threads, wait(t)
      PROVE  SteadyInv'
  <2>1. /\ block(t) /\ panic = "none" /\ ~in_isr /\ dying = {} /\ ~ipi /\ running = t
    BY <1>2 DEF wait, Executes, Open
  <2>2. state[t] = "RUNNING"
    BY <2>1 DEF SteadyInv, OnlyRunnableRuns, Open
  <2>3. /\ state' = [state EXCEPT ![t] = "BLOCKED"] /\ regs' = context_at("wait")
        /\ ipi' /\ panic' = panic /\ UNCHANGED <<gpr, running, in_isr, dying>>
    BY <2>1, <2>2 DEF block
  <2>4. OnlyRunnableRuns' /\ DequeueAssertHolds'
    BY <2>1, <2>3 DEF OnlyRunnableRuns, DequeueAssertHolds
  <2>5. BlockedWaits'
    BY <1>a, <1>b, <2>1, <2>3 DEF SteadyInv, BlockedWaits
  <2>6. Departing'
    BY <1>a, <1>b, <2>1, <2>2, <2>3 DEF SteadyInv, Departing
  <2> QED BY <1>0, <2>4, <2>5, <2>6 DEF SteadyInv
<1>3. ASSUME NEW t \in Threads, wait_return(t) \/ kernel_thread_resume(t)
      PROVE  SteadyInv'
  <2>1. /\ \E at : Executes(t, at)
        /\ regs'.at \in {"user", "kernel"} /\ panic = "none"
        /\ UNCHANGED <<state, gpr, running, in_isr, dying, panic>>
    BY <1>3, <1>b DEF wait_return, kernel_thread_resume, syscall_return, Executes, Open
  <2> QED BY <1>0, <2>1, StaysSteady
<1>4. ASSUME NEW t \in Threads, sched_yield(t)
      PROVE  SteadyInv'
  <2>1. /\ panic = "none" /\ ~in_isr /\ dying = {} /\ ~ipi /\ running = t
        /\ regs' = context_at("yield") /\ ipi'
        /\ UNCHANGED <<state, gpr, running, in_isr, dying, panic>>
    BY <1>4 DEF sched_yield, Executes, Open
  <2>2. state[t] = "RUNNING"
    BY <2>1 DEF SteadyInv, OnlyRunnableRuns, Open
  <2>3. OnlyRunnableRuns' /\ DequeueAssertHolds'
    BY <2>1 DEF OnlyRunnableRuns, DequeueAssertHolds
  <2>4. BlockedWaits'
    BY <2>1, <2>2 DEF SteadyInv, BlockedWaits
  <2>5. Departing'
    BY <1>b, <2>1 DEF SteadyInv, Departing
  <2> QED BY <1>0, <2>3, <2>4, <2>5 DEF SteadyInv
<1>5. ASSUME NEW t \in Threads, trigger(t)
      PROVE  SteadyInv'
  <2>1. /\ Open /\ state' = enqueue_state(state, t)
        /\ UNCHANGED <<gpr, running, regs, ipi, in_isr, dying, panic>>
    BY <1>5 DEF trigger
  <2>2. Woken(state, state')
    BY <1>a, <2>1, EnqueueWakes
  <2>3. OnlyRunnableRuns' /\ DequeueAssertHolds'
    BY <1>a, <2>1, <2>2 DEF SteadyInv, OnlyRunnableRuns, DequeueAssertHolds, Open, Woken
  <2>4. BlockedWaits'
    BY <2>1, <2>2 DEF SteadyInv, BlockedWaits, Woken
  <2>5. Departing'
    BY <2>1, <2>2 DEF SteadyInv, Departing, Woken
  <2> QED BY <1>0, <2>3, <2>4, <2>5 DEF SteadyInv
<1>6. ASSUME NEW t \in Threads, NEW u \in Threads, create_init_process(t, u) \/ clone(t, u)
      PROVE  SteadyInv'
  <2>1. /\ \E at \in {"user", "kernel"} : Executes(t, at)
        /\ UNCHANGED <<gpr, running, in_isr, dying>>
    BY <1>6 DEF create_init_process, clone
  <2>2. panic = "none" /\ regs.at \in {"user", "kernel"}
    BY <2>1 DEF Executes, Open
  <2>3. /\ regs'.at \in {"user", "kernel"} /\ panic' \in {"none", "null_pagemap"}
        /\ state' = state \/ (state[u] = "FREE" /\ state' = [state EXCEPT ![u] = "READY"])
    BY <1>6, <1>b, <2>2 DEF create_init_process, clone, start_thread, syscall_return
  <2>4. \A v \in AllThreads : \/ state'[v] = state[v]
                              \/ state[v] \in {"FREE", "BLOCKED"} /\ state'[v] = "READY"
    BY <1>a, <2>3
  <2> QED BY <1>0, <2>1, <2>3, <2>4, StaysSteady
<1>7. ASSUME NEW t \in Threads, exit(t) \/ exit_group(t)
      PROVE  SteadyInv'
  <2>1. /\ panic = "none" /\ ~in_isr /\ dying = {} /\ ~ipi /\ running = t
        /\ regs' = context_at("dead") /\ ipi'
        /\ dying' \in {{t}, LivingThreads(ProcOf[t])}
        /\ UNCHANGED <<state, gpr, running, in_isr, panic>>
    BY <1>7 DEF exit, exit_group, terminate_self, Executes, Open
  <2>2. state[t] = "RUNNING"
    BY <2>1 DEF SteadyInv, OnlyRunnableRuns, Open
  <2>3. t \in dying'
    BY <2>1, <2>2 DEF LivingThreads
  <2>4. OnlyRunnableRuns' /\ DequeueAssertHolds'
    BY <2>1 DEF OnlyRunnableRuns, DequeueAssertHolds
  <2>5. BlockedWaits'
    BY <2>1, <2>2 DEF SteadyInv, BlockedWaits
  <2>6. Departing'
    BY <1>b, <2>1, <2>3 DEF SteadyInv, Departing
  <2> QED BY <1>0, <2>4, <2>5, <2>6 DEF SteadyInv
<1>8. ASSUME NEW t \in Threads, terminate_thread(t)
      PROVE  SteadyInv'
  <2>1. /\ panic = "none" /\ t \in dying /\ dying' = dying \ {t}
        /\ UNCHANGED <<gpr, running, regs, ipi, in_isr>>
        /\ state'[t] = "ZOMBIE"
        /\ \A u \in AllThreads \ {t} :
              state'[u] = state[u] \/ (state[u] = "BLOCKED" /\ state'[u] = "READY")
        /\ panic' \in {"none", "init_died"}
    BY <1>0, <1>8, TerminateEffect
  <2>2. ipi \/ in_isr
    BY <2>1 DEF SteadyInv, Departing
  <2>3. OnlyRunnableRuns' /\ DequeueAssertHolds'
    BY <2>1, <2>2 DEF OnlyRunnableRuns, DequeueAssertHolds, Open
  <2>4. BlockedWaits'
    BY <2>1 DEF SteadyInv, BlockedWaits
  <2>5. Departing'
    BY <2>1, <2>2 DEF SteadyInv, Departing
  <2> QED BY <1>0, <2>3, <2>4, <2>5 DEF SteadyInv
<1>9. CASE scheduler_isr
  <2>1. CASE /\ panic' = "null_pagemap"
             /\ UNCHANGED <<list, state, gpr, running, regs, ipi, in_isr, dying,
                            threadVars, procVars>>
    BY <1>0, <2>1 DEF SteadyInv, OnlyRunnableRuns, BlockedWaits, DequeueAssertHolds, Departing, Open
  <2>2. CASE panic' # "null_pagemap"
    <3>1. /\ panic' = "none" /\ dying = {}
          /\ running' = pick /\ pick \in AllThreads
          /\ state[pick] \in {"READY", "RUNNING"}
          /\ gpr' = IF running = NULL THEN gpr ELSE [gpr EXCEPT ![running] = regs]
          /\ \A u \in AllThreads :
                \/ state'[u] = state[u]
                \/ state[u] \in {"READY", "RUNNING"} /\ state'[u] \in {"READY", "RUNNING"}
                \/ state[u] = "BLOCKED" /\ state'[u] = "READY"
                \/ u = pick /\ in_isr' /\ state'[u] = "STOPPED"
          /\ ~in_isr' => /\ state'[pick] = "RUNNING" /\ regs' = gpr'[pick]
                         /\ dying' = {}
          /\ in_isr' => /\ regs' = regs /\ pick \in Threads /\ gpr'[pick].at = "user"
                        /\ dying' \in {{}, LivingThreads(ProcOf[pick])}
      BY <1>0, <1>9, <2>2, IsrEffect
    <3> DEFINE t == pick
    <3> HIDE DEF t
    <3>2. in_isr => running \in Threads /\ state[running] \in {"STOPPED", "ZOMBIE"}
      BY <1>0, <3>1 DEF SchedInv
    <3>3. in_isr' => running' \in Threads
                     /\ (running' \in dying' \/ state'[running'] \in {"STOPPED", "ZOMBIE"})
      BY <1>0 DEF SchedInv
    <3>4. \A u \in AllThreads : gpr'[u] = IF u = running THEN regs ELSE gpr[u]
      BY <1>a, <3>1
    <3>5. \A u \in AllThreads :
             state[u] \in {"FREE", "READY", "RUNNING", "BLOCKED"} => gpr'[u].at # "dead"
      BY <3>1, <3>2, <3>4 DEF SteadyInv, Departing
    <3>6. Departing'
      <4>1. \A u \in AllThreads :
               state'[u] \in {"FREE", "READY", "RUNNING", "BLOCKED"} => gpr'[u].at # "dead"
        BY <3>1, <3>5
      <4>2. regs'.at = "dead" => in_isr'
        BY <3>1, <3>5
      <4> QED BY <3>1, <3>3, <4>1, <4>2 DEF Departing
    <3>7. OnlyRunnableRuns'
      BY <3>1, <3>5 DEF OnlyRunnableRuns, Open
    <3>8. BlockedWaits'
      <4> SUFFICES ASSUME NEW u \in AllThreads, state'[u] = "BLOCKED"
                   PROVE  u # running' /\ gpr'[u].at = "wait"
        BY DEF BlockedWaits
      <4>1. state[u] = "BLOCKED" /\ u # pick
        BY <3>1
      <4>2. CASE u = running
        BY <3>1, <3>2, <3>4, <4>1, <4>2 DEF SteadyInv, BlockedWaits
      <4>3. CASE u # running
        BY <3>1, <3>4, <4>1, <4>3 DEF SteadyInv, BlockedWaits
      <4> QED BY <3>1, <4>1, <4>2, <4>3
    <3>9. DequeueAssertHolds'
      BY <3>1 DEF DequeueAssertHolds
    <3> QED BY <1>0, <3>6, <3>7, <3>8, <3>9 DEF SteadyInv
  <2> QED BY <1>0, <1>9, <2>1, <2>2, IsrEffect
<1>10. CASE halted \/ UNCHANGED vars
  BY <1>0, <1>10 DEF halted, vars, threadVars, procVars, SteadyInv, OnlyRunnableRuns,
                     BlockedWaits, DequeueAssertHolds, Departing, Open
<1> QED
  BY <1>1, <1>2, <1>3, <1>4, <1>5, <1>6, <1>7, <1>8, <1>9, <1>10 DEF SteadyNext

LEMMA SteadyInit == Init => SteadyInv
<1> SUFFICES ASSUME Init PROVE SteadyInv
  OBVIOUS
<1>1. SchedInv
  BY InvInit
<1>2. OnlyRunnableRuns /\ BlockedWaits /\ DequeueAssertHolds
  BY DEF Init, OnlyRunnableRuns, BlockedWaits, DequeueAssertHolds
<1>3. Departing
  BY DEF Init, Departing
<1> QED BY <1>1, <1>2, <1>3 DEF SteadyInv

\* SchedConsistent for any threads, processes and signals but SIGCONT, while no
\* instruction faults: the CPU executes no thread that was blocked, stopped or
\* terminated, and a blocked thread is where its event finds it.
THEOREM SteadyConsistent == SIGCONT \notin Signals => (SteadySpec => []SchedConsistent)
<1> SUFFICES ASSUME SIGCONT \notin Signals
             PROVE  SteadySpec => []SchedConsistent
  OBVIOUS
<1>1. SteadyInv => SchedConsistent
  BY DEF SteadyInv, SchedConsistent
<1>2. SteadyInv /\ [SteadyNext]_vars => SteadyInv'
  BY SteadyStep
<1> QED BY <1>1, <1>2, SteadyInit, PTL DEF SteadySpec

\* The assertion of dequeue_thread, under the same conditions: whoever is taken off
\* the run list is on it.
THEOREM DequeueSafe == SIGCONT \notin Signals => (SteadySpec => []DequeueAssertHolds)
<1> SUFFICES ASSUME SIGCONT \notin Signals
             PROVE  SteadySpec => []DequeueAssertHolds
  OBVIOUS
<1>1. SteadyInv => DequeueAssertHolds
  BY DEF SteadyInv
<1>2. SteadyInv /\ [SteadyNext]_vars => SteadyInv'
  BY SteadyStep
<1> QED BY <1>1, <1>2, SteadyInit, PTL DEF SteadySpec
-----------------------------------------------------------------------------
\* The kernel's own threads never run user code, so that no signal is delivered
\* to them and none of them is terminated.
KernelStays ==
    /\ \A t \in AllThreads : ProcOf[t] = KernelProc => gpr[t].at \in {"kernel", "wait"}
    /\ running # NULL /\ ~in_isr /\ ProcOf[running] = KernelProc => regs.at \in {"kernel", "wait"}
    /\ in_isr => ProcOf[running] # KernelProc
    /\ \A t \in dying : ProcOf[t] # KernelProc /\ state[t] # "FREE"

\* A process begins with its main thread; init is never a zombie.
MainsFirst ==
    /\ \A t \in Threads : ProcOf[t] # KernelProc /\ state[t] # "FREE" =>
          state[MainOf[ProcOf[t]]] # "FREE"
    /\ ~zombie[InitProc]

\* The inductive invariant of ZombieCount.
ProcInv == SteadyInv /\ KernelStays /\ MainsFirst /\ ZombieCount

\* No thread starts or ends.
SameAlive ==
    \A u \in Threads : state[u] \in {"FREE", "ZOMBIE"} \/ state'[u] \in {"FREE", "ZOMBIE"} =>
        state'[u] = state[u]

\* A step in which no thread starts or ends keeps the books of the processes.
LEMMA BooksKept ==
    ASSUME MainsFirst, ZombieCount, SameAlive, panic = "none",
           UNCHANGED <<parent, living, zombie>>
    PROVE  MainsFirst' /\ ZombieCount'
<1>1. \A p \in UserProcs : MainOf[p] \in Threads
  BY ProcAssumption
<1>2. \A t \in Threads : ProcOf[t] # KernelProc => MainOf[ProcOf[t]] \in Threads
  BY ProcAssumption DEF UserProcs, AllThreads
<1>3. MainsFirst'
  BY <1>2 DEF MainsFirst, SameAlive
<1>4. \A p : LivingThreads(p)' = LivingThreads(p)
  BY DEF LivingThreads, SameAlive
<1>5. ZombieCount'
  <2> SUFFICES ASSUME NEW p \in UserProcs
               PROVE  /\ living'[p] = Cardinality(LivingThreads(p)')
                      /\ panic' = "none" =>
                            (zombie'[p] <=> living'[p] = 0 /\ state'[MainOf[p]] = "ZOMBIE")
                      /\ ~zombie'[parent'[p]]
    BY DEF ZombieCount
  <2>1. LivingThreads(p)' = LivingThreads(p)
    BY <1>4
  <2>2. state'[MainOf[p]] = "ZOMBIE" <=> state[MainOf[p]] = "ZOMBIE"
    BY <1>1 DEF SameAlive
  <2> QED BY <2>1, <2>2 DEF ZombieCount
<1> QED BY <1>3, <1>5

\* A new thread of a process that is not a zombie is counted.
LEMMA StartCounted ==
    ASSUME TypeOK, MainsFirst, ZombieCount, panic = "none", NEW u \in Threads, state[u] = "FREE",
           start_thread(u), zombie' = zombie,
           \A p \in UserProcs : parent'[p] = parent[p] \/ (parent'[p] \in Procs /\ ~zombie[parent'[p]]),
           ProcOf[u] # KernelProc =>
              /\ ~zombie[ProcOf[u]]
              /\ u = MainOf[ProcOf[u]] \/ state[MainOf[ProcOf[u]]] # "FREE"
    PROVE  MainsFirst' /\ ZombieCount'
<1> DEFINE q == ProcOf[u]
<1> Threads \subseteq AllThreads
  BY DEF AllThreads
<1>1. /\ state' = [state EXCEPT ![u] = "READY"] /\ living' = [living EXCEPT ![q] = @ + 1]
      /\ state \in [AllThreads -> States] /\ living \in [Procs -> Int]
  BY DEF start_thread, TypeOK
<1>2. \A p \in UserProcs : MainOf[p] \in Threads /\ ProcOf[MainOf[p]] = p /\ p \in Procs
  BY ProcAssumption DEF UserProcs
<1>3. \A t \in Threads : ProcOf[t] # KernelProc => ProcOf[t] \in UserProcs
  BY ProcAssumption DEF UserProcs, AllThreads
<1>4. MainsFirst'
  <2> SUFFICES ASSUME NEW t \in Threads, ProcOf[t] # KernelProc, state'[t] # "FREE"
               PROVE  state'[MainOf[ProcOf[t]]] # "FREE"
    BY DEF MainsFirst
  <2>1. MainOf[ProcOf[t]] \in Threads
    BY <1>2, <1>3
  <2>2. CASE t = u
    BY <1>1, <2>1, <2>2
  <2>3. CASE t # u
    BY <1>1, <2>1, <2>3 DEF MainsFirst
  <2> QED BY <2>2, <2>3
<1>5. ZombieCount'
  <2> SUFFICES ASSUME NEW p \in UserProcs
               PROVE  /\ living'[p] = Cardinality(LivingThreads(p)')
                      /\ panic' = "none" =>
                            (zombie'[p] <=> living'[p] = 0 /\ state'[MainOf[p]] = "ZOMBIE")
                      /\ ~zombie'[parent'[p]]
    BY DEF ZombieCount
  <2>0. p \in Procs /\ MainOf[p] \in Threads
    BY <1>2
  <2>1. ~zombie'[parent'[p]]
    BY DEF ZombieCount
  <2>2. CASE p = q
    <3> DEFINE L == LivingThreads(p)
    <3>1. LivingThreads(p)' = L \cup {u} /\ u \notin L /\ L \in SUBSET Threads
      BY <1>1, <2>2 DEF LivingThreads
    <3>2. IsFiniteSet(L)
      BY <3>1, ThreadAssumption, FS_Subset
    <3>3. living[p] = Cardinality(L) /\ Cardinality(L) \in Nat
      BY <3>2, FS_CardinalityType DEF ZombieCount
    <3> HIDE DEF L
    <3>4. Cardinality(L \cup {u}) = Cardinality(L) + 1
      BY <3>1, <3>2, FS_AddElement
    <3>5. living'[p] = living[p] + 1
      BY <1>1, <2>0, <2>2
    <3>6. p # KernelProc
      BY DEF UserProcs
    <3>7. ~zombie'[p]
      BY <2>2, <3>6
    <3> QED BY <2>1, <3>1, <3>3, <3>4, <3>5, <3>7
  <2>3. CASE p # q
    <3>1. LivingThreads(p)' = LivingThreads(p)
      BY <1>1, <2>3 DEF LivingThreads
    <3>2. living'[p] = living[p]
      BY <1>1, <2>0, <2>3
    <3>3. MainOf[p] # u
      BY <1>2, <2>3
    <3>4. state'[MainOf[p]] = state[MainOf[p]]
      BY <1>1, <2>0, <3>3
    <3> QED BY <2>1, <3>1, <3>2, <3>4 DEF ZombieCount
  <2> QED BY <2>2, <2>3
<1> QED BY <1>4, <1>5

\* One iteration of terminate_process: the last thread takes its process with it,
\* whose main thread has ended by then, and its children go to init.
LEMMA EndCounted ==
    ASSUME SchedInv, KernelStays, MainsFirst, ZombieCount, NEW t \in Threads, terminate_thread(t)
    PROVE  MainsFirst' /\ ZombieCount'
<1> DEFINE q == ProcOf[t]
           L == LivingThreads(q)
<1> Threads \subseteq AllThreads
  BY DEF AllThreads
<1>1. /\ panic = "none" /\ t \in dying /\ state'[t] = "ZOMBIE"
      /\ \A u \in AllThreads \ {t} :
            state'[u] = state[u] \/ (state[u] = "BLOCKED" /\ state'[u] = "READY")
  BY TerminateEffect
<1>2. CASE state[t] = "ZOMBIE"
  <2>1. UNCHANGED <<parent, living, zombie>>
    BY <1>2, TerminateEffect
  <2>2. SameAlive
    BY <1>1, <1>2 DEF SameAlive
  <2> QED BY <1>1, <2>1, <2>2, BooksKept
<1>3. CASE state[t] # "ZOMBIE"
  <2>1. \A p \in UserProcs : MainOf[p] \in Threads /\ ProcOf[MainOf[p]] = p /\ p \in Procs
    BY ProcAssumption DEF UserProcs
  <2>2. \A u \in Threads : ProcOf[u] # KernelProc => ProcOf[u] \in UserProcs
    BY ProcAssumption DEF UserProcs, AllThreads
  <2>3. q \in UserProcs /\ q \in Procs /\ state[t] # "FREE" /\ InitProc \in Procs
    BY <1>1, <2>1, <2>2, ProcAssumption DEF KernelStays, UserProcs
  <2>4. /\ living \in [Procs -> Int] /\ zombie \in [Procs -> BOOLEAN]
        /\ parent \in [Procs -> UserProcs]
    BY DEF SchedInv, TypeOK
  <2>5. /\ living' = [living EXCEPT ![q] = @ - 1]
        /\ living[q] = 1 /\ q # InitProc =>
              /\ zombie' = [zombie EXCEPT ![q] = TRUE]
              /\ parent' = [c \in Procs |-> IF parent[c] = q THEN InitProc ELSE parent[c]]
        /\ ~(living[q] = 1 /\ q # InitProc) =>
              /\ UNCHANGED <<parent, zombie>>
              /\ panic' = IF living[q] = 1 THEN "init_died" ELSE panic
    BY <1>3, TerminateEffect
  <2>6. /\ t \in L /\ L \in SUBSET Threads /\ LivingThreads(q)' = L \ {t}
    BY <1>1, <1>3, <2>3 DEF LivingThreads
  <2>7. IsFiniteSet(L)
    BY <2>6, ThreadAssumption, FS_Subset
  <2>8. state[MainOf[q]] # "FREE" /\ MainOf[q] \in Threads
    BY <2>1, <2>3 DEF MainsFirst, UserProcs
  <2>9. MainOf[q] \in L \/ state[MainOf[q]] = "ZOMBIE"
    BY <2>1, <2>3, <2>8 DEF LivingThreads
  <2>10. living[q] = Cardinality(L) /\ (zombie[q] <=> living[q] = 0 /\ state[MainOf[q]] = "ZOMBIE")
    BY <1>1, <2>3 DEF ZombieCount
  <2>11. \A p \in UserProcs \ {q} : LivingThreads(p)' = LivingThreads(p)
    BY <1>1 DEF LivingThreads
  <2> HIDE DEF L
  <2>12. /\ Cardinality(L) \in Nat /\ Cardinality(L) # 0
         /\ Cardinality(L \ {t}) = Cardinality(L) - 1
         /\ Cardinality(L) = 1 => L = {t}
    <3>1. Cardinality(L) \in Nat
      BY <2>7, FS_CardinalityType
    <3>2. Cardinality(L) # 0
      BY <2>6, <2>7, FS_EmptySet
    <3>3. Cardinality(L \ {t}) = Cardinality(L) - 1
      BY <2>6, <2>7, FS_RemoveElement
    <3>4. Cardinality(L) = 1 => \E x : L = {x}
      BY <2>7, FS_Singleton
    <3> QED BY <2>6, <3>1, <3>2, <3>3, <3>4
  <2>13. ~zombie[q] /\ living'[q] = Cardinality(L \ {t})
    BY <2>3, <2>4, <2>5, <2>10, <2>12
  <2>14. \A u \in Threads : state[u] # "FREE" => state'[u] # "FREE"
    BY <1>1
  <2>15. MainsFirst'
    <3>1. ~zombie'[InitProc]
      BY <2>3, <2>4, <2>5 DEF MainsFirst
    <3>2. ASSUME NEW u \in Threads, ProcOf[u] # KernelProc, state'[u] # "FREE"
          PROVE  state'[MainOf[ProcOf[u]]] # "FREE"
      <4>1. state[u] # "FREE"
        BY <1>1, <2>3, <3>2
      <4>2. state[MainOf[ProcOf[u]]] # "FREE" /\ MainOf[ProcOf[u]] \in Threads
        BY <2>1, <2>2, <3>2, <4>1 DEF MainsFirst
      <4> QED BY <2>14, <4>2
    <3> QED BY <3>1, <3>2 DEF MainsFirst
  <2>16. ZombieCount'
    <3> SUFFICES ASSUME NEW p \in UserProcs
                 PROVE  /\ living'[p] = Cardinality(LivingThreads(p)')
                        /\ panic' = "none" =>
                              (zombie'[p] <=> living'[p] = 0 /\ state'[MainOf[p]] = "ZOMBIE")
                        /\ ~zombie'[parent'[p]]
      BY DEF ZombieCount
    <3>1. p \in Procs /\ MainOf[p] \in Threads /\ ~zombie[parent[p]] /\ parent[p] \in Procs
      BY <2>1, <2>4 DEF ZombieCount
    <3>2. ~zombie'[parent'[p]]
      BY <2>3, <2>4, <2>5, <3>1 DEF MainsFirst
    <3>3. CASE p = q
      <4>1. living'[p] = Cardinality(LivingThreads(p)')
        BY <2>6, <2>13, <3>3
      <4>2. CASE living[q] = 1 /\ q # InitProc
        <5>1. zombie'[p] /\ living'[p] = 0
          BY <2>3, <2>4, <2>5, <3>3, <4>2
        <5>2. state'[MainOf[p]] = "ZOMBIE"
          BY <1>1, <2>9, <2>10, <2>12, <3>1, <3>3, <4>2
        <5> QED BY <3>2, <4>1, <5>1, <5>2
      <4>3. CASE living[q] = 1 /\ q = InitProc
        BY <2>5, <3>2, <4>1, <4>3
      <4>4. CASE living[q] # 1
        <5>1. living'[p] # 0 /\ ~zombie'[p]
          BY <2>3, <2>4, <2>5, <2>10, <2>12, <2>13, <3>3, <4>4
        <5> QED BY <3>2, <4>1, <5>1
      <4> QED BY <4>2, <4>3, <4>4
    <3>4. CASE p # q
      <4>1. living'[p] = living[p] /\ zombie'[p] = zombie[p]
        BY <2>4, <2>5, <3>1, <3>4
      <4>2. MainOf[p] # t
        BY <2>1, <3>4
      <4>3. state'[MainOf[p]] = "ZOMBIE" <=> state[MainOf[p]] = "ZOMBIE"
        BY <1>1, <3>1, <4>2
      <4>4. LivingThreads(p)' = LivingThreads(p)
        BY <2>11, <3>4
      <4> QED BY <1>1, <3>2, <4>1, <4>3, <4>4 DEF ZombieCount
    <3> QED BY <3>3, <3>4
  <2> QED BY <2>15, <2>16
<1> QED BY <1>2, <1>3

LEMMA ProcStep ==
    ASSUME SIGCONT \notin Signals, ProcInv, [SteadyNext]_vars
    PROVE  ProcInv'
<1> Threads \subseteq AllThreads /\ NULL \notin AllThreads
  BY NodeAssumption DEF AllThreads, Nodes
<1>0. /\ SteadyInv /\ SteadyInv' /\ SchedInv /\ SchedInv'
      /\ KernelStays /\ MainsFirst /\ ZombieCount
  BY SteadyStep DEF ProcInv, SteadyInv
<1>a. /\ TypeOK /\ state \in [AllThreads -> States] /\ gpr \in [AllThreads -> Contexts]
      /\ running \in AllThreads \cup {NULL}
  BY <1>0 DEF SchedInv, TypeOK
<1>b. \A at : context_at(at).at = at
  BY DEF context_at
<1>c. ASSUME NEW t \in Threads, Executes(t, "user")
      PROVE  ProcOf[t] # KernelProc /\ state[t] = "RUNNING"
  BY <1>0, <1>c DEF SteadyInv, OnlyRunnableRuns, KernelStays, Executes, Open
<1>1. ASSUME NEW t \in Threads, NEW u \in Threads, NEW sig \in Signals,
             kill(t, u, sig)
      PROVE  ProcInv'
  <2>1. /\ Executes(t, "user") /\ state' = enqueue_state(state, u)
        /\ regs' = context_at("user") /\ panic = "none" /\ running = t /\ ~in_isr /\ dying = {}
        /\ UNCHANGED <<gpr, running, in_isr, dying, parent, living, zombie>>
    BY <1>1 DEF kill, send_signal, syscall_return, Executes, Open, procVars
  <2>2. SameAlive
    <3>1. Woken(state, state')
      BY <1>a, <2>1, EnqueueWakes
    <3> QED BY <3>1 DEF Woken, SameAlive
  <2>3. KernelStays'
    BY <1>0, <1>c, <2>1 DEF KernelStays
  <2> QED BY <1>0, <2>1, <2>2, <2>3, BooksKept DEF ProcInv
<1>2. ASSUME NEW t \in Threads, wait(t)
      PROVE  ProcInv'
  <2>1. /\ block(t) /\ panic = "none" /\ ~in_isr /\ dying = {} /\ ~ipi /\ running = t
    BY <1>2 DEF wait, Executes, Open
  <2>2. state[t] = "RUNNING"
    BY <1>0, <2>1 DEF SteadyInv, OnlyRunnableRuns, Open
  <2>3. /\ state' = [state EXCEPT ![t] = "BLOCKED"] /\ regs' = context_at("wait")
        /\ UNCHANGED <<gpr, running, in_isr, dying, parent, living, zombie>>
    BY <2>1, <2>2 DEF block, procVars
  <2>4. SameAlive
    BY <1>a, <2>2, <2>3 DEF SameAlive
  <2>5. KernelStays'
    BY <1>0, <1>b, <2>1, <2>3 DEF KernelStays
  <2> QED BY <1>0, <2>1, <2>3, <2>4, <2>5, BooksKept DEF ProcInv
<1>3. ASSUME NEW t \in Threads, wait_return(t) \/ kernel_thread_resume(t) \/ sched_yield(t)
      PROVE  ProcInv'
  <2>1. /\ panic = "none" /\ running = t /\ ~in_isr /\ dying = {}
        /\ ProcOf[t] # KernelProc \/ regs' = context_at("kernel")
        /\ UNCHANGED <<state, gpr, running, in_isr, dying, parent, living, zombie>>
    BY <1>3, <1>c DEF wait_return, kernel_thread_resume, sched_yield, Executes, Open, procVars
  <2>2. SameAlive
    BY <2>1 DEF SameAlive
  <2>3. KernelStays'
    BY <1>0, <1>b, <2>1 DEF KernelStays
  <2> QED BY <1>0, <2>1, <2>2, <2>3, BooksKept DEF ProcInv
<1>4. ASSUME NEW t \in Threads, trigger(t)
      PROVE  ProcInv'
  <2>1. /\ state' = enqueue_state(state, t) /\ panic = "none" /\ dying = {}
        /\ UNCHANGED <<gpr, running, regs, in_isr, dying, parent, living, zombie>>
    BY <1>4 DEF trigger, Open, procVars
  <2>2. SameAlive
    <3>1. Woken(state, state')
      BY <1>a, <2>1, EnqueueWakes
    <3> QED BY <3>1 DEF Woken, SameAlive
  <2>3. KernelStays'
    BY <1>0, <2>1 DEF KernelStays
  <2> QED BY <1>0, <2>1, <2>2, <2>3, BooksKept DEF ProcInv
<1>5. ASSUME NEW t \in Threads, NEW u \in Threads, create_init_process(t, u)
      PROVE  ProcInv'
  <2>1. /\ panic = "none" /\ dying = {} /\ start_thread(u) /\ state[u] = "FREE"
        /\ ProcOf[u] = KernelProc \/ u = MainOf[InitProc]
        /\ UNCHANGED <<gpr, running, regs, in_isr, dying, parent, zombie>>
    BY <1>5 DEF create_init_process, Executes, Open
  <2>2. KernelStays'
    BY <1>0, <2>1 DEF KernelStays
  <2>3. ProcOf[u] # KernelProc => ~zombie[ProcOf[u]] /\ u = MainOf[ProcOf[u]]
    BY <1>0, <2>1, ProcAssumption DEF MainsFirst
  <2>4. MainsFirst' /\ ZombieCount'
    BY <1>0, <1>a, <2>1, <2>3, StartCounted
  <2> QED BY <1>0, <2>2, <2>4 DEF ProcInv
<1>6. ASSUME NEW t \in Threads, NEW u \in Threads, clone(t, u)
      PROVE  ProcInv'
  <2> DEFINE p == ProcOf[t]
             L == LivingThreads(p)
  <2>1. /\ Executes(t, "user") /\ panic = "none" /\ dying = {} /\ running = t /\ ~in_isr
        /\ p \in UserProcs /\ state[u] = "FREE"
        /\ ProcOf[u] = p \/ (ProcOf[u] \in UserProcs \ {InitProc} /\ u = MainOf[ProcOf[u]])
        /\ UNCHANGED <<gpr, running, in_isr, dying, zombie>>
    BY <1>6 DEF clone, Executes, Open
  <2>2. ProcOf[t] # KernelProc /\ state[t] = "RUNNING"
    BY <1>c, <2>1
  <2>3. KernelStays'
    BY <1>0, <2>1, <2>2 DEF KernelStays
  <2>4. ~zombie[p]
    <3>1. t \in L /\ L \in SUBSET Threads
      BY <2>2 DEF LivingThreads
    <3>2. IsFiniteSet(L) /\ L # {}
      BY <3>1, ThreadAssumption, FS_Subset
    <3>3. living[p] = Cardinality(L) /\ (zombie[p] => living[p] = 0)
      BY <1>0, <2>1 DEF ZombieCount
    <3> HIDE DEF L
    <3> QED BY <3>2, <3>3, FS_EmptySet
  <2>5. /\ start_thread(u)
        /\ parent' = IF ProcOf[u] = p THEN parent ELSE [parent EXCEPT ![ProcOf[u]] = p]
    BY <1>6, <2>4 DEF clone
  <2>6. \A r \in UserProcs : parent'[r] = parent[r] \/ (parent'[r] \in Procs /\ ~zombie[parent'[r]])
    BY <1>a, <2>1, <2>4, <2>5 DEF TypeOK, UserProcs
  <2>7. ~zombie[ProcOf[u]] /\ (u = MainOf[ProcOf[u]] \/ state[MainOf[ProcOf[u]]] # "FREE")
    <3>1. CASE ProcOf[u] = p
      BY <1>0, <2>2, <2>4, <3>1 DEF MainsFirst
    <3>2. CASE ProcOf[u] \in UserProcs \ {InitProc} /\ u = MainOf[ProcOf[u]]
      BY <1>0, <2>1, <3>2 DEF ZombieCount
    <3> QED BY <2>1, <3>1, <3>2
  <2>8. MainsFirst' /\ ZombieCount'
    BY <1>0, <1>a, <2>1, <2>5, <2>6, <2>7, StartCounted
  <2> QED BY <1>0, <2>3, <2>8 DEF ProcInv
<1>7. ASSUME NEW t \in Threads, exit(t) \/ exit_group(t)
      PROVE  ProcInv'
  <2>1. /\ Executes(t, "user") /\ panic = "none" /\ running = t /\ ~in_isr
        /\ dying' \in {{t}, LivingThreads(ProcOf[t])}
        /\ UNCHANGED <<state, gpr, running, in_isr, parent, living, zombie>>
    BY <1>7 DEF exit, exit_group, terminate_self, Executes, Open, procVars
  <2>2. ProcOf[t] # KernelProc /\ state[t] = "RUNNING"
    BY <1>c, <2>1
  <2>3. \A u \in dying' : ProcOf[u] # KernelProc /\ state[u] # "FREE"
    BY <2>1, <2>2 DEF LivingThreads
  <2>4. KernelStays'
    BY <1>0, <2>1, <2>2, <2>3 DEF KernelStays
  <2>5. SameAlive
    BY <2>1 DEF SameAlive
  <2> QED BY <1>0, <2>1, <2>4, <2>5, BooksKept DEF ProcInv
<1>8. ASSUME NEW t \in Threads, terminate_thread(t)
      PROVE  ProcInv'
  <2>1. /\ dying' = dying \ {t} /\ UNCHANGED <<gpr, running, regs, in_isr>>
        /\ \A u \in AllThreads \ {t} :
              state'[u] = state[u] \/ (state[u] = "BLOCKED" /\ state'[u] = "READY")
    BY <1>0, <1>8, TerminateEffect
  <2>2. \A u \in dying' : u \in AllThreads \ {t}
    BY <1>a, <2>1 DEF TypeOK
  <2>3. KernelStays'
    BY <1>0, <2>1, <2>2 DEF KernelStays
  <2>4. MainsFirst' /\ ZombieCount'
    BY <1>0, <1>8, EndCounted
  <2> QED BY <1>0, <2>3, <2>4 DEF ProcInv
<1>9. CASE scheduler_isr
  <2>1. CASE /\ panic' = "null_pagemap"
             /\ UNCHANGED <<list, state, gpr, running, regs, ipi, in_isr, dying,
                            threadVars, procVars>>
    <3>1. SameAlive /\ panic = "none" /\ UNCHANGED <<parent, living, zombie>>
      BY <1>9, <2>1 DEF SameAlive, scheduler_isr, procVars
    <3>2. KernelStays'
      BY <1>0, <2>1 DEF KernelStays
    <3> QED BY <1>0, <3>1, <3>2, BooksKept DEF ProcInv
  <2>2. CASE panic' # "null_pagemap"
    <3>1. /\ running' = pick /\ pick \in AllThreads
          /\ state[pick] \in {"READY", "RUNNING"}
          /\ gpr' = IF running = NULL THEN gpr ELSE [gpr EXCEPT ![running] = regs]
          /\ \A u \in AllThreads :
                \/ state'[u] = state[u]
                \/ state[u] \in {"READY", "RUNNING"} /\ state'[u] \in {"READY", "RUNNING"}
                \/ state[u] = "BLOCKED" /\ state'[u] = "READY"
                \/ u = pick /\ in_isr' /\ state'[u] = "STOPPED"
          /\ ~in_isr' => regs' = gpr'[pick] /\ dying' = {}
          /\ in_isr' => /\ gpr'[pick].at = "user"
                        /\ dying' \in {{}, LivingThreads(ProcOf[pick])}
          /\ UNCHANGED <<parent, living, zombie>>
      BY <1>0, <1>9, <2>2, IsrEffect
    <3>2. panic = "none" /\ dying = {}
      BY <1>9 DEF scheduler_isr
    <3> DEFINE t == pick
    <3> HIDE DEF t
    <3>3. SameAlive
      BY <3>1 DEF SameAlive
    <3>4. \A u \in AllThreads : ProcOf[u] = KernelProc => gpr'[u].at \in {"kernel", "wait"}
      <4>1. \A u \in AllThreads : gpr'[u] = IF u = running THEN regs ELSE gpr[u]
        BY <1>a, <3>1
      <4> QED BY <1>0, <4>1 DEF KernelStays
    <3>5. in_isr' => ProcOf[pick] # KernelProc
      BY <3>1, <3>4
    <3>6. \A u \in dying' : ProcOf[u] # KernelProc /\ state'[u] # "FREE"
      <4>1. \A u \in dying' : u \in Threads /\ ProcOf[u] # KernelProc /\ state[u] # "FREE"
        BY <3>1, <3>5 DEF LivingThreads
      <4> QED BY <3>1, <4>1
    <3>7. KernelStays'
      BY <3>1, <3>4, <3>5, <3>6 DEF KernelStays
    <3> QED BY <1>0, <3>1, <3>2, <3>3, <3>7, BooksKept DEF ProcInv
  <2> QED BY <1>0, <1>9, <2>1, <2>2, IsrEffect
<1>10. CASE halted \/ UNCHANGED vars
  <2>1. UNCHANGED <<state, gpr, running, regs, in_isr, dying, parent, living, zombie, panic>>
    BY <1>10 DEF halted, vars, threadVars, procVars
  <2>2. KernelStays' /\ MainsFirst'
    BY <1>0, <2>1 DEF KernelStays, MainsFirst
  <2>3. ZombieCount'
    BY <1>0, <2>1 DEF ZombieCount, LivingThreads
  <2> QED BY <1>0, <2>2, <2>3 DEF ProcInv
<1> QED
  BY <1>1, <1>2, <1>3, <1>4, <1>5, <1>6, <1>7, <1>8, <1>9, <1>10 DEF SteadyNext

LEMMA ProcInit == Init => ProcInv
<1> SUFFICES ASSUME Init PROVE ProcInv
  OBVIOUS
<1> Threads \subseteq AllThreads
  BY DEF AllThreads
<1>1. SteadyInv
  BY SteadyInit
<1>2. KernelStays
  BY DEF Init, KernelStays
<1>3. \A t \in Threads : ProcOf[t] # KernelProc => state[t] = "FREE"
  BY ProcAssumption, NodeAssumption DEF Init
<1>4. MainsFirst
  BY <1>3, ProcAssumption DEF Init, MainsFirst, UserProcs
<1>5. ZombieCount
  <2> SUFFICES ASSUME NEW p \in UserProcs
               PROVE  /\ living[p] = Cardinality(LivingThreads(p))
                      /\ panic = "none" =>
                            (zombie[p] <=> living[p] = 0 /\ state[MainOf[p]] = "ZOMBIE")
                      /\ ~zombie[parent[p]]
    BY DEF ZombieCount
  <2>1. p \in Procs /\ p # KernelProc /\ MainOf[p] \in Threads /\ ProcOf[MainOf[p]] = p
        /\ InitProc \in Procs
    BY ProcAssumption DEF UserProcs
  <2>2. LivingThreads(p) = {}
    BY <1>3, <2>1 DEF LivingThreads
  <2>3. living[p] = 0 /\ ~zombie[p] /\ ~zombie[parent[p]]
    BY <2>1 DEF Init
  <2>4. state[MainOf[p]] = "FREE"
    BY <1>3, <2>1
  <2> QED BY <2>2, <2>3, <2>4, FS_EmptySet
<1> QED BY <1>1, <1>2, <1>4, <1>5 DEF ProcInv

\* ZombieCount for any threads, processes and signals but SIGCONT, while no
\* instruction faults: num_living_threads counts the threads that live, a process
\* is a zombie exactly when the last of them has ended, and the parent that its
\* SIGCHLD goes to is not one itself.
THEOREM ZombiesCounted == SIGCONT \notin Signals => (SteadySpec => []ZombieCount)
<1> SUFFICES ASSUME SIGCONT \notin Signals
             PROVE  SteadySpec => []ZombieCount
  OBVIOUS
<1>1. ProcInv => ZombieCount
  BY DEF ProcInv
<1>2. ProcInv /\ [SteadyNext]_vars => ProcInv'
  BY ProcStep
<1> QED BY <1>1, <1>2, ProcInit, PTL DEF SteadySpec
=============================================================================
