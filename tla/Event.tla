------------------------------- MODULE Event --------------------------------
(***************************************************************************)
(* sched::Event (sched/event.cpp), on which every blocking call waits: a   *)
(* list of listeners and a count of triggers that found no listener.       *)
(*                                                                         *)
(* Event::wait and Event::trigger run with interrupts off, so each is one  *)
(* step.  A thread that was woken stays on the lists until it runs again   *)
(* and clears its listeners; a thread that was terminated while it waited  *)
(* stays there until it is destroyed.  Which ready thread runs next is     *)
(* left to the scheduler: any ready thread may take the next step.         *)
(***************************************************************************)
EXTENDS Lists, FiniteSets

CONSTANTS Threads, Events,
          Waits,        \* the sequences of events a thread may wait for
          MaxTriggers   \* bound: triggers an event remembers

ASSUME EventAssumption ==
    MaxTriggers \in Nat /\ \A evs \in Waits : evs \in Seq(Events) /\ evs # <<>>

VARIABLES state,      \* Thread::state; READY stands for running too
          listens,    \* Thread::listeners: the events the thread waits for
          queue,      \* Event::listener_list_head
          pending,    \* Event::pending
          which,      \* Thread::which_event
          by_signal,  \* Thread::enqueued_by_signal is not -1
          signals     \* Thread::has_pending_signals()

eventVars == <<state, listens, queue, pending, which, by_signal, signals>>

\* The listeners that the threads T may have on lists.
ListenersOf(T) == [thread : T, which : Nat]

EventInit ==
    /\ state = [t \in Threads |-> "READY"]
    /\ listens = [t \in Threads |-> <<>>]
    /\ queue = [e \in Events |-> <<>>]
    /\ pending = [e \in Events |-> 0]
    /\ which = [t \in Threads |-> 0]
    /\ by_signal = [t \in Threads |-> FALSE]
    /\ signals = [t \in Threads |-> FALSE]

\* The thread runs, outside Event::wait.
Runs(t) == state[t] = "READY" /\ listens[t] = <<>>
-----------------------------------------------------------------------------
\* Event::wait(evs)

\* Mutant: nothing is taken off the lists.
Cleared_none(t) == queue

\* The lists after Thread::clear_listeners.
Cleared(t) ==
    [e \in Events |-> Select(queue[e], ListenersOf(Threads \ {t}))]

clear_listeners(t) ==
    /\ queue' = Cleared(t)
    /\ listens' = [listens EXCEPT ![t] = <<>>]

\* The listeners t appends to the list of e, one for each place of e in evs.
Listeners(t, evs, e) ==
    Select([i \in DOMAIN evs |-> [thread |-> t, which |-> i]],
           [thread : {t}, which : {i \in DOMAIN evs : evs[i] = e}])

\* Become a listener of every event, dequeue_thread and yield.
block(t, evs) ==
    /\ listens' = [listens EXCEPT ![t] = evs]
    /\ queue' = [e \in Events |-> Cleared(t)[e] \o Listeners(t, evs, e)]
    /\ state' = [state EXCEPT ![t] = "BLOCKED"]

\* The first event of evs with a remembered trigger, 0 if there is none.
FirstPending(evs) ==
    LET S == {i \in DOMAIN evs : pending[evs[i]] > 0}
    IN  IF S = {} THEN 0 ELSE CHOOSE i \in S : \A j \in S : i <= j

\* Event::wait up to yield; with a pending signal it returns -EINTR instead.
wait(t, evs) ==
    /\ Runs(t) /\ ~signals[t]
    /\ LET i == FirstPending(evs)
       IN  IF i > 0
           THEN /\ pending' = [pending EXCEPT ![evs[i]] = @ - 1]
                /\ UNCHANGED <<state, listens, queue>>
           ELSE block(t, evs) /\ UNCHANGED pending
    /\ UNCHANGED <<which, by_signal, signals>>

\* Event::wait after yield.
wait_return(t) ==
    /\ state[t] = "READY" /\ listens[t] # <<>>
    /\ clear_listeners(t)
    /\ UNCHANGED <<state, pending, which, by_signal, signals>>
-----------------------------------------------------------------------------
\* enqueue_thread for the listeners in L.
wake(L) ==
    LET woken == {l.thread : l \in L}
        last(t) == CHOOSE i \in {l.which : l \in {m \in L : m.thread = t}} :
                      \A l \in L : l.thread = t => l.which <= i
    IN  /\ which' = [t \in Threads |-> IF t \in woken THEN last(t) ELSE which[t]]
        /\ state' = [t \in Threads |->
                       IF t \in woken /\ state[t] = "BLOCKED" THEN "READY"
                       ELSE state[t]]
        /\ by_signal' = [t \in Threads |->
                           by_signal[t] /\ ~(t \in woken /\ state[t] = "BLOCKED")]

\* The first n listeners of the list l.
FirstListeners(l, n) == {l[i] : i \in {j \in DOMAIN l : j <= n}}

\* Mutant: only the first listener is ever woken.
trigger_one(q, e, drop, max_to_wake) ==
    /\ pending' = IF q[e] = <<>> /\ ~drop
                  THEN [pending EXCEPT ![e] = @ + 1] ELSE pending
    /\ wake(FirstListeners(q[e], 1))

\* Event::trigger(drop, max_to_wake) of e when the listener lists are q.
trigger(q, e, drop, max_to_wake) ==
    /\ pending' = IF q[e] = <<>> /\ ~drop
                  THEN [pending EXCEPT ![e] = @ + 1] ELSE pending
    /\ wake(FirstListeners(q[e], max_to_wake))

\* Room for one more remembered trigger.
CanTrigger(e) == pending[e] < MaxTriggers
-----------------------------------------------------------------------------
\* The environment of every client.

\* Thread::send_signal; it wakes the thread even if the signal is masked.
send_signal(t, masked) ==
    /\ state[t] \notin {"ZOMBIE", "NONE"}
    /\ signals' = [signals EXCEPT ![t] = @ \/ ~masked]
    /\ state' = [state EXCEPT ![t] = IF @ = "BLOCKED" THEN "READY" ELSE @]
    /\ by_signal' = [by_signal EXCEPT ![t] = @ \/ state[t] = "BLOCKED"]
    /\ UNCHANGED <<listens, queue, pending, which>>

\* dispatch_pending_signal on the way back to user code.
dispatch_signal(t) ==
    /\ Runs(t) /\ signals[t]
    /\ signals' = [signals EXCEPT ![t] = FALSE]
    /\ by_signal' = [by_signal EXCEPT ![t] = FALSE]
    /\ UNCHANGED <<state, listens, queue, pending, which>>

\* terminate_thread: whatever the thread waits for, it stays listed.
terminate_thread(t) ==
    /\ state[t] \notin {"ZOMBIE", "NONE"}
    /\ state' = [state EXCEPT ![t] = "ZOMBIE"]
    /\ UNCHANGED <<listens, queue, pending, which, by_signal, signals>>

\* Thread::~Thread
destroy(t) ==
    /\ state[t] = "ZOMBIE"
    /\ clear_listeners(t)
    /\ state' = [state EXCEPT ![t] = "NONE"]
    /\ signals' = [signals EXCEPT ![t] = FALSE]
    /\ by_signal' = [by_signal EXCEPT ![t] = FALSE]
    /\ which' = [which EXCEPT ![t] = 0]
    /\ UNCHANGED pending

\* A new thread.
create(t) ==
    /\ state[t] = "NONE"
    /\ state' = [state EXCEPT ![t] = "READY"]
    /\ UNCHANGED <<listens, queue, pending, which, by_signal, signals>>

\* A thread, or a driver in an interrupt, triggers e.
TriggerStep(e, drop, max_to_wake) ==
    /\ drop \/ CanTrigger(e)
    /\ trigger(queue, e, drop, max_to_wake)
    /\ UNCHANGED <<listens, queue, signals>>

EventNext ==
    \/ \E t \in Threads :
          \/ \E evs \in Waits : wait(t, evs)
          \/ wait_return(t)
          \/ \E masked \in BOOLEAN : send_signal(t, masked)
          \/ dispatch_signal(t) \/ terminate_thread(t) \/ destroy(t) \/ create(t)
    \/ \E e \in Events, drop \in BOOLEAN, max_to_wake \in {1, Cardinality(Threads)} :
          TriggerStep(e, drop, max_to_wake)

EventSpec == EventInit /\ [][EventNext]_eventVars
-----------------------------------------------------------------------------
EventTypeOK ==
    /\ state \in [Threads -> {"READY", "BLOCKED", "ZOMBIE", "NONE"}]
    /\ listens \in [Threads -> Seq(Events)]
    /\ queue \in [Events -> Seq(ListenersOf(Threads))]
    /\ pending \in [Events -> 0 .. MaxTriggers]
    /\ which \in [Threads -> Nat]
    /\ by_signal \in [Threads -> BOOLEAN]
    /\ signals \in [Threads -> BOOLEAN]

\* The lists of the events and those of the threads agree, and a blocked thread
\* is on the list of every event it waits for: a trigger cannot miss it, and no
\* list refers to a thread that has left Event::wait.
ListenersExact ==
    /\ \A e \in Events, t \in Threads :
          Select(queue[e], ListenersOf({t})) = Listeners(t, listens[t], e)
    /\ \A t \in Threads : state[t] = "BLOCKED" => listens[t] # <<>>

\* A thread never sleeps on an event with a remembered trigger (the first loop
\* of Event::wait and the test of num_listeners in Event::trigger).
NoTriggerForgotten == \A e \in Events : queue[e] # <<>> => pending[e] = 0

\* A thread with a pending signal never sleeps: either Event::wait finds the
\* signal before it blocks the thread or Thread::send_signal wakes it.
SignalWakes == \A t \in Threads : signals[t] => state[t] # "BLOCKED"

\* What Event::wait and Event::trigger promise together: whoever sleeps is listed
\* with each of its events, and neither a trigger nor a signal passes it by.
EventSafe == EventTypeOK /\ ListenersExact /\ NoTriggerForgotten /\ SignalWakes
=============================================================================
