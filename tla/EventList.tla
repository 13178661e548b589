------------------------------ MODULE EventList -----------------------------
(***************************************************************************)
(* The listener lists of sched/event.cpp as they are in memory.            *)
(*                                                                         *)
(* Thread::listeners is a klib::Vector<Event::Listener>, and each Listener *)
(* holds the link with which it is on the list of its event.  When the     *)
(* vector grows, its elements are copied to a new buffer, links included,  *)
(* while the lists keep pointing at the old copies.  The old buffer is     *)
(* never reused (klib::free does nothing), so the old copies keep their    *)
(* contents.  clear_listeners unlinks the new copies.                      *)
(*                                                                         *)
(* A node is the head of an event's list, named by the event, or the slot  *)
(* <<t, c, i>>: element i of the buffer of capacity c of thread t.  The    *)
(* first element of thread t's buffer of capacity c is <<t, c, 1>>.        *)
(***************************************************************************)
EXTENDS Integers, Sequences, FiniteSets, SequencesExt

CONSTANTS Threads, Events, Waits, MaxTriggers,
          Capacities,   \* the capacities a vector may reach
          NULL

VectorSlots == {s \in Threads \X Capacities \X (1 .. Cardinality(Capacities) + 1) :
             s[3] <= s[2]}
Nodes == Events \cup VectorSlots

ASSUME EventListAssumption ==
    /\ MaxTriggers \in Nat /\ Capacities \subseteq Nat \ {0} /\ NULL \notin Nodes
    /\ \A evs \in Waits : evs \in Seq(Events) /\ evs # <<>>

VARIABLES next, prev,     \* ListHead::next, ListHead::prev
          place,          \* Listener::which
          cap,            \* capacity of Thread::listeners
          listens,        \* the events of Thread::listeners, in order
          num_listeners,  \* Event::num_listeners
          state, pending, which, by_signal, signals   \* as in Event

lists == <<next, prev, place, cap, listens, num_listeners>>
eventlist_vars == <<lists, state, pending, which, by_signal, signals>>

EventListInit ==
    /\ next = [n \in Nodes |-> IF n \in Events THEN n ELSE NULL]
    /\ prev = [n \in Nodes |-> IF n \in Events THEN n ELSE NULL]
    /\ place = [s \in VectorSlots |-> 0]
    /\ cap = [t \in Threads |-> 0]
    /\ listens = [t \in Threads |-> <<>>]
    /\ num_listeners = [e \in Events |-> 0]
    /\ state = [t \in Threads |-> "READY"]
    /\ pending = [e \in Events |-> 0]
    /\ which = [t \in Threads |-> 0]
    /\ by_signal = [t \in Threads |-> FALSE]
    /\ signals = [t \in Threads |-> FALSE]

Runs(t) == state[t] = "READY" /\ listens[t] = <<>>
-----------------------------------------------------------------------------
\* The links and the vector of a thread, as one value that the loops change.
Links == [next |-> next, prev |-> prev, place |-> place, cap |-> cap]

\* ListHead::add_before
add_before(L, head, n) ==
    LET last == L.prev[head]
    IN  [L EXCEPT !.next = [@ EXCEPT ![last] = n, ![n] = head],
                  !.prev = [@ EXCEPT ![n] = last, ![head] = n]]

\* Mutant: the node after the removed one keeps pointing at it.
remove_forward(L, n) ==
    [L EXCEPT !.next = [@ EXCEPT ![L.prev[n]] = L.next[n], ![n] = NULL],
              !.prev = [@ EXCEPT ![n] = NULL]]

\* ListHead::remove
remove(L, n) ==
    [L EXCEPT !.next = [@ EXCEPT ![L.prev[n]] = L.next[n], ![n] = NULL],
              !.prev = [@ EXCEPT ![L.next[n]] = L.prev[n], ![n] = NULL]]

\* Vector::reserve_internal for a vector with n elements that gets one more.
reserve(L, t, n) ==
    LET old == L.cap[t]
        new == IF old = 0 THEN 1 ELSE 2 * old
        moved(f) == [s \in DOMAIN f |-> IF s \in VectorSlots /\ s[1] = t /\ s[2] = new /\ s[3] <= n
                                        THEN f[<<t, old, s[3]>>] ELSE f[s]]
    IN  IF n < old THEN L
        ELSE [next |-> moved(L.next), prev |-> moved(L.prev),
              place |-> moved(L.place), cap |-> [L.cap EXCEPT ![t] = new]]

\* listeners.emplace_back and listener_list_head.add_before for event i of evs.
emplace_back(L, t, evs, i) ==
    LET R == reserve(L, t, i - 1)
        n == <<t, R.cap[t], i>>
    IN  add_before([R EXCEPT !.place = [@ EXCEPT ![n] = i]], evs[i], n)

\* How often e is in evs.
Times(evs, e) == Cardinality({i \in DOMAIN evs : evs[i] = e})

\* Install the links L.
Install(L) ==
    /\ next' = L.next /\ prev' = L.prev /\ place' = L.place /\ cap' = L.cap

FirstPending(evs) ==
    LET S == {i \in DOMAIN evs : pending[evs[i]] > 0}
    IN  IF S = {} THEN 0 ELSE CHOOSE i \in S : \A j \in S : i <= j

\* Event::wait that finds a remembered trigger.
wait_pending(t, evs) ==
    /\ Runs(t) /\ ~signals[t] /\ FirstPending(evs) > 0
    /\ pending' = [pending EXCEPT ![evs[FirstPending(evs)]] = @ - 1]
    /\ UNCHANGED <<lists, state, which, by_signal, signals>>

\* Event::wait up to yield.
wait(t, evs) ==
    /\ Runs(t) /\ ~signals[t] /\ FirstPending(evs) = 0
    /\ Install(FoldLeft(LAMBDA L, i : emplace_back(L, t, evs, i), Links,
                        [i \in DOMAIN evs |-> i]))
    /\ listens' = [listens EXCEPT ![t] = evs]
    /\ num_listeners' = [e \in Events |-> num_listeners[e] + Times(evs, e)]
    /\ state' = [state EXCEPT ![t] = "BLOCKED"]
    /\ UNCHANGED <<pending, which, by_signal, signals>>

\* Thread::clear_listeners
clear_listeners(t) ==
    /\ Install(FoldLeft(LAMBDA L, i : remove(L, <<t, cap[t], i>>), Links,
                        [i \in DOMAIN listens[t] |-> i]))
    /\ num_listeners' = [e \in Events |-> num_listeners[e] - Times(listens[t], e)]
    /\ listens' = [listens EXCEPT ![t] = <<>>]

\* Event::wait after yield.
wait_return(t) ==
    /\ state[t] = "READY" /\ listens[t] # <<>>
    /\ clear_listeners(t)
    /\ UNCHANGED <<state, pending, which, by_signal, signals>>
-----------------------------------------------------------------------------
\* The nodes LIST_FOR_EACH visits; a chain that does not return to its head
\* is cut when every slot has been visited.
Chain(e) ==
    LET node[k \in 1 .. Cardinality(VectorSlots)] ==
            IF k = 1 THEN next[e]
            ELSE IF node[k - 1] \in VectorSlots THEN next[node[k - 1]] ELSE NULL
        listed == {k \in DOMAIN node : node[k] \in VectorSlots}
    IN  [k \in 1 .. Cardinality(listed) |-> node[k]]

\* Event::trigger(drop, max_to_wake)
trigger(e, drop, max_to_wake) ==
    LET chain == Chain(e)
        visited == SubSeq(chain, 1, IF Len(chain) < max_to_wake
                                    THEN Len(chain) ELSE max_to_wake)
        mine(t) == {i \in DOMAIN visited : visited[i][1] = t}
        last(t) == CHOOSE i \in mine(t) : \A j \in mine(t) : j <= i
    IN  IF num_listeners[e] = 0
        THEN /\ drop \/ pending[e] < MaxTriggers
             /\ pending' = IF drop THEN pending ELSE [pending EXCEPT ![e] = @ + 1]
             /\ UNCHANGED <<lists, state, which, by_signal, signals>>
        ELSE /\ which' = [t \in Threads |->
                            IF mine(t) = {} THEN which[t] ELSE place[visited[last(t)]]]
             /\ state' = [t \in Threads |->
                            IF mine(t) # {} /\ state[t] = "BLOCKED" THEN "READY"
                            ELSE state[t]]
             /\ by_signal' = [t \in Threads |->
                                by_signal[t] /\ ~(mine(t) # {} /\ state[t] = "BLOCKED")]
             /\ UNCHANGED <<lists, pending, signals>>

\* Thread::send_signal
send_signal(t, masked) ==
    /\ state[t] \notin {"ZOMBIE", "NONE"}
    /\ signals' = [signals EXCEPT ![t] = @ \/ ~masked]
    /\ state' = [state EXCEPT ![t] = IF @ = "BLOCKED" THEN "READY" ELSE @]
    /\ by_signal' = [by_signal EXCEPT ![t] = @ \/ state[t] = "BLOCKED"]
    /\ UNCHANGED <<lists, pending, which>>

\* dispatch_pending_signal
dispatch_signal(t) ==
    /\ Runs(t) /\ signals[t]
    /\ signals' = [signals EXCEPT ![t] = FALSE]
    /\ by_signal' = [by_signal EXCEPT ![t] = FALSE]
    /\ UNCHANGED <<lists, state, pending, which>>

\* terminate_thread
terminate_thread(t) ==
    /\ state[t] \notin {"ZOMBIE", "NONE"}
    /\ state' = [state EXCEPT ![t] = "ZOMBIE"]
    /\ UNCHANGED <<lists, pending, which, by_signal, signals>>

\* Thread::~Thread
destroy(t) ==
    /\ state[t] = "ZOMBIE"
    /\ clear_listeners(t)
    /\ state' = [state EXCEPT ![t] = "NONE"]
    /\ signals' = [signals EXCEPT ![t] = FALSE]
    /\ by_signal' = [by_signal EXCEPT ![t] = FALSE]
    /\ which' = [which EXCEPT ![t] = 0]
    /\ UNCHANGED pending

\* A new thread, with a vector of its own: t stands for a Thread object, and
\* the buffers of a destroyed one are never used again.
create(t) ==
    /\ state[t] = "NONE" /\ cap[t] = 0
    /\ state' = [state EXCEPT ![t] = "READY"]
    /\ UNCHANGED <<lists, pending, which, by_signal, signals>>

EventListNext ==
    \/ \E t \in Threads :
          \/ \E evs \in Waits : wait_pending(t, evs) \/ wait(t, evs)
          \/ wait_return(t)
          \/ \E masked \in BOOLEAN : send_signal(t, masked)
          \/ dispatch_signal(t) \/ terminate_thread(t) \/ destroy(t) \/ create(t)
    \/ \E e \in Events, drop \in BOOLEAN, max_to_wake \in {1, Cardinality(Threads)} :
          trigger(e, drop, max_to_wake)

EventListSpec == EventListInit /\ [][EventListNext]_eventlist_vars
-----------------------------------------------------------------------------
ListQueue ==
    [e \in Events |->
        LET chain == Chain(e)
        IN  [i \in DOMAIN chain |-> [thread |-> chain[i][1], which |-> place[chain[i]]]]]

E == INSTANCE Event WITH queue <- ListQueue

\* ASSERT(listener_list_head.is_empty()) of Event::trigger: an event that
\* counts no listener has none on its list.
CountAssertHolds == \A e \in Events : num_listeners[e] = 0 => next[e] = e

\* When every call waits for one event, the linked listeners are the lists of
\* Event: Event::wait, Event::trigger and clear_listeners keep them in order,
\* whoever is woken, signalled, terminated or destroyed in between; and the
\* count of listeners never denies one.
ImplementsEvent == E!EventSpec /\ []CountAssertHolds
=============================================================================
