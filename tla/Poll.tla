-------------------------------- MODULE Poll --------------------------------
(***************************************************************************)
(* Waiting for several files: ppoll and pselect (fs/vfs.cpp), epoll        *)
(* (userland/epoll.cpp), and the files that exist to be waited for:        *)
(* eventfd (userland/eventfd.cpp) and signalfd (userland/signalfd.cpp).    *)
(*                                                                         *)
(* A thread in a call runs undisturbed up to its sleep; a trigger wakes    *)
(* every thread that listens.  The saved signal mask of ppoll is part of   *)
(* Signal.  One epoll instance; the key of a registration is the file.     *)
(* PollThreads are not the main thread, whose every call a signal ends.    *)
(***************************************************************************)
EXTENDS Naturals, FiniteSets, FiniteSetsExt

LOCAL INSTANCE Sequences

CONSTANTS EventFds, SignalFd,         \* the files
          PollThreads, COUNTER_MAX, Adds,
          PollSignals, PollMasks,     \* signals a process may get; masks of signalfd
          MaxEvents                   \* the maxevents argument of epoll_wait

PollFiles == EventFds \cup {SignalFd}
NoEvent == "none"

ASSUME PollAssumption ==
    /\ {COUNTER_MAX, MaxEvents} \subseteq Nat \ {0} /\ Adds \subseteq 1 .. COUNTER_MAX
    /\ SignalFd \notin EventFds /\ PollThreads \cap PollFiles = {}
    /\ NoEvent \notin PollThreads \cup PollFiles

VARIABLES counter,       \* of each eventfd
          sfd,           \* pending signals of the main thread; the signalfd's mask
          poll_open,     \* files whose descriptor is open
          ep,            \* the epoll instance
          poller,        \* thread -> its call
          poll_crashed   \* a timer of a call that is over has been waited for

poll_vars == <<counter, sfd, poll_open, ep, poller, poll_crashed>>

FreeSlot == [file |-> NoEvent, old |-> {}, et |-> FALSE, interest |-> {}]
\* on: the events the thread listens to (a thread stands for its own timer);
\* stale (history): what is waited for was changed during the sleep; shared
\* (history): a second thread waited in the same epoll.
NoCall == [call |-> "idle", on |-> {}, woken |-> FALSE, timer |-> "off",
         want |-> [f \in PollFiles |-> {}], add |-> 0, stale |-> FALSE, shared |-> FALSE]

PollInit ==
    /\ counter = [f \in EventFds |-> 0]
    /\ sfd = [pending |-> {}, mask |-> PollSignals]
    /\ poll_open = PollFiles
    /\ ep = [events |-> <<>>, wait |-> <<NoEvent>>, first_free |-> 1,
             index |-> [f \in PollFiles |-> 0]]
    /\ poller = [t \in PollThreads |-> NoCall]
    /\ poll_crashed = FALSE

\* VNode::poll of each kind of file.
Bits(f) ==
    IF f = SignalFd THEN IF sfd.pending \cap sfd.mask # {} THEN {"IN"} ELSE {}
    ELSE (IF counter[f] > 0 THEN {"IN"} ELSE {})
            \cup (IF counter[f] < COUNTER_MAX THEN {"OUT"} ELSE {})

\* Mutant: one listener is woken up and not all.
Trigger_one(thr, event) ==
    LET listeners == {t \in PollThreads : event \in thr[t].on} IN
    IF listeners = {} THEN thr ELSE [thr EXCEPT ![CHOOSE t \in listeners : TRUE].woken = TRUE]
Trigger(thr, event) ==
    [t \in PollThreads |-> IF event \in thr[t].on THEN [thr[t] EXCEPT !.woken = TRUE] ELSE thr[t]]
Sleeps(t) == poller[t].call # "idle" /\ ~poller[t].woken
Stale(thr, calls) ==
    [t \in PollThreads |-> IF thr[t].call \in calls THEN [thr[t] EXCEPT !.stale = TRUE] ELSE thr[t]]
\* A call starts, or goes on after a wake-up.
At(t, call) == poller[t].call = "idle" \/ (poller[t].call = call /\ poller[t].woken)
-----------------------------------------------------------------------------
\* eventfd.  The descriptor is made non-blocking whatever the flags say; fcntl
\* can make it block.
eventfd_read(t, f, semaphore) ==
    /\ At(t, "read") /\ (poller[t].call = "idle" \/ f \in poller[t].on)
    /\ IF counter[f] = 0
       THEN /\ poller' = [poller EXCEPT ![t] = [NoCall EXCEPT !.call = "read", !.on = {f}]]
            /\ UNCHANGED counter
       ELSE /\ counter' = [counter EXCEPT ![f] = IF semaphore THEN @ - 1 ELSE 0]
            /\ poller' = Trigger([poller EXCEPT ![t] = NoCall], f)
    /\ UNCHANGED <<sfd, poll_open, ep, poll_crashed>>

HasRoom(f, n) == counter[f] <= COUNTER_MAX - n
eventfd_write(t, f, n) ==
    /\ At(t, "write")
    /\ poller[t].call = "idle" \/ (f \in poller[t].on /\ n = poller[t].add)
    /\ IF HasRoom(f, n)
       THEN /\ counter' = [counter EXCEPT ![f] = @ + n]
            /\ poller' = Trigger([poller EXCEPT ![t] = NoCall], f)
       ELSE /\ poller' = [poller EXCEPT ![t] =
                             [NoCall EXCEPT !.call = "write", !.on = {f}, !.add = n]]
            /\ UNCHANGED counter
    /\ UNCHANGED <<sfd, poll_open, ep, poll_crashed>>

\* send_signal to the main thread, of a signal that it blocks.
signal_arrives(s) ==
    /\ sfd' = [sfd EXCEPT !.pending = @ \cup {s}]
    /\ poller' = Trigger(poller, SignalFd)
    /\ UNCHANGED <<counter, poll_open, ep, poll_crashed>>
\* The lowest signals that fit into the buffer are taken.
signalfd_read(t, num_siginfos) ==
    LET accepted == sfd.pending \cap sfd.mask IN
    /\ At(t, "read") /\ (poller[t].call = "idle" \/ SignalFd \in poller[t].on)
    /\ IF accepted = {}
       THEN /\ poller' = [poller EXCEPT ![t] = [NoCall EXCEPT !.call = "read", !.on = {SignalFd}]]
            /\ UNCHANGED sfd
       ELSE /\ sfd' = [sfd EXCEPT !.pending =
                  @ \ {s \in accepted : Cardinality({r \in accepted : r < s}) < num_siginfos}]
            /\ poller' = [poller EXCEPT ![t] = NoCall]
    /\ UNCHANGED <<counter, poll_open, ep, poll_crashed>>
\* signalfd on an existing descriptor: the new mask wakes up nobody.
signalfd_mask(m) ==
    /\ SignalFd \in poll_open /\ m # sfd.mask
    /\ sfd' = [sfd EXCEPT !.mask = m]
    /\ poller' = Stale(poller, {"read", "poll", "epoll"})
    /\ UNCHANGED <<counter, poll_open, ep, poll_crashed>>
-----------------------------------------------------------------------------
\* ppoll; pselect passes want[f] with "IN" for readfds and "OUT" for writefds.
PollReady(want) ==
    {f \in PollFiles : want[f] # {} /\ (f \notin poll_open \/ Bits(f) \cap want[f] # {})}
PollEvents(t, want, timer) ==
    {f \in PollFiles : want[f] # {}} \cup (IF timer = "off" THEN {} ELSE {t})

ppoll(t, want, timer) ==
    /\ poller[t].call = "idle" /\ \E f \in poll_open : want[f] # {}
    /\ \A f \in PollFiles \ poll_open : want[f] = {}
    /\ PollReady(want) = {}
    /\ poller' = [poller EXCEPT ![t] = [NoCall EXCEPT !.call = "poll",
                     !.on = PollEvents(t, want, timer), !.timer = timer, !.want = want]]
    /\ UNCHANGED <<counter, sfd, poll_open, ep, poll_crashed>>
\* After a wake-up the timer is looked at first, then every file again; the
\* events that were collected before the sleep are waited for again.
ppoll_resume(t) ==
    LET p == poller[t] IN
    /\ p.call = "poll" /\ p.woken
    /\ poller' = [poller EXCEPT ![t] = IF p.timer = "fired" \/ PollReady(p.want) # {}
                                       THEN NoCall ELSE [p EXCEPT !.woken = FALSE]]
    /\ UNCHANGED <<counter, sfd, poll_open, ep, poll_crashed>>

\* Timer::on_timeout during the call; and a signal that ends it (disarm).
poll_timer_fires(t) ==
    /\ poller[t].timer = "armed"
    /\ poller' = Trigger([poller EXCEPT ![t].timer = "fired"], t)
    /\ UNCHANGED <<counter, sfd, poll_open, ep, poll_crashed>>
poll_interrupted(t) ==
    /\ Sleeps(t)
    /\ poller' = [poller EXCEPT ![t] = NoCall]
    /\ UNCHANGED <<counter, sfd, poll_open, ep, poll_crashed>>

\* close: the registration stays, and keeps using the freed description.
poll_close(f) ==
    /\ f \in poll_open
    /\ poll_open' = poll_open \ {f}
    /\ UNCHANGED <<counter, sfd, ep, poller, poll_crashed>>
-----------------------------------------------------------------------------
FreeSlots == {i \in ep.first_free .. Len(ep.events) : ep.events[i].file = NoEvent}

\* allocate_events_index: the index, and the instance it leaves.
allocate_events_index ==
    IF FreeSlots # {}
    THEN [ep EXCEPT !.first_free = Min(FreeSlots) + 1]
    ELSE [ep EXCEPT !.first_free = Len(ep.events) + 1, !.events = Append(@, FreeSlot),
                    !.wait = Append(@, NoEvent)]
NewIndex == IF FreeSlots # {} THEN Min(FreeSlots) ELSE Len(ep.events) + 1

WaitSet(e, i, f) == [e.wait EXCEPT ![i + 1] = f]

epoll_ctl_add(f, interest, et) ==
    LET e == allocate_events_index  i == NewIndex IN
    /\ f \in poll_open /\ ep.index[f] = 0
    /\ ep' = [e EXCEPT !.events[i] = [file |-> f, old |-> {}, et |-> et, interest |-> interest],
                       !.wait = WaitSet(e, i, f), !.index[f] = i]
    /\ poller' = Stale(poller, {"epoll"})
    /\ UNCHANGED <<counter, sfd, poll_open, poll_crashed>>

\* old_revents is kept.
epoll_ctl_mod(f, interest, et) ==
    /\ f \in poll_open /\ ep.index[f] # 0
    /\ ep' = [ep EXCEPT !.events[ep.index[f]] = [@ EXCEPT !.interest = interest, !.et = et]]
    /\ poller' = Stale(poller, {"epoll"})
    /\ UNCHANGED <<counter, sfd, poll_open, poll_crashed>>

FirstFree(i) == IF ep.first_free > i THEN i ELSE ep.first_free
epoll_ctl_del(f) ==
    LET i == ep.index[f] IN
    /\ f \in poll_open /\ i # 0
    /\ ep' = [ep EXCEPT !.events[i] = FreeSlot, !.wait[i + 1] = NoEvent, !.index[f] = 0,
                        !.first_free = FirstFree(i)]
    /\ poller' = Stale(poller, {"epoll"})
    /\ UNCHANGED <<counter, sfd, poll_open, poll_crashed>>
-----------------------------------------------------------------------------
\* One pass over the registrations: it stops at the maxevents-th that is ready;
\* the ones it has seen remember what poll said.
NewRevents(e) == Bits(e.file) \cap e.interest
Used(i) == ep.events[i].file # NoEvent
EpollReady ==
    {i \in DOMAIN ep.events : Used(i) /\
        (IF ep.events[i].et THEN NewRevents(ep.events[i]) \ ep.events[i].old
         ELSE NewRevents(ep.events[i])) # {}}
EpollSeen ==
    IF Cardinality(EpollReady) < MaxEvents THEN DOMAIN ep.events
    ELSE {i \in DOMAIN ep.events : Cardinality({j \in EpollReady : j < i}) < MaxEvents}
EpollScanned(e) ==
    [e EXCEPT !.events = [i \in DOMAIN @ |-> IF i \in EpollSeen /\ Used(i)
                                             THEN [@[i] EXCEPT !.old = NewRevents(ep.events[i])]
                                             ELSE @[i]]]

\* Event::wait of all of wait_events: its first entry is the timer of whoever
\* called epoll_wait last, whose call may be over.
Sharing(t) ==
    [u \in PollThreads |-> IF u # t /\ poller[u].call = "epoll"
                           THEN [poller[u] EXCEPT !.shared = TRUE] ELSE poller[u]]
EpollSleeps(t, p, wait) ==
    LET on == {wait[i] : i \in DOMAIN wait} \ {NoEvent} IN
    /\ poller' = [Sharing(t) EXCEPT ![t] = [p EXCEPT !.on = on, !.woken = FALSE, !.stale = FALSE]]
    /\ poll_crashed' = \E u \in (PollThreads \cap on) \ {t} : poller[u].timer # "armed"

epoll_wait(t, timer) ==
    LET wait == [ep.wait EXCEPT ![1] = IF timer = "off" THEN NoEvent ELSE t] IN
    /\ poller[t].call = "idle"
    /\ ep' = EpollScanned([ep EXCEPT !.wait = wait])
    /\ IF EpollReady # {} THEN poller' = Sharing(t) /\ UNCHANGED poll_crashed
       ELSE EpollSleeps(t, [NoCall EXCEPT !.call = "epoll", !.timer = timer,
                               !.shared = \E u \in PollThreads : poller[u].call = "epoll"], wait)
    /\ UNCHANGED <<counter, sfd, poll_open>>
epoll_resume(t) ==
    /\ poller[t].call = "epoll" /\ poller[t].woken
    /\ IF poller[t].timer = "fired"
       THEN poller' = [poller EXCEPT ![t] = NoCall] /\ UNCHANGED <<ep, poll_crashed>>
       ELSE /\ ep' = EpollScanned(ep)
            /\ IF EpollReady # {}
               THEN poller' = [poller EXCEPT ![t] = NoCall] /\ UNCHANGED poll_crashed
               ELSE EpollSleeps(t, poller[t], ep.wait)
    /\ UNCHANGED <<counter, sfd, poll_open>>

Interests(f) == IF f = SignalFd THEN {{"IN"}} ELSE {{"IN"}, {"OUT"}}
Wants == {w \in [PollFiles -> SUBSET {"IN", "OUT"}] : \A f \in PollFiles : w[f] \in Interests(f) \cup {{}}}
FileCalls ==
    /\ ~poll_crashed
    /\ \/ \E t \in PollThreads :
             \/ \E f \in EventFds : \/ \E b \in BOOLEAN : eventfd_read(t, f, b)
                                    \/ \E n \in Adds : eventfd_write(t, f, n)
             \/ \E n \in 1 .. 2 : signalfd_read(t, n)
             \/ poll_timer_fires(t) \/ poll_interrupted(t)
       \/ \E s \in PollSignals : signal_arrives(s)
       \/ \E m \in PollMasks : signalfd_mask(m)
       \/ \E f \in PollFiles : poll_close(f)
PpollCalls ==
    \E t \in PollThreads :
       \/ \E want \in Wants, timer \in {"off", "armed"} :
             ppoll(t, want, timer)
       \/ ppoll_resume(t)
EpollCalls ==
    /\ ~poll_crashed
    /\ \/ \E t \in PollThreads :
             \/ \E timer \in {"off", "armed"} : epoll_wait(t, timer)
             \/ epoll_resume(t)
       \/ \E f \in PollFiles :
             \/ \E i \in Interests(f), et \in BOOLEAN : epoll_ctl_add(f, i, et) \/ epoll_ctl_mod(f, i, et)
             \/ epoll_ctl_del(f)
PollNext == FileCalls \/ PpollCalls \/ EpollCalls
PollSpec == PollInit /\ [][PollNext]_poll_vars
-----------------------------------------------------------------------------
\* The table of keys, the registrations and the events to wait for agree, and
\* no slot that is free is out of reach of the next registration.
EpollIndex ==
    /\ \A f \in PollFiles : ep.index[f] # 0 => ep.events[ep.index[f]].file = f
    /\ \A i \in DOMAIN ep.events :
          /\ ep.wait[i + 1] = ep.events[i].file
          /\ Used(i) => ep.index[ep.events[i].file] = i
          /\ ~Used(i) => i >= ep.first_free

\* Nobody sleeps for what is there already: a reader or writer of an eventfd or
\* signalfd, ppoll, and the level-triggered registrations of epoll_wait; unless
\* epoll_ctl or signalfd changed what is waited for during the sleep.
PollStranded ==
    ~poll_crashed => \A t \in PollThreads : Sleeps(t) /\ ~poller[t].stale =>
        /\ poller[t].call = "read" => \A f \in poller[t].on : "IN" \notin Bits(f)
        /\ poller[t].call = "write" =>
              \A f \in poller[t].on : counter[f] + poller[t].add > COUNTER_MAX
        /\ poller[t].call = "poll" => \A f \in PollFiles : poller[t].want[f] \cap Bits(f) = {}
        /\ poller[t].call = "epoll" => \A i \in DOMAIN ep.events :
              Used(i) /\ ~ep.events[i].et => NewRevents(ep.events[i]) = {}

\* A thread does not sleep past its timeout: the first entry of wait_events is
\* shared, so that for epoll_wait this holds for one waiter at a time.
PollTimeout ==
    ~poll_crashed => \A t \in PollThreads :
        Sleeps(t) /\ poller[t].timer = "fired" => poller[t].shared

\* The counter of an eventfd never passes its limit.
EventFdBound == \A f \in EventFds : counter[f] <= COUNTER_MAX

\* Waiting for files: the index of epoll is sound, nobody sleeps for what is there
\* or past a timeout, and no counter passes its limit.
PollSafe == EpollIndex /\ PollStranded /\ PollTimeout /\ EventFdBound
=============================================================================
