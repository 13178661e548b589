---------------------------- MODULE MCStructures ----------------------------
(***************************************************************************)
(* The data structures the rest of the kernel is built on, side by side:   *)
(* the ring buffer, the listener lists of events, the page allocator, and  *)
(* timers with the sleeps and futexes on top of them.  They share no state *)
(* here; the part that moves is chosen in the initial state.               *)
(***************************************************************************)
EXTENDS RingBuffer, MCEventList, Pmm, Timer

VARIABLE part

structures_vars == <<vars, eventlist_vars, pmm_vars, timer_vars, part>>

\* Two entries, neither of whole pages; the second has fewer pages than MaxRun.
MCMemoryMap == <<<<0, 20>>, <<22, 21>>>>

MCDurations == {<<0, 0>>, <<1, 1>>}
MCIntervals == {<<0, 2>>, <<1, 0>>}

StructuresInit ==
    /\ Init /\ EventListInit /\ PmmInit /\ TimerInit
    /\ part \in {"ring", "list", "pages", "timer", "futex"}
    /\ part # "ring" => data = [i \in Slots |-> CHOOSE v \in Values : TRUE]

StructuresNext ==
    /\ UNCHANGED part
    /\ \/ part = "ring" /\ Next /\ UNCHANGED <<eventlist_vars, pmm_vars, timer_vars>>
       \/ part = "list" /\ EventListNext /\ UNCHANGED <<vars, pmm_vars, timer_vars>>
       \/ part = "pages" /\ PmmNext /\ UNCHANGED <<vars, eventlist_vars, timer_vars>>
       \/ /\ \/ part \in {"timer", "futex"} /\ TimerEvents
             \/ part = "timer" /\ TimerSleeps
             \/ part = "futex" /\ FutexCalls
          /\ UNCHANGED <<vars, eventlist_vars, pmm_vars>>

StructuresSpec == StructuresInit /\ [][StructuresNext]_structures_vars
=============================================================================
