-------------------------------- MODULE Timer --------------------------------
(***************************************************************************)
(* Timers (sched/time.cpp, klib/timespec.hpp) and the two sleeps built on  *)
(* them: nanosleep and futex_wait (userland/futex.cpp).  Every thread is a *)
(* process of its own; the Timer of a sleep lives on its kernel stack,     *)
(* which is unmapped when the thread is destroyed.  All threads use one    *)
(* futex.  A system call is one action up to its sleep; the timer          *)
(* interrupt runs between them.                                            *)
(***************************************************************************)
EXTENDS Lists, FiniteSets

CONSTANTS TimThreads, NanosPerSecond,
          Durations, Intervals    \* TimeSpecs <<s, ns>>: of sleeps, between interrupts

\* The TimeSpecs that POSIX allows; nanosleep and futex do not check them.
TimeSpecs == Nat \X (0 .. NanosPerSecond - 1)
ASSUME TimerAssumption ==
    /\ IsFiniteSet(TimThreads)
    /\ NanosPerSecond \in Nat \ {0} /\ Durations \subseteq TimeSpecs /\ Intervals \subseteq TimeSpecs

VARIABLES tim_thread,   \* pc, the call it is in, what woke it up
          tim_timer,    \* the Timer of each thread's sleep
          tim_itimer,   \* itimer_real of each process: remaining and interval
          fut_word, fut_list   \* the futex: its value and the listeners, in order

timer_vars == <<tim_thread, tim_timer, tim_itimer, fut_word, fut_list>>

ZeroTime == <<0, 0>>
\* armed: linked in armed_timers_list.  The rest of the fields but remaining and
\* fired are history: the duration, and the time and interrupts since arm.
Disarmed == [armed |-> FALSE, remaining |-> ZeroTime, fired |-> FALSE,
             duration |-> ZeroTime, elapsed |-> 0, ticks |-> 0]
TimerInit ==
    /\ tim_thread = [t \in TimThreads |->
          [pc |-> "run", call |-> "none", by |-> "none", signal |-> FALSE]]
    /\ tim_timer = [t \in TimThreads |-> Disarmed]
    /\ tim_itimer = [t \in TimThreads |->
          [armed |-> FALSE, remaining |-> ZeroTime, interval |-> ZeroTime]]
    /\ fut_word = 0 /\ fut_list = <<>>
-----------------------------------------------------------------------------
Nanos(time) == time[1] * NanosPerSecond + time[2]

\* TimeSpec -=: stops at zero; a borrow is a nanosecond short.
Minus(a, b) ==
    IF b[2] > a[2]
    THEN IF a[1] = 0 \/ b[1] > a[1] - 1 THEN ZeroTime
         ELSE <<a[1] - 1 - b[1], NanosPerSecond - 1 - (b[2] - a[2])>>
    ELSE IF b[1] > a[1] THEN ZeroTime ELSE <<a[1] - b[1], a[2] - b[2]>>

arm(time) == [Disarmed EXCEPT !.armed = TRUE, !.remaining = time, !.duration = time]
Without(list, t) == Select(list, TimThreads \ {t})
\* enqueue_thread.
Woken(threads, t, by) == IF threads[t].pc = "sleep"
                         THEN [threads EXCEPT ![t].pc = "awake", ![t].by = by] ELSE threads

\* Event::wait with a signal pending returns -EINTR at once.
clock_nanosleep(t, time) ==
    /\ tim_thread[t].pc = "run"
    /\ ~tim_thread[t].signal
    /\ tim_thread' = [tim_thread EXCEPT ![t].pc = "sleep", ![t].call = "nanosleep"]
    /\ tim_timer' = [tim_timer EXCEPT ![t] = arm(time)]
    /\ UNCHANGED <<tim_itimer, fut_word, fut_list>>

futex_listed(t) == Append(fut_list, t)
\* The word is compared and the thread listed with interrupts disabled.
futex_wait(t, expected, timeouts) ==
    /\ tim_thread[t].pc = "run" /\ fut_word = expected /\ ~tim_thread[t].signal
    /\ tim_thread' = [tim_thread EXCEPT ![t].pc = "sleep", ![t].call = "futex"]
    /\ fut_list' = futex_listed(t)
    /\ tim_timer' = [tim_timer EXCEPT ![t] = IF timeouts = {} THEN Disarmed
                                             ELSE arm(CHOOSE time \in timeouts : TRUE)]
    /\ UNCHANGED <<tim_itimer, fut_word>>

\* The first max_to_wake listeners are told, those that are awake already or
\* dead among them; each is listed until it runs again.
futex_wake(max_to_wake) ==
    LET told == {fut_list[i] : i \in {j \in DOMAIN fut_list : j <= max_to_wake}}
    IN  [t \in TimThreads |->
            IF t \notin told \/ tim_thread[t].pc \notin {"sleep", "awake"} THEN tim_thread[t]
            ELSE [tim_thread[t] EXCEPT !.pc = "awake",
                     !.by = IF tim_thread[t].pc = "awake" /\ @ = "signal" THEN @ ELSE "futex"]]
\* The word is changed, by user code or FUTEX_WAKE_OP, and waiters are woken; with
\* 0 the word only changes.
syscall_futex_wake(t, value, max_to_wake) ==
    /\ tim_thread[t].pc = "run"
    /\ fut_word' = value
    /\ tim_thread' = futex_wake(max_to_wake)
    /\ UNCHANGED <<tim_timer, tim_itimer, fut_list>>

\* -EINTR, or the event that triggered last.
wait_result(t) == tim_thread[t].by
\* Event::wait returns, the listeners are cleared, disarm.
sleep_return(t) ==
    /\ tim_thread[t].pc = "awake"
    /\ fut_list' = Without(fut_list, t)
    /\ tim_thread' = [tim_thread EXCEPT ![t].pc = "returned", ![t].by = wait_result(t)]
    /\ tim_timer' = [tim_timer EXCEPT ![t].armed = FALSE, ![t].remaining = ZeroTime]
    /\ UNCHANGED <<tim_itimer, fut_word>>
sleep_ends(t) ==
    /\ tim_thread[t].pc = "returned"
    /\ tim_timer' = [tim_timer EXCEPT ![t] = Disarmed]
    /\ tim_thread' = [tim_thread EXCEPT ![t] =
          [pc |-> "run", call |-> "none", by |-> "none", signal |-> FALSE]]
    /\ UNCHANGED <<tim_itimer, fut_word, fut_list>>
-----------------------------------------------------------------------------
\* update_time: a timer that has fired is unlinked, it is not counted down.
Counted(timer, interval) ==
    LET left == Minus(timer.remaining, interval)
    IN  [timer EXCEPT !.remaining = left, !.elapsed = @ + Nanos(interval), !.ticks = @ + 1,
                      !.fired = (left = ZeroTime), !.armed = (left # ZeroTime)]
CountedItimer(it, interval) ==
    LET left == Minus(it.remaining, interval)
    IN  [it EXCEPT !.remaining = IF left = ZeroTime THEN it.interval ELSE left,
                   !.armed = (left # ZeroTime \/ it.interval # ZeroTime)]
Alarmed(t, interval) ==
    tim_itimer[t].armed /\ Minus(tim_itimer[t].remaining, interval) = ZeroTime

\* The listeners of the timers that fire wake up, SIGALRM goes to the main
\* thread; both may come for one thread, in the order of the timers.
update_time(interval) ==
    /\ \E t \in TimThreads : tim_timer[t].armed \/ tim_itimer[t].armed
    /\ tim_timer' = [t \in TimThreads |-> IF tim_timer[t].armed
                       THEN Counted(tim_timer[t], interval) ELSE tim_timer[t]]
    /\ tim_itimer' = [t \in TimThreads |-> IF tim_itimer[t].armed
                        THEN CountedItimer(tim_itimer[t], interval) ELSE tim_itimer[t]]
    /\ \E first \in {"timer", "signal"} :
         tim_thread' = [t \in TimThreads |->
            LET th == tim_thread[t]
                fires == tim_timer[t].armed /\ tim_timer'[t].fired
                alarm == Alarmed(t, interval)
            IN  CASE th.pc = "sleep" /\ (fires \/ alarm) ->
                       [th EXCEPT !.pc = "awake",
                          !.by = IF alarm /\ (~fires \/ first = "signal") THEN "signal" ELSE "timer"]
                  [] th.pc = "awake" /\ fires /\ th.by # "signal" -> [th EXCEPT !.by = "timer"]
                  [] th.pc = "run" /\ alarm -> [th EXCEPT !.signal = TRUE]
                  [] OTHER -> th]
    /\ UNCHANGED <<fut_word, fut_list>>

setitimer(t, time, interval) ==
    /\ tim_thread[t].pc = "run"
    /\ tim_itimer' = [tim_itimer EXCEPT ![t] =
          IF time = ZeroTime THEN [armed |-> FALSE, remaining |-> ZeroTime,
                                   interval |-> ZeroTime]
          ELSE [armed |-> TRUE, remaining |-> time, interval |-> interval]]
    /\ UNCHANGED <<tim_thread, tim_timer, fut_word, fut_list>>

tim_signal(t) ==
    /\ tim_thread[t].pc \in {"run", "sleep"}
    /\ tim_thread' = IF tim_thread[t].pc = "run" THEN [tim_thread EXCEPT ![t].signal = TRUE]
                     ELSE Woken(tim_thread, t, "signal")
    /\ UNCHANGED <<tim_timer, tim_itimer, fut_word, fut_list>>
\* The signal is dispatched on the way back to user mode.
tim_dispatch(t) ==
    /\ tim_thread[t].pc = "run" /\ tim_thread[t].signal
    /\ tim_thread' = [tim_thread EXCEPT ![t].signal = FALSE]
    /\ UNCHANGED <<tim_timer, tim_itimer, fut_word, fut_list>>

\* A thread may be terminated while it sleeps: its timer stays armed and its
\* listener listed until the process is reaped and the thread destroyed.
tim_terminate(t) ==
    /\ tim_thread[t].pc \in {"run", "sleep", "awake"}
    /\ tim_thread' = [tim_thread EXCEPT ![t].pc = "zombie"]
    /\ UNCHANGED <<tim_timer, tim_itimer, fut_word, fut_list>>
\* Mutant: the timers of the thread are forgotten.
tim_destroy_armed(t) ==
    /\ tim_thread[t].pc = "zombie"
    /\ tim_thread' = [tim_thread EXCEPT ![t].pc = "gone"]
    /\ fut_list' = Without(fut_list, t)
    /\ UNCHANGED <<tim_timer, tim_itimer, fut_word>>
tim_destroy(t) ==
    /\ tim_thread[t].pc = "zombie"
    /\ tim_thread' = [tim_thread EXCEPT ![t].pc = "gone"]
    /\ fut_list' = Without(fut_list, t)
    /\ tim_timer' = [tim_timer EXCEPT ![t] = Disarmed]
    /\ tim_itimer' = [tim_itimer EXCEPT ![t].armed = FALSE]
    /\ UNCHANGED fut_word

TimerSleeps ==
    \E t \in TimThreads :
       \/ \E time \in Durations : clock_nanosleep(t, time)
       \/ \E time \in Durations, i \in {ZeroTime} \cup Intervals : setitimer(t, time, i)
FutexCalls ==
    \E t \in TimThreads :
       \/ \E e \in {0, 1}, timeouts \in {{}} \cup {{time} : time \in Durations} :
             futex_wait(t, e, timeouts)
       \/ \E v \in {0, 1}, n \in {0, 1, Cardinality(TimThreads)} : syscall_futex_wake(t, v, n)
TimerEvents ==
    \/ \E t \in TimThreads :
          \/ sleep_return(t)
          \/ sleep_ends(t)
          \/ tim_signal(t)
          \/ tim_dispatch(t)
          \/ tim_terminate(t)
          \/ tim_destroy(t)
    \/ \E i \in Intervals : update_time(i)
TimerNext == TimerSleeps \/ FutexCalls \/ TimerEvents

TimerSpec == TimerInit /\ [][TimerNext]_timer_vars
-----------------------------------------------------------------------------
\* A timer fires in the interrupt that completes its time: until then it is
\* armed, what remains is the true rest less at most a nanosecond for each
\* interrupt, and it never fires earlier than that.
TimerExact ==
    \A t \in TimThreads :
        LET it == tim_timer[t]
            rest == Nanos(it.duration) - it.elapsed
        IN  /\ it.armed => /\ Nanos(it.remaining) \in rest - it.ticks .. rest
                           /\ it.ticks > 0 => it.remaining # ZeroTime
            /\ it.fired => rest <= it.ticks

\* No timer the interrupt walks over lies on the stack or in the process of a
\* thread that has been destroyed, even if it was terminated in its sleep.
TimerStacks ==
    \A t \in TimThreads : tim_timer[t].armed \/ tim_itimer[t].armed => tim_thread[t].pc # "gone"

\* The assertion of nanosleep: a sleep that was not ended by a signal was ended
\* by its timer.
TimerAssert ==
    \A t \in TimThreads :
        tim_thread[t].pc = "returned" /\ tim_thread[t].call = "nanosleep"
        /\ tim_thread[t].by # "signal" => tim_timer[t].fired

\* Wake-ups go to the waiters of a futex in the order in which they came: one
\* that sleeps is not overtaken by a later one that a wake has reached.
FutexOrder ==
    \A i, j \in DOMAIN fut_list : i < j /\ tim_thread[fut_list[j]].pc = "awake"
        /\ tim_thread[fut_list[j]].by = "futex" => tim_thread[fut_list[i]].pc # "sleep"

\* Timers, sleeps and futexes as a whole: exact, on memory that exists, and woken
\* in the order of their sleep.
TimerSafe == TimerExact /\ TimerStacks /\ TimerAssert /\ FutexOrder
=============================================================================
