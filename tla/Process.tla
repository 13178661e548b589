------------------------------- MODULE Process -------------------------------
(***************************************************************************)
(* The process tree (sched/sched.cpp, userland/pid.cpp): fork, exec, exit, *)
(* stop and continue, the wait calls, process groups and sessions.         *)
(*                                                                         *)
(* A system call runs with interrupts disabled: each is one action, up to  *)
(* the sleep of waitid.  Waiters are the threads of a process that may be  *)
(* in waitid.  A waiter that reports a child which another one has reaped  *)
(* works on a deleted process: proc_crashed is set and the run ends there. *)
(* Events are left out but for the wake-ups: a count of triggers nobody    *)
(* listened to only makes waitid look once more before it sleeps.          *)
(***************************************************************************)
EXTENDS Naturals, Sequences, FiniteSets

CONSTANTS MaxPid,       \* pids are given out once, init has 1
          Waiters,
          WaitOptions,  \* the sets of WEXITED, WSTOPPED, WCONTINUED asked for
          MaxGroups, MaxExecs

ASSUME ProcessAssumption ==
    /\ {MaxPid, MaxGroups, MaxExecs} \subseteq Nat \ {0}
    /\ WaitOptions \subseteq (SUBSET {"exited", "stopped", "continued"}) \ {{}}

Init_ == 1
ProcPids == 1 .. MaxPid

VARIABLES proc,         \* pid -> the process
          proc_groups,  \* process groups, numbered: session, leader
          proc_leaders, \* sessions, numbered: leader_group
          proc_waiter,  \* pid -> waiter -> what it sleeps for
          proc_crashed

process_vars == <<proc, proc_groups, proc_leaders, proc_waiter, proc_crashed>>

NotWaiting == [asleep |-> FALSE, woken |-> FALSE, targets |-> {}, options |-> {}]
\* life: a reaped process is deleted; its memory keeps what it held.
NoProcess == [life |-> "unborn", parent |-> 0, code |-> "none", group |-> 0,
              execed |-> FALSE, adopted |-> FALSE, stopped |-> FALSE,
              ended |-> "no", image |-> 0, anon |-> 0, brk |-> 0, execs |-> 0]

\* create_init_process: init is its own parent and leads group and session 1.
ProcessInit ==
    /\ proc = [p \in ProcPids |->
          IF p = Init_ THEN [NoProcess EXCEPT !.life = "alive", !.parent = Init_, !.group = 1]
          ELSE NoProcess]
    /\ proc_groups = <<[session |-> 1, leader |-> Init_]>>
    /\ proc_leaders = <<1>>
    /\ proc_waiter = [p \in ProcPids |-> [w \in Waiters |-> NotWaiting]]
    /\ proc_crashed = FALSE

Living(p) == proc[p].life = "alive" /\ ~proc[p].stopped
Exists(p) == proc[p].life \in {"alive", "zombie"}
children_list(p) == {c \in ProcPids \ {Init_} : Exists(c) /\ proc[c].parent = p}

\* Event::trigger of a child's zombie, stopped or continued event.
Triggered(c, event) ==
    [p \in ProcPids |-> [w \in Waiters |->
        LET it == proc_waiter[p][w]
        IN  IF it.asleep /\ c \in it.targets /\ event \in it.options
            THEN [it EXCEPT !.woken = TRUE] ELSE it]]
-----------------------------------------------------------------------------
\* clone_impl without thread flags: the child joins the group of its parent.
proc_fork(p, c) ==
    /\ Living(p) /\ proc[c].life = "unborn" /\ \A q \in 1 .. c - 1 : proc[q].life # "unborn"
    /\ proc' = [proc EXCEPT ![c] =
          [NoProcess EXCEPT !.life = "alive", !.parent = p, !.group = proc[p].group,
              !.image = proc[p].image, !.anon = proc[p].anon, !.brk = proc[p].brk]]
    /\ UNCHANGED <<proc_groups, proc_leaders, proc_waiter, proc_crashed>>

\* set_parent also moves the process into the group of the new parent.
set_parent(table, children) ==
    [q \in ProcPids |-> IF q \in children
        THEN [table[q] EXCEPT !.parent = Init_, !.group = table[Init_].group, !.adopted = TRUE]
        ELSE table[q]]

zombified(p, code, how) ==
    set_parent([proc EXCEPT ![p].life = "zombie", ![p].ended = how, ![p].stopped = FALSE,
                            ![p].code = IF code = "none" THEN @ ELSE code],
               children_list(p))

\* Mutant: another event is triggered than the one waiters sleep on.
proc_zombify_quiet(p, code, how) ==
    /\ p # Init_
    /\ proc' = zombified(p, code, how)
    /\ proc_waiter' = [Triggered(p, "continued") EXCEPT ![p] = [w \in Waiters |-> NotWaiting]]
    /\ UNCHANGED <<proc_groups, proc_leaders, proc_crashed>>
\* The last thread is gone: by exit_group, by a signal, or by exit, which
\* leaves the wait code alone.  The threads that waited go with the process.
proc_zombify(p, code, how) ==
    /\ p # Init_
    /\ proc' = zombified(p, code, how)
    /\ proc_waiter' = [Triggered(p, "exited") EXCEPT ![p] = [w \in Waiters |-> NotWaiting]]
    /\ UNCHANGED <<proc_groups, proc_leaders, proc_crashed>>
proc_exit_group(p) == Living(p) /\ proc_zombify(p, "exited", "exit_group")
proc_exit(p) == Living(p) /\ proc_zombify(p, "none", "exit")
proc_killed(p) == proc[p].life = "alive" /\ proc_zombify(p, "killed", "signal")

\* dequeue_thread with a stop signal; scheduler_isr when SIGCONT has come.
proc_stop(p) ==
    /\ Living(p) /\ p # Init_
    /\ proc' = [proc EXCEPT ![p].stopped = TRUE, ![p].code = "stopped"]
    /\ proc_waiter' = Triggered(p, "stopped")
    /\ UNCHANGED <<proc_groups, proc_leaders, proc_crashed>>
proc_continue(p) ==
    /\ proc[p].life = "alive" /\ proc[p].stopped
    /\ proc' = [proc EXCEPT ![p].stopped = FALSE, ![p].code = "continued"]
    /\ proc_waiter' = Triggered(p, "continued")
    /\ UNCHANGED <<proc_groups, proc_leaders, proc_crashed>>
-----------------------------------------------------------------------------
\* The loop of waitid: the first child with a code is reported and, if it is
\* a zombie, deleted; otherwise its code is cleared.  WNOHANG returns, the
\* others sleep on the events of the children they have collected.
waitid_loop(p, w, targets, options, nohang) ==
    LET ready == {c \in targets : proc[c].code # "none"}
        done == proc_waiter' = [proc_waiter EXCEPT ![p][w] = NotWaiting]
    IN  IF ready # {}
        THEN \E c \in ready :
               /\ proc_crashed' = (proc[c].life = "reaped")
               /\ proc' = IF proc[c].life = "alive" THEN [proc EXCEPT ![c].code = "none"]
                          ELSE [proc EXCEPT ![c].life = "reaped"]
               /\ done
        ELSE /\ IF nohang THEN done
                ELSE proc_waiter' = [proc_waiter EXCEPT ![p][w] =
                        [asleep |-> TRUE, woken |-> FALSE, targets |-> targets,
                         options |-> options]]
             /\ UNCHANGED <<proc, proc_crashed>>

\* P_ALL collects all children, P_PID the one process, which must be a child.
waitid(p, w) ==
    /\ Living(p) /\ ~proc_waiter[p][w].asleep /\ children_list(p) # {}
    /\ \E targets \in {children_list(p)} \cup {{c} : c \in children_list(p)},
          options \in WaitOptions, nohang \in BOOLEAN :
          waitid_loop(p, w, targets, options, nohang)
    /\ UNCHANGED <<proc_groups, proc_leaders>>

waitid_resume(p, w) ==
    LET it == proc_waiter[p][w] IN
    /\ Living(p) /\ it.asleep /\ it.woken
    /\ waitid_loop(p, w, it.targets, it.options, FALSE)
    /\ UNCHANGED <<proc_groups, proc_leaders>>
waitid_interrupted(p, w) ==
    /\ Living(p) /\ proc_waiter[p][w].asleep
    /\ proc_waiter' = [proc_waiter EXCEPT ![p][w] = NotWaiting]
    /\ UNCHANGED <<proc, proc_groups, proc_leaders, proc_crashed>>
-----------------------------------------------------------------------------
session_leader(p) == proc_groups[proc_leaders[proc_groups[proc[p].group].session]].leader

\* The caller itself or a child that has not called execve; no session leader.
setpgid_target(p, t) ==
    /\ \/ t = p
       \/ Exists(t) /\ proc[t].parent = p /\ ~proc[t].execed
    /\ session_leader(t) # t

setpgid(p, t, pgid) ==
    /\ Living(p) /\ setpgid_target(p, t)
    /\ IF pgid # t
       THEN /\ Exists(pgid)
            /\ proc_groups[proc[pgid].group].session = proc_groups[proc[t].group].session
            /\ proc' = [proc EXCEPT ![t].group = proc[pgid].group]
            /\ UNCHANGED proc_groups
       ELSE /\ proc_groups[proc[t].group].leader # t /\ Len(proc_groups) < MaxGroups
            /\ proc_groups' = Append(proc_groups,
                  [session |-> proc_groups[proc[t].group].session, leader |-> t])
            /\ proc' = [proc EXCEPT ![t].group = Len(proc_groups) + 1]
    /\ UNCHANGED <<proc_leaders, proc_waiter, proc_crashed>>

setsid(p) ==
    /\ Living(p) /\ proc_groups[proc[p].group].leader # p /\ Len(proc_groups) < MaxGroups
    /\ proc_groups' = Append(proc_groups, [session |-> Len(proc_leaders) + 1, leader |-> p])
    /\ proc' = [proc EXCEPT ![p].group = Len(proc_groups) + 1]
    /\ proc_leaders' = Append(proc_leaders, Len(proc_groups) + 1)
    /\ UNCHANGED <<proc_waiter, proc_crashed>>
-----------------------------------------------------------------------------
\* The images a process runs are numbered.  Where user_exec fails: on the file
\* itself, or on its program interpreter, when the break has been moved.
ExecOutcomes == {"ok", "noexec", "linker"}

\* Mutant: the base of anonymous mappings is not put back.
user_exec_undone_half(p, new, outcome) ==
    [proc[p] EXCEPT !.anon = new, !.brk = IF outcome = "linker" THEN new ELSE @]
\* A failed exec puts the page map and its base back, but for init.
user_exec_undone(p, new, outcome) ==
    LET failed == [proc[p] EXCEPT !.brk = IF outcome = "linker" THEN new ELSE @]
    IN  IF p = Init_ THEN [failed EXCEPT !.image = new, !.anon = new] ELSE failed

user_exec(p, outcome) ==
    LET new == 1 + Cardinality({i \in ProcPids \X (1 .. MaxExecs) : i[2] <= proc[i[1]].execs}) IN
    /\ Living(p) /\ proc[p].execs < MaxExecs
    /\ proc' = [proc EXCEPT ![p] =
          [(IF outcome = "ok"
            THEN [proc[p] EXCEPT !.image = new, !.anon = new, !.brk = new, !.execed = TRUE]
            ELSE user_exec_undone(p, new, outcome)) EXCEPT !.execs = @ + 1]]
    /\ UNCHANGED <<proc_groups, proc_leaders, proc_waiter, proc_crashed>>

ProcLife ==
    \E p \in ProcPids :
       \/ \E c \in ProcPids : proc_fork(p, c)
       \/ proc_exit_group(p)
       \/ proc_exit(p)
       \/ proc_killed(p)
ProcWait ==
    \E p \in ProcPids :
       \/ proc_stop(p)
       \/ proc_continue(p)
       \/ \E w \in Waiters :
             \/ waitid(p, w)
             \/ waitid_resume(p, w)
             \/ waitid_interrupted(p, w)
ProcGroups ==
    \E p \in ProcPids :
       \/ \E t, g \in ProcPids : setpgid(p, t, g)
       \/ setsid(p)
ProcExec == \E p \in ProcPids, outcome \in ExecOutcomes : user_exec(p, outcome)
ProcessNext == ~proc_crashed /\ (ProcLife \/ ProcWait \/ ProcGroups \/ ProcExec)

ProcessSpec == ProcessInit /\ [][ProcessNext]_process_vars
-----------------------------------------------------------------------------
\* Whatever the order in which parents and children end, a process that has
\* not been reaped has a parent that lives and can reap it (proc_zombify).
ProcTree ==
    \A p \in ProcPids : Exists(p) => proc[proc[p].parent].life = "alive"

\* Nobody sleeps in waitid for a child it asked to see end that is a zombie
\* with a code to report: the wake-up came before or with the sleep.
ProcWaitersWoken ==
    \A p \in ProcPids, w \in Waiters :
        LET it == proc_waiter[p][w] IN
        it.asleep /\ ~it.woken /\ "exited" \in it.options =>
            \A c \in it.targets : proc[c].life = "zombie" => proc[c].code = "none"

\* A zombie can be reaped, its code says how it ended, unless its last thread
\* called exit, which records nothing.
ProcCodes ==
    \A p \in ProcPids : proc[p].life = "zombie" /\ proc[p].ended # "exit" =>
        proc[p].code = IF proc[p].ended = "signal" THEN "killed" ELSE "exited"

\* A process that has made a session leads it and its first group until it is
\* reaped, whatever setpgid its parent tries, unless init adopts it.
ProcSessions ==
    \A s \in DOMAIN proc_leaders :
        LET l == proc_groups[proc_leaders[s]].leader
        IN  Exists(l) /\ ~proc[l].adopted => proc[l].group = proc_leaders[s]

\* After any number of execs that succeed or fail, a process other than init
\* maps memory above the image it runs, not above one that failed to load.
ProcImages ==
    \A p \in ProcPids \ {Init_} : Exists(p) => proc[p].anon = proc[p].image

\* The end of processes: parents and children agree, a parent that sleeps in wait
\* is woken, and learns how its child ended.
ProcReaped == ProcTree /\ ProcWaitersWoken /\ ProcCodes

\* What setpgid, setsid and exec of any process leave intact: the sessions of
\* others and the image that runs.
ProcKept == ProcSessions /\ ProcImages
=============================================================================
