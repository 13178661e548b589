----------------------------- MODULE MCProcesses ----------------------------
(***************************************************************************)
(* What processes and threads do beside the run list: exceptions that kill *)
(* (Sched), the process tree, signal handlers, ids, and the calls that     *)
(* sleep: eventfd, signalfd, poll and epoll, local sockets and terminals.  *)
(* The parts share no state here; the one that moves is chosen in the      *)
(* initial state. The tree is explored with waiters, with groups and       *)
(* sessions, and with exec by init and one child; actions of signals       *)
(* change outside of handlers; a terminal has one foreground group,        *)
(* sessions and groups are explored apart from it.                         *)
(***************************************************************************)
EXTENDS MCSched, Process, Signal, Cred, Poll, LocalSocket, Tty

VARIABLE part

people == <<process_vars, signal_vars, cred_vars>>
talkers == <<socket_vars, tty_vars>>
processes_vars == <<vars, people, poll_vars, talkers, part>>

MCSigActions ==
    {[handler |-> "handler", flags |-> {"onstack", "resethand"}, mask |-> {2}],
     [handler |-> "handler", flags |-> {"nodefer", "restart"}, mask |-> {1}],
     [handler |-> "ignore", flags |-> {}, mask |-> {}]}

MCSessionOf == [g \in TtyGroups |-> IF g \in {"g1", "g2"} THEN 1 ELSE 2]
MCPtyBuffers == {<<"nl", "intr">>, <<"cr">>}
MCTermios == {{"ICRNL", "ONLCR", "ISIG"}, {"IGNCR", "INLCR"}}
MCKeys == {<<"a">>, <<"b">>, <<"e", "[", "A">>}

ProcessesInit ==
    /\ Init /\ ProcessInit /\ SignalInit /\ CredInit
    /\ PollInit /\ LocalSocketInit /\ TtyInit
    /\ part \in {"faults", "wait", "groups", "exec", "handlers", "ids", "poll", "epoll",
                 "stream", "datagram", "pty", "console", "session"}

PeopleNext ==
    \/ /\ ~proc_crashed
       /\ \/ part \in {"wait", "groups", "exec"} /\ ProcLife
          \/ part = "wait" /\ ProcWait
          \/ part = "groups" /\ ProcGroups
          \/ part = "exec" /\ ProcExec
       /\ part = "exec" => proc'[MaxPid].life = "unborn"
       /\ UNCHANGED <<signal_vars, cred_vars>>
    \/ /\ part = "handlers" /\ SignalNext
       /\ sig_frames # <<>> =>
             \A s \in SigNumbers : sig_action'[s] \in {sig_action[s], DefaultAction}
       /\ UNCHANGED <<process_vars, cred_vars>>
    \/ part = "ids" /\ CredNext /\ UNCHANGED <<process_vars, signal_vars>>

\* Beside epoll no thread sleeps in a read, no file is closed and no mask
\* changes; the signalfd is level-triggered, and one thread has a timeout.
Timed == CHOOSE t \in PollThreads : TRUE
OnlyEpoll ==
    /\ poll_open' = poll_open /\ sfd'.mask = sfd.mask
    /\ \A t \in PollThreads \ {Timed} : poller'[t].timer = "off"
    /\ \A t \in PollThreads : poller'[t].call \in {"idle", "epoll"}
    /\ \A i \in DOMAIN ep'.events : ep'.events[i].file = SignalFd => ~ep'.events[i].et

PollersNext ==
    \/ part = "poll" /\ (FileCalls \/ PpollCalls)
    \/ part = "epoll" /\ (FileCalls \/ EpollCalls) /\ OnlyEpoll

\* The first group becomes the foreground one.
Foreground == tty.fg = NoGroup /\ SessionNext /\ tty'.fg = "g1"

TalkersNext ==
    \/ part = "stream" /\ StreamNext /\ UNCHANGED tty_vars
    \/ part = "datagram" /\ DatagramNext /\ UNCHANGED tty_vars
    \/ part = "pty" /\ (PtyNext \/ Foreground) /\ UNCHANGED socket_vars
    \/ part = "console" /\ ConsoleNext /\ UNCHANGED socket_vars
    \/ part = "session" /\ SessionNext /\ UNCHANGED socket_vars

ProcessesNext ==
    /\ UNCHANGED part
    /\ \/ part = "faults" /\ Next /\ UNCHANGED <<people, poll_vars, talkers>>
       \/ PeopleNext /\ UNCHANGED <<vars, poll_vars, talkers>>
       \/ PollersNext /\ UNCHANGED <<vars, people, talkers>>
       \/ TalkersNext /\ UNCHANGED <<vars, people, poll_vars>>

ProcessesSpec == ProcessesInit /\ [][ProcessesNext]_processes_vars
=============================================================================
