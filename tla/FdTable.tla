------------------------------ MODULE FdTable -------------------------------
(***************************************************************************)
(* File descriptor tables: Process::file_descriptors with the hint         *)
(* first_free_fdnum (sched/sched.cpp) and the calls of fs/vfs.cpp that     *)
(* change them.  num_file_descriptors, which nothing reads, is left out.   *)
(*                                                                         *)
(* A descriptor is a reference to a description and the flag FD_CLOEXEC; a *)
(* description is shared by dup and fork and closed with its last          *)
(* reference.  Every call runs with interrupts off and is one step.  Calls *)
(* that fail change nothing and are left out.                              *)
(***************************************************************************)
EXTENDS Integers, FiniteSets

CONSTANTS Procs, Init_process, Descriptions,
          Free,       \* an empty descriptor
          StdFds,     \* descriptors of the init process (3 in the code)
          MaxFds      \* bound: descriptor numbers; dup3 allows 1024

Fds == 0 .. MaxFds - 1

ASSUME FdAssumption ==
    /\ Init_process \in Procs /\ Free \notin Descriptions
    /\ MaxFds \in Nat \ {0} /\ StdFds \in 0 .. MaxFds
ASSUME ProcsAssumption == IsFiniteSet(Procs)

VARIABLES alive,       \* the processes that exist and are no zombies
          size,        \* file_descriptors.size()
          desc,        \* FileDescriptor::get_description
          cloexec,     \* the descriptors with FD_CLOEXEC
          first_free,  \* Process::first_free_fdnum
          ref          \* FileDescription::ref_count; 0: does not exist

vars == <<alive, size, desc, cloexec, first_free, ref>>

\* create_init_process
Init ==
    /\ alive = {Init_process}
    /\ size = [p \in Procs |-> IF p = Init_process THEN StdFds ELSE 0]
    /\ first_free = size
    /\ cloexec = [p \in Procs |-> {}]
    /\ \E std \in [0 .. StdFds - 1 -> Descriptions] :
          /\ \A i, j \in DOMAIN std : std[i] = std[j] => i = j
          /\ desc = [p \in Procs |-> [fd \in Fds |->
                       IF p = Init_process /\ fd < StdFds THEN std[fd] ELSE Free]]
          /\ ref = [d \in Descriptions |-> IF \E i \in DOMAIN std : std[i] = d THEN 1 ELSE 0]

IsOpen(p, fd) == desc[p][fd] # Free
-----------------------------------------------------------------------------
\* Process::allocate_fdnum(min_fdnum)

\* Where the search begins.
SearchStart(p, min) == IF min < first_free[p] THEN first_free[p] ELSE min

\* The empty descriptors the search may find, and the number that
\* push_back gives.
Candidates(p, min) ==
    {fd \in Fds : SearchStart(p, min) <= fd /\ fd < size[p] /\ ~IsOpen(p, fd)}

Allocated(p, min) ==
    IF Candidates(p, min) = {} THEN size[p]
    ELSE CHOOSE fd \in Candidates(p, min) : \A g \in Candidates(p, min) : fd <= g

\* Mutant: the hint moves even when the search skipped lower numbers.
NewHint_always(p, min) ==
    IF Candidates(p, min) = {} THEN size[p] ELSE Allocated(p, min) + 1

NewHint(p, min) ==
    IF min >= first_free[p] THEN first_free[p]
    ELSE IF Candidates(p, min) = {} THEN size[p]
    ELSE Allocated(p, min) + 1

\* Put description d into the descriptor that allocate_fdnum returns.
install(p, min, d, flags) ==
    LET fd == Allocated(p, min)
    IN  /\ fd < MaxFds
        /\ first_free' = [first_free EXCEPT ![p] = NewHint(p, min)]
        /\ size' = [size EXCEPT ![p] = IF fd = @ THEN @ + 1 ELSE @]
        /\ desc' = [desc EXCEPT ![p] = [@ EXCEPT ![fd] = d]]
        /\ cloexec' = [cloexec EXCEPT ![p] = IF flags THEN @ \cup {fd} ELSE @ \ {fd}]

\* openat, pipe, socket, epoll_create, eventfd, ...: a new description.
openat(p, d, flags) ==
    /\ p \in alive /\ ref[d] = 0
    /\ install(p, 0, d, flags)
    /\ ref' = [ref EXCEPT ![d] = 1]
    /\ UNCHANGED alive

\* fcntl(F_DUPFD, F_DUPFD_CLOEXEC) and dup
dupfd(p, fd, min, flags) ==
    /\ p \in alive /\ IsOpen(p, fd)
    /\ install(p, min, desc[p][fd], flags)
    /\ ref' = [ref EXCEPT ![desc[p][fd]] = @ + 1]
    /\ UNCHANGED alive

\* fcntl(F_SETFD)
set_flags(p, fd, flags) ==
    /\ p \in alive /\ IsOpen(p, fd)
    /\ cloexec' = [cloexec EXCEPT ![p] = IF flags THEN @ \cup {fd} ELSE @ \ {fd}]
    /\ UNCHANGED <<alive, size, desc, first_free, ref>>
-----------------------------------------------------------------------------
\* References that process p holds to d through the descriptors S.
Held(p, S, d) == Cardinality({fd \in S : desc[p][fd] = d})

\* Mutant: the hint is left alone.
close_all_no_hint(p, S) ==
    /\ desc' = [desc EXCEPT ![p] = [fd \in Fds |-> IF fd \in S THEN Free ELSE @[fd]]]
    /\ cloexec' = [cloexec EXCEPT ![p] = @ \ S]
    /\ UNCHANGED first_free
    /\ ref' = [d \in Descriptions |-> ref[d] - Held(p, S, d)]

\* FileDescriptor::close for the open descriptors S of p.
close_all(p, S) ==
    /\ desc' = [desc EXCEPT ![p] = [fd \in Fds |-> IF fd \in S THEN Free ELSE @[fd]]]
    /\ cloexec' = [cloexec EXCEPT ![p] = @ \ S]
    /\ first_free' = [first_free EXCEPT ![p] =
                        CHOOSE m \in S \cup {@} : \A g \in S \cup {@} : m <= g]
    /\ ref' = [d \in Descriptions |-> ref[d] - Held(p, S, d)]

close(p, fd) ==
    /\ p \in alive /\ IsOpen(p, fd)
    /\ close_all(p, {fd})
    /\ UNCHANGED <<alive, size>>

\* The open descriptors from first to last.
OpenIn(p, first, last) ==
    {fd \in Fds : first <= fd /\ fd <= last /\ fd < size[p] /\ IsOpen(p, fd)}

close_range(p, first, last) ==
    /\ p \in alive /\ first <= last
    /\ close_all(p, OpenIn(p, first, last))
    /\ UNCHANGED <<alive, size>>

\* close_range(CLOSE_RANGE_CLOEXEC)
close_range_cloexec(p, first, last) ==
    /\ p \in alive /\ first <= last
    /\ cloexec' = [cloexec EXCEPT ![p] = @ \cup OpenIn(p, first, last)]
    /\ UNCHANGED <<alive, size, desc, first_free, ref>>

\* Mutant: the description that newfd had keeps its reference.
dup3_leak(p, oldfd, newfd, flags) ==
    /\ p \in alive /\ IsOpen(p, oldfd) /\ oldfd # newfd
    /\ size' = [size EXCEPT ![p] = IF newfd >= @ THEN newfd + 1 ELSE @]
    /\ first_free' = first_free
    /\ desc' = [desc EXCEPT ![p] = [@ EXCEPT ![newfd] = desc[p][oldfd]]]
    /\ cloexec' = [cloexec EXCEPT ![p] = IF flags THEN @ \cup {newfd} ELSE @ \ {newfd}]
    /\ ref' = [ref EXCEPT ![desc[p][oldfd]] = @ + 1]
    /\ UNCHANGED alive

\* dup3_impl: the close of newfd lowers first_free_fdnum although newfd is
\* filled again.
dup3(p, oldfd, newfd, flags) ==
    LET old == desc[p][oldfd]
        closed == IsOpen(p, newfd)
    IN  /\ p \in alive /\ IsOpen(p, oldfd) /\ oldfd # newfd
        /\ size' = [size EXCEPT ![p] = IF newfd >= @ THEN newfd + 1 ELSE @]
        /\ first_free' = [first_free EXCEPT ![p] = IF closed /\ newfd < @ THEN newfd ELSE @]
        /\ desc' = [desc EXCEPT ![p] = [@ EXCEPT ![newfd] = old]]
        /\ cloexec' = [cloexec EXCEPT ![p] = IF flags THEN @ \cup {newfd} ELSE @ \ {newfd}]
        /\ ref' = [d \in Descriptions |->
                     ref[d] + (IF d = old THEN 1 ELSE 0)
                            - (IF d = desc[p][newfd] THEN 1 ELSE 0)]
        /\ UNCHANGED alive
-----------------------------------------------------------------------------

\* clone_impl for a new process
fork(p, child) ==
    /\ p \in alive /\ child \notin alive
    /\ alive' = alive \cup {child}
    /\ size' = [size EXCEPT ![child] = size[p]]
    /\ desc' = [desc EXCEPT ![child] = desc[p]]
    /\ cloexec' = [cloexec EXCEPT ![child] = cloexec[p]]
    /\ first_free' = [first_free EXCEPT ![child] = first_free[p]]
    /\ ref' = [d \in Descriptions |-> ref[d] + Held(p, Fds, d)]

\* user_exec: the descriptors with FD_CLOEXEC are closed.
execve(p) ==
    /\ p \in alive
    /\ close_all(p, cloexec[p])
    /\ UNCHANGED <<alive, size>>

\* Process::zombify; the next process with this name starts from fork.
zombify(p) ==
    /\ p \in alive \ {Init_process}
    /\ alive' = alive \ {p}
    /\ close_all(p, OpenIn(p, 0, MaxFds - 1))
    /\ UNCHANGED size

Next ==
    \E p \in Procs :
        \/ \E d \in Descriptions, flags \in BOOLEAN : openat(p, d, flags)
        \/ \E fd \in Fds, min \in 0 .. MaxFds, flags \in BOOLEAN : dupfd(p, fd, min, flags)
        \/ \E fd \in Fds, flags \in BOOLEAN : set_flags(p, fd, flags)
        \/ \E fd \in Fds : close(p, fd)
        \/ \E first, last \in Fds : close_range(p, first, last)
        \/ \E first, last \in Fds : close_range_cloexec(p, first, last)
        \/ \E old, new \in Fds, flags \in BOOLEAN : dup3(p, old, new, flags)
        \/ \E child \in Procs : fork(p, child)
        \/ execve(p)
        \/ zombify(p)

Spec == Init /\ [][Next]_vars
-----------------------------------------------------------------------------
TypeOK ==
    /\ alive \subseteq Procs
    /\ size \in [Procs -> 0 .. MaxFds]
    /\ desc \in [Procs -> [Fds -> Descriptions \cup {Free}]]
    /\ cloexec \in [Procs -> SUBSET Fds]
    /\ first_free \in [Procs -> 0 .. MaxFds]
    /\ ref \in [Descriptions -> Nat]

\* first_free_fdnum is a sound hint: no empty descriptor is below it, whatever
\* opens, dups, closes, forks and execs came before, and flags and
\* descriptions lie inside the table.
HintSound ==
    \A p \in Procs :
        /\ first_free[p] <= size[p]
        /\ \A fd \in Fds : p \in alive /\ fd < first_free[p] => IsOpen(p, fd)
        /\ \A fd \in Fds : fd >= size[p] => ~IsOpen(p, fd)
        /\ \A fd \in cloexec[p] : IsOpen(p, fd)

\* HintSound with the types its proof needs.
FdInv ==
    /\ alive \subseteq Procs
    /\ size \in [Procs -> 0 .. MaxFds]
    /\ desc \in [Procs -> [Fds -> Descriptions \cup {Free}]]
    /\ cloexec \in [Procs -> SUBSET Fds]
    /\ first_free \in [Procs -> 0 .. MaxFds]
    /\ HintSound

\* A call that opens a file gets the lowest number that is not in use, which
\* shells rely on when they close and reopen standard descriptors.
LowestFree ==
    [][\A p \in Procs, fd \in Fds :
          /\ desc'[p][fd] # desc[p][fd]
          /\ \E d \in Descriptions, flags \in BOOLEAN : openat(p, d, flags)
          => \A g \in Fds : g < fd => IsOpen(p, g)]_vars

\* A description lives exactly as long as some descriptor of some process
\* refers to it: it is neither closed under a descriptor nor leaked.
References ==
    \A d \in Descriptions :
        ref[d] = Cardinality({h \in Procs \X Fds : desc[h[1]][h[2]] = d})
=============================================================================
