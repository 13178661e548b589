---------------------------- MODULE ProcessProofs ---------------------------
(***************************************************************************)
(* Processes and the calls that sleep: the process tree, the signal        *)
(* handlers of a thread, ids, eventfd, signalfd, poll and epoll, and local *)
(* sockets, for any number of processes, waiters, groups, signals, frames, *)
(* threads, files and sockets.                                             *)
(***************************************************************************)
EXTENDS Process, Signal, Cred, Poll, LocalSocket, ListLemmas, FiniteSetTheorems

Codes == {"none", "exited", "killed", "stopped", "continued"}
Records ==
    [life : {"unborn", "alive", "zombie", "reaped"}, parent : ProcPids \cup {0}, code : Codes,
     group : Nat, execed : BOOLEAN, adopted : BOOLEAN, stopped : BOOLEAN,
     ended : {"no", "exit", "exit_group", "signal"}, image : Nat, anon : Nat, brk : Nat,
     execs : Nat]
WaiterStates ==
    [asleep : BOOLEAN, woken : BOOLEAN, targets : SUBSET (ProcPids \ {Init_}),
     options : SUBSET {"exited", "stopped", "continued"}]

ProcType ==
    /\ proc \in [ProcPids -> Records]
    /\ proc_groups \in Seq([session : Nat, leader : ProcPids])
    /\ proc_leaders \in Seq(Nat)
    /\ proc_waiter \in [ProcPids -> [Waiters -> WaiterStates]]

\* Init lives and is its own parent; a process that was born has a parent, one that
\* was not has no code.
ProcLives ==
    /\ proc[Init_].life = "alive" /\ proc[Init_].parent = Init_
    /\ \A p \in ProcPids : IF proc[p].life = "unborn" THEN proc[p].code = "none"
                           ELSE proc[p].parent \in ProcPids

\* Groups have sessions and leaders that were born, sessions their first group, and
\* a process that was born is in a group.
GroupsLinked ==
    /\ \A g \in 1 .. Len(proc_groups) :
          /\ proc_groups[g].session \in 1 .. Len(proc_leaders)
          /\ proc[proc_groups[g].leader].life # "unborn"
    /\ \A s \in 1 .. Len(proc_leaders) :
          /\ proc_leaders[s] \in 1 .. Len(proc_groups)
          /\ proc_groups[proc_leaders[s]].session = s
    /\ \A p \in ProcPids : proc[p].life # "unborn" => proc[p].group \in 1 .. Len(proc_groups)

\* ProcImages for init too, whose children inherit what it has.
AllImages == \A p \in ProcPids : Exists(p) => proc[p].anon = proc[p].image

\* The inductive invariant of ProcReaped and ProcKept.
ProcessInv ==
    /\ ProcType /\ ProcLives /\ ProcTree /\ ProcWaitersWoken /\ ProcCodes
    /\ GroupsLinked /\ ProcSessions /\ AllImages

LEMMA PidFacts == Init_ \in ProcPids /\ 0 \notin ProcPids /\ ProcPids \subseteq Nat
BY ProcessAssumption DEF Init_, ProcPids

LEMMA ProcessStarts == ProcessInit => ProcessInv
<1> SUFFICES ASSUME ProcessInit PROVE ProcessInv
  OBVIOUS
<1> USE PidFacts
<1>1. /\ NoProcess \in Records
      /\ [NoProcess EXCEPT !.life = "alive", !.parent = Init_, !.group = 1] \in Records
  BY DEF NoProcess, Records, Codes
<1>2. ProcType
  <2>1. proc \in [ProcPids -> Records]
    BY <1>1 DEF ProcessInit
  <2>2. NotWaiting \in WaiterStates
    BY DEF NotWaiting, WaiterStates
  <2>3. proc_waiter \in [ProcPids -> [Waiters -> WaiterStates]]
    BY <2>2 DEF ProcessInit
  <2>4. proc_groups \in Seq([session : Nat, leader : ProcPids]) /\ proc_leaders \in Seq(Nat)
    BY DEF ProcessInit
  <2> QED BY <2>1, <2>3, <2>4 DEF ProcType
<1>3. /\ proc[Init_].life = "alive" /\ proc[Init_].parent = Init_ /\ proc[Init_].group = 1
      /\ proc[Init_].anon = proc[Init_].image
      /\ \A p \in ProcPids \ {Init_} : proc[p].life = "unborn" /\ proc[p].code = "none"
  BY DEF ProcessInit, NoProcess
<1>4. ProcLives /\ ProcTree /\ ProcCodes /\ AllImages
  <2>1. ProcLives
    BY <1>3 DEF ProcLives
  <2>2. ProcTree
    BY <1>3 DEF ProcTree, Exists
  <2>3. ProcCodes /\ AllImages
    BY <1>3 DEF ProcCodes, AllImages, Exists
  <2> QED BY <2>1, <2>2, <2>3
<1>5. ProcWaitersWoken
  BY DEF ProcWaitersWoken, ProcessInit, NotWaiting
<1>6. /\ Len(proc_groups) = 1 /\ proc_groups[1] = [session |-> 1, leader |-> Init_]
      /\ Len(proc_leaders) = 1 /\ proc_leaders[1] = 1
  BY DEF ProcessInit
<1>7. GroupsLinked
  <2>1. \A i \in 1 .. 1 : i = 1
    OBVIOUS
  <2> QED BY <1>3, <1>6, <2>1 DEF GroupsLinked
<1>8. ProcSessions
  <2>1. DOMAIN proc_leaders = 1 .. 1 /\ \A i \in 1 .. 1 : i = 1
    BY DEF ProcessInit
  <2> QED BY <1>3, <1>6, <2>1 DEF ProcSessions
<1> QED BY <1>2, <1>4, <1>5, <1>7, <1>8 DEF ProcessInv
-----------------------------------------------------------------------------
LEMMA GroupFields ==
    ASSUME ProcType
    PROVE  \A g \in 1 .. Len(proc_groups) :
              proc_groups[g].leader \in ProcPids /\ proc_groups[g].session \in Nat
<1> DEFINE R == [session : Nat, leader : ProcPids]
<1>1. \A g \in 1 .. Len(proc_groups) : proc_groups[g] \in R
  <2>1. proc_groups \in Seq(R)
    BY DEF ProcType
  <2> HIDE DEF R
  <2> QED BY <2>1
<1> QED BY <1>1

\* What a step that leaves groups and sessions alone has to keep for them.
LEMMA GroupsKept ==
    ASSUME ProcType, GroupsLinked, ProcSessions, UNCHANGED <<proc_groups, proc_leaders>>,
           \A q \in ProcPids :
              /\ proc[q].life # "unborn" => proc'[q].life # "unborn"
              /\ proc'[q].life # "unborn" => proc'[q].group \in 1 .. Len(proc_groups)
              /\ proc[q].life # "unborn" =>
                    /\ proc'[q].life \in {"alive", "zombie"} =>
                          proc[q].life \in {"alive", "zombie"}
                    /\ ~proc'[q].adopted => ~proc[q].adopted /\ proc'[q].group = proc[q].group
    PROVE  GroupsLinked' /\ ProcSessions'
<1>1. \A g \in 1 .. Len(proc_groups) : proc_groups[g].leader \in ProcPids
  BY GroupFields
<1>2. GroupsLinked'
  BY <1>1 DEF GroupsLinked
<1>3. ASSUME NEW s \in DOMAIN proc_leaders
      PROVE  LET l == proc_groups[proc_leaders[s]].leader
             IN  proc'[l].life \in {"alive", "zombie"} /\ ~proc'[l].adopted => proc'[l].group = proc_leaders[s]
  <2> DEFINE l == proc_groups[proc_leaders[s]].leader
  <2>1. s \in 1 .. Len(proc_leaders)
    BY DEF ProcType
  <2>2. l \in ProcPids /\ proc[l].life # "unborn"
    BY <1>1, <2>1 DEF GroupsLinked
  <2>3. Exists(l) /\ ~proc[l].adopted => proc[l].group = proc_leaders[s]
    BY <1>3 DEF ProcSessions
  <2> HIDE DEF l
  <2>4. proc'[l].life \in {"alive", "zombie"} /\ ~proc'[l].adopted => proc'[l].group = proc_leaders[s]
    BY <2>2, <2>3 DEF Exists
  <2> QED BY <2>4 DEF l
<1>4. ProcSessions'
  BY <1>3 DEF ProcSessions, Exists
<1> QED BY <1>2, <1>4

LEMMA ForkStep ==
    ASSUME ProcessInv, NEW p \in ProcPids, NEW c \in ProcPids, proc_fork(p, c)
    PROVE  ProcessInv'
<1> USE PidFacts
<1>1. /\ Living(p) /\ proc[c].life = "unborn"
      /\ UNCHANGED <<proc_groups, proc_leaders, proc_waiter>>
      /\ proc \in [ProcPids -> Records]
  BY DEF proc_fork, ProcessInv, ProcType
<1>2. \A q \in ProcPids \ {c} : proc'[q] = proc[q]
  BY <1>1 DEF proc_fork
<1>3. /\ proc'[c].life = "alive" /\ proc'[c].parent = p /\ proc'[c].group = proc[p].group
      /\ proc'[c].image = proc[p].image /\ proc'[c].anon = proc[p].anon /\ proc'[c].code = "none"
      /\ proc' \in [ProcPids -> Records]
  <2> DEFINE g == proc[p].group
             i == proc[p].image
             a == proc[p].anon
             b == proc[p].brk
             new == [NoProcess EXCEPT !.life = "alive", !.parent = p, !.group = g,
                                      !.image = i, !.anon = a, !.brk = b]
  <2>1. g \in Nat /\ i \in Nat /\ a \in Nat /\ b \in Nat
    BY <1>1 DEF Records
  <2>2. proc' = [proc EXCEPT ![c] = new]
    BY DEF proc_fork
  <2> HIDE DEF g, i, a, b
  <2>3. /\ new.life = "alive" /\ new.parent = p /\ new.group = g /\ new.image = i /\ new.anon = a
        /\ new.code = "none"
    BY DEF NoProcess
  <2>4. new \in Records
    BY <2>1 DEF NoProcess, Records, Codes
  <2> HIDE DEF new
  <2> QED BY <1>1, <2>2, <2>3, <2>4 DEF g, i, a
<1>4. ProcType'
  BY <1>1, <1>2, <1>3 DEF ProcessInv, ProcType
<1>5. ProcLives' /\ ProcTree' /\ ProcCodes'
  <2>1. ProcLives'
    BY <1>1, <1>2, <1>3 DEF ProcessInv, ProcLives
  <2>2. ProcTree'
    <3> SUFFICES ASSUME NEW q \in ProcPids, Exists(q)'
                 PROVE  proc'[proc'[q].parent].life = "alive"
      BY DEF ProcTree
    <3>1. CASE q = c
      BY <1>1, <1>2, <1>3, <3>1 DEF Living
    <3>2. CASE q # c
      <4>1. proc'[q] = proc[q] /\ Exists(q)
        BY <1>2, <3>2 DEF Exists
      <4>2. proc[q].parent \in ProcPids /\ proc[proc[q].parent].life = "alive"
        BY <4>1 DEF ProcessInv, ProcTree, ProcLives, Exists
      <4> QED BY <1>1, <1>2, <4>1, <4>2
    <3> QED BY <3>1, <3>2
  <2>3. ProcCodes'
    BY <1>2, <1>3 DEF ProcessInv, ProcCodes
  <2> QED BY <2>1, <2>2, <2>3
<1>6. ProcWaitersWoken'
  BY <1>1, <1>2, <1>3 DEF ProcessInv, ProcWaitersWoken, ProcType, WaiterStates
<1>7. AllImages'
  BY <1>1, <1>2, <1>3 DEF ProcessInv, AllImages, Exists, Living
<1>8. GroupsLinked' /\ ProcSessions'
  <2>1. \A q \in ProcPids :
           /\ proc[q].life # "unborn" => proc'[q] = proc[q]
           /\ proc'[q].life # "unborn" => proc'[q].group \in 1 .. Len(proc_groups)
    BY <1>1, <1>2, <1>3 DEF ProcessInv, GroupsLinked, Living
  <2> QED BY <1>1, <2>1, GroupsKept DEF ProcessInv
<1> QED BY <1>4, <1>5, <1>6, <1>7, <1>8 DEF ProcessInv

\* A trigger wakes those who sleep for the event, and nothing else.
LEMMA TriggerWakes ==
    ASSUME ProcType, NEW c \in ProcPids, NEW event
    PROVE  /\ Triggered(c, event) \in [ProcPids -> [Waiters -> WaiterStates]]
           /\ \A q \in ProcPids, w \in Waiters :
                 LET old == proc_waiter[q][w]
                     new == Triggered(c, event)[q][w]
                 IN  /\ new.asleep = old.asleep /\ new.targets = old.targets
                     /\ new.options = old.options /\ (old.woken => new.woken)
                     /\ old.asleep /\ c \in old.targets /\ event \in old.options => new.woken
<1>1. \A q \in ProcPids, w \in Waiters : proc_waiter[q][w] \in WaiterStates
  BY DEF ProcType
<1>2. \A q \in ProcPids, w \in Waiters :
         Triggered(c, event)[q][w] =
            IF proc_waiter[q][w].asleep /\ c \in proc_waiter[q][w].targets
               /\ event \in proc_waiter[q][w].options
            THEN [proc_waiter[q][w] EXCEPT !.woken = TRUE] ELSE proc_waiter[q][w]
  BY DEF Triggered
<1>3. \A x \in WaiterStates : /\ [x EXCEPT !.woken = TRUE] \in WaiterStates
                         /\ [x EXCEPT !.woken = TRUE].asleep = x.asleep
                         /\ [x EXCEPT !.woken = TRUE].targets = x.targets
                         /\ [x EXCEPT !.woken = TRUE].options = x.options
                         /\ [x EXCEPT !.woken = TRUE].woken
  BY DEF WaiterStates
<1>4. Triggered(c, event) \in [ProcPids -> [Waiters -> WaiterStates]]
  <2>1. \A q \in ProcPids, w \in Waiters : Triggered(c, event)[q][w] \in WaiterStates
    BY <1>1, <1>2, <1>3
  <2> QED BY <2>1 DEF Triggered
<1>5. ASSUME NEW q \in ProcPids, NEW w \in Waiters
      PROVE  LET old == proc_waiter[q][w]
                 new == Triggered(c, event)[q][w]
             IN  /\ new.asleep = old.asleep /\ new.targets = old.targets
                 /\ new.options = old.options /\ (old.woken => new.woken)
                 /\ old.asleep /\ c \in old.targets /\ event \in old.options => new.woken
  <2> DEFINE old == proc_waiter[q][w]
             new == Triggered(c, event)[q][w]
  <2>1. old \in WaiterStates /\ new = IF old.asleep /\ c \in old.targets /\ event \in old.options
                               THEN [old EXCEPT !.woken = TRUE] ELSE old
    BY <1>1, <1>2
  <2> HIDE DEF old, new
  <2>2. /\ new.asleep = old.asleep /\ new.targets = old.targets
        /\ new.options = old.options /\ (old.woken => new.woken)
        /\ old.asleep /\ c \in old.targets /\ event \in old.options => new.woken
    BY <1>3, <2>1
  <2> QED BY <2>2 DEF old, new
<1> QED BY <1>4, <1>5

\* The new table of processes when p becomes a zombie, field by field.
LEMMA ZombifiedTable ==
    ASSUME proc \in [ProcPids -> Records], NEW p \in ProcPids \ {Init_},
           NEW code \in Codes, NEW how \in {"exit", "exit_group", "signal"}
    PROVE  LET new == zombified(p, code, how)
               kids == children_list(p)
           IN  /\ new \in [ProcPids -> Records]
               /\ \A q \in ProcPids :
                     /\ new[q].life = IF q = p THEN "zombie" ELSE proc[q].life
                     /\ new[q].code = IF q = p /\ code # "none" THEN code ELSE proc[q].code
                     /\ q = p => new[q].ended = how
                     /\ q # p => new[q].ended = proc[q].ended
                     /\ q \in kids => /\ new[q].parent = Init_ /\ new[q].adopted
                                      /\ new[q].group = proc[Init_].group
                     /\ q \notin kids => /\ new[q].parent = proc[q].parent
                                         /\ new[q].adopted = proc[q].adopted
                                         /\ new[q].group = proc[q].group
                     /\ new[q].anon = proc[q].anon /\ new[q].image = proc[q].image
<1> USE PidFacts
<1> DEFINE table == [proc EXCEPT ![p].life = "zombie", ![p].ended = how, ![p].stopped = FALSE,
                                 ![p].code = IF code = "none" THEN @ ELSE code]
           kids == children_list(p)
           new == zombified(p, code, how)
           ended(r) == [r EXCEPT !.life = "zombie", !.ended = how, !.stopped = FALSE,
                                 !.code = IF code = "none" THEN @ ELSE code]
           adopted(r, g) == [r EXCEPT !.parent = Init_, !.group = g, !.adopted = TRUE]
<1>1. ASSUME NEW r \in Records
      PROVE  /\ ended(r) \in Records /\ ended(r).life = "zombie" /\ ended(r).ended = how
             /\ ended(r).code = IF code # "none" THEN code ELSE r.code
             /\ ended(r).parent = r.parent /\ ended(r).adopted = r.adopted
             /\ ended(r).group = r.group /\ ended(r).anon = r.anon /\ ended(r).image = r.image
  BY DEF Records
<1>2. ASSUME NEW r \in Records, NEW g \in Nat
      PROVE  /\ adopted(r, g) \in Records /\ adopted(r, g).parent = Init_
             /\ adopted(r, g).group = g /\ adopted(r, g).adopted
             /\ adopted(r, g).life = r.life /\ adopted(r, g).code = r.code
             /\ adopted(r, g).ended = r.ended
             /\ adopted(r, g).anon = r.anon /\ adopted(r, g).image = r.image
  BY DEF Records
<1>3. \A q \in ProcPids : table[q] = IF q = p THEN ended(proc[p]) ELSE proc[q]
  OBVIOUS
<1>4. \A q \in ProcPids : new[q] = IF q \in kids THEN adopted(table[q], table[Init_].group)
                                   ELSE table[q]
  BY DEF zombified, set_parent
<1>5. DOMAIN new = ProcPids /\ new = [q \in ProcPids |-> new[q]]
  BY DEF zombified, set_parent
<1>6. table[Init_].group = proc[Init_].group /\ proc[Init_].group \in Nat
  BY <1>3 DEF Records
<1> HIDE DEF new, table, kids, ended, adopted
<1>7. ASSUME NEW q \in ProcPids
      PROVE  /\ new[q] \in Records
             /\ new[q].life = IF q = p THEN "zombie" ELSE proc[q].life
             /\ new[q].code = IF q = p /\ code # "none" THEN code ELSE proc[q].code
             /\ q = p => new[q].ended = how
             /\ q # p => new[q].ended = proc[q].ended
             /\ q \in kids => /\ new[q].parent = Init_ /\ new[q].adopted
                              /\ new[q].group = proc[Init_].group
             /\ q \notin kids => /\ new[q].parent = proc[q].parent
                                 /\ new[q].adopted = proc[q].adopted
                                 /\ new[q].group = proc[q].group
             /\ new[q].anon = proc[q].anon /\ new[q].image = proc[q].image
  <2> DEFINE r == table[q]
  <2>1. /\ r \in Records
        /\ r.life = IF q = p THEN "zombie" ELSE proc[q].life
        /\ r.code = IF q = p /\ code # "none" THEN code ELSE proc[q].code
        /\ q = p => r.ended = how
        /\ q # p => r.ended = proc[q].ended
        /\ r.parent = proc[q].parent /\ r.adopted = proc[q].adopted
        /\ r.group = proc[q].group
        /\ r.anon = proc[q].anon /\ r.image = proc[q].image
    BY <1>1, <1>3
  <2> HIDE DEF r
  <2>2. new[q] = IF q \in kids THEN adopted(r, proc[Init_].group) ELSE r
    BY <1>4, <1>6 DEF r
  <2>3. CASE q \in kids
    <3> DEFINE g == proc[Init_].group
    <3>1. g \in Nat
      BY <1>6
    <3> HIDE DEF g
    <3>2. /\ adopted(r, g) \in Records /\ adopted(r, g).parent = Init_
          /\ adopted(r, g).group = g /\ adopted(r, g).adopted
          /\ adopted(r, g).life = r.life /\ adopted(r, g).code = r.code
          /\ adopted(r, g).ended = r.ended
          /\ adopted(r, g).anon = r.anon /\ adopted(r, g).image = r.image
      BY <1>2, <2>1, <3>1
    <3>3. new[q] = adopted(r, g)
      BY <2>2, <2>3 DEF g
    <3> DEFINE x == adopted(r, g)
    <3> HIDE DEF x
    <3>4. new[q] = x
      BY <3>3 DEF x
    <3>5. /\ x \in Records /\ x.parent = Init_ /\ x.group = g /\ x.adopted /\ x.life = r.life
          /\ x.code = r.code /\ x.ended = r.ended /\ x.anon = r.anon /\ x.image = r.image
      BY <3>2 DEF x
    <3> QED BY <2>1, <2>3, <3>4, <3>5 DEF g
  <2>4. CASE q \notin kids
    BY <2>1, <2>2, <2>4
  <2> QED BY <2>3, <2>4
<1>8. new \in [ProcPids -> Records]
  BY <1>5, <1>7
<1> QED BY <1>7, <1>8 DEF new, kids

LEMMA ZombifyStep ==
    ASSUME ProcessInv, NEW p \in ProcPids, proc[p].life = "alive",
           NEW code, NEW how, <<code, how>> \in {<<"exited", "exit_group">>, <<"none", "exit">>,
                                                 <<"killed", "signal">>},
           proc_zombify(p, code, how)
    PROVE  ProcessInv'
<1> USE PidFacts
<1> DEFINE kids == children_list(p)
<1>1. /\ p # Init_ /\ UNCHANGED <<proc_groups, proc_leaders>>
      /\ code \in Codes /\ how \in {"exit", "exit_group", "signal"}
      /\ proc' = zombified(p, code, how) /\ proc \in [ProcPids -> Records] /\ ProcType
      /\ proc_waiter' = [Triggered(p, "exited") EXCEPT ![p] = [w \in Waiters |-> NotWaiting]]
  BY DEF proc_zombify, ProcessInv, ProcType, Codes
<1>2. proc' \in [ProcPids -> Records]
  BY <1>1, ZombifiedTable
<1>3. \A q \in ProcPids :
         /\ proc'[q].life = IF q = p THEN "zombie" ELSE proc[q].life
         /\ proc'[q].code = IF q = p /\ code # "none" THEN code ELSE proc[q].code
         /\ q = p => proc'[q].ended = how
         /\ q # p => proc'[q].ended = proc[q].ended
         /\ q \in kids => /\ proc'[q].parent = Init_ /\ proc'[q].adopted
                          /\ proc'[q].group = proc[Init_].group
         /\ q \notin kids => /\ proc'[q].parent = proc[q].parent
                             /\ proc'[q].adopted = proc[q].adopted
                             /\ proc'[q].group = proc[q].group
         /\ proc'[q].anon = proc[q].anon /\ proc'[q].image = proc[q].image
  BY <1>1, ZombifiedTable
<1>4. \A q \in ProcPids : q \in kids <=> q # Init_ /\ Exists(q) /\ proc[q].parent = p
  BY DEF children_list
<1> HIDE DEF kids
<1>5. /\ proc_waiter' \in [ProcPids -> [Waiters -> WaiterStates]]
      /\ \A q \in ProcPids, w \in Waiters :
            /\ q = p => ~proc_waiter'[q][w].asleep
            /\ q # p => proc_waiter'[q][w] = Triggered(p, "exited")[q][w]
  <2>1. NotWaiting \in WaiterStates /\ ~NotWaiting.asleep
    BY DEF NotWaiting, WaiterStates
  <2>2. Triggered(p, "exited") \in [ProcPids -> [Waiters -> WaiterStates]]
    BY <1>1, TriggerWakes
  <2> QED BY <1>1, <2>1, <2>2
<1>6. ProcType'
  BY <1>1, <1>2, <1>5 DEF ProcType
<1>7. ProcLives'
  BY <1>1, <1>3 DEF ProcessInv, ProcLives
<1>8. ProcTree'
  <2> SUFFICES ASSUME NEW q \in ProcPids, Exists(q)'
               PROVE  proc'[proc'[q].parent].life = "alive"
    BY DEF ProcTree
  <2>1. Exists(q) /\ proc[q].parent \in ProcPids /\ proc[proc[q].parent].life = "alive"
    BY <1>3 DEF ProcessInv, ProcTree, ProcLives, Exists
  <2>2. CASE q \in kids
    BY <1>1, <1>3, <2>2 DEF ProcessInv, ProcLives
  <2>3. CASE q \notin kids /\ q # Init_
    <3>1. proc[q].parent # p
      BY <1>4, <2>1, <2>3
    <3>2. proc'[q].parent = proc[q].parent
      BY <1>3, <2>3
    <3>3. proc'[proc[q].parent].life = proc[proc[q].parent].life
      BY <1>3, <2>1, <3>1
    <3> QED BY <2>1, <3>2, <3>3
  <2>4. CASE q \notin kids /\ q = Init_
    <3>1. proc[Init_].parent = Init_ /\ proc[Init_].life = "alive"
      BY DEF ProcessInv, ProcLives
    <3>2. proc'[Init_].parent = Init_ /\ proc'[Init_].life = "alive"
      BY <1>1, <1>3, <2>4, <3>1
    <3> QED BY <2>4, <3>2
  <2> QED BY <2>2, <2>3, <2>4
<1>9. ProcCodes'
  BY <1>3 DEF ProcessInv, ProcCodes
<1>10. ProcWaitersWoken'
  <2> SUFFICES ASSUME NEW q \in ProcPids, NEW w \in Waiters, proc_waiter'[q][w].asleep,
                      ~proc_waiter'[q][w].woken, "exited" \in proc_waiter'[q][w].options,
                      NEW c \in proc_waiter'[q][w].targets, proc'[c].life = "zombie"
               PROVE  proc'[c].code = "none"
    BY DEF ProcWaitersWoken
  <2> DEFINE it == proc_waiter[q][w]
  <2>1. q # p /\ proc_waiter'[q][w] = Triggered(p, "exited")[q][w]
    BY <1>5
  <2>2. /\ it.asleep /\ ~it.woken /\ "exited" \in it.options /\ c \in it.targets
        /\ ~(it.asleep /\ p \in it.targets /\ "exited" \in it.options)
    <3> DEFINE new == Triggered(p, "exited")[q][w]
    <3>1. /\ new.asleep = it.asleep /\ new.targets = it.targets /\ new.options = it.options
          /\ (it.woken => new.woken)
          /\ it.asleep /\ p \in it.targets /\ "exited" \in it.options => new.woken
      <4>1. ProcType
        BY DEF ProcessInv
      <4> QED BY <4>1, TriggerWakes
    <3>2. proc_waiter'[q][w] = new
      BY <2>1
    <3> HIDE DEF new, it
    <3> QED BY <3>1, <3>2
  <2>3. c # p
    BY <2>2
  <2>4. it \in WaiterStates
    BY <1>1 DEF ProcType
  <2>5. c \in ProcPids
    BY <2>2, <2>4 DEF WaiterStates
  <2>6. proc[c].life = "zombie" /\ proc'[c].code = proc[c].code
    BY <1>3, <2>3, <2>5
  <2> QED BY <2>2, <2>6 DEF ProcessInv, ProcWaitersWoken
<1>11. AllImages'
  BY <1>3 DEF ProcessInv, AllImages, Exists
<1>12. GroupsLinked' /\ ProcSessions'
  <2>1. \A q \in ProcPids :
           /\ proc[q].life # "unborn" => proc'[q].life # "unborn"
           /\ proc'[q].life # "unborn" => proc[q].life # "unborn"
           /\ proc'[q].life \in {"alive", "zombie"} => proc[q].life \in {"alive", "zombie"}
           /\ ~proc'[q].adopted => ~proc[q].adopted /\ proc'[q].group = proc[q].group
    BY <1>3
  <2>2. \A q \in ProcPids : proc[q].life # "unborn" => proc'[q].group \in 1 .. Len(proc_groups)
    BY <1>3 DEF ProcessInv, GroupsLinked, ProcLives
  <2> QED BY <1>1, <2>1, <2>2, GroupsKept DEF ProcessInv
<1> QED BY <1>6, <1>7, <1>8, <1>9, <1>10, <1>11, <1>12 DEF ProcessInv

\* A step that moves no process in the tree or between groups: wait codes of living
\* processes change, zombies are reaped, images are replaced.
LEMMA ReportStep ==
    ASSUME ProcessInv, ProcType', UNCHANGED <<proc_groups, proc_leaders>>,
           \A q \in ProcPids :
              /\ proc'[q].parent = proc[q].parent /\ proc'[q].group = proc[q].group
              /\ proc'[q].adopted = proc[q].adopted /\ proc'[q].ended = proc[q].ended
              /\ proc[q].anon = proc[q].image => proc'[q].anon = proc'[q].image
              /\ \/ proc'[q].life = proc[q].life
                 \/ proc[q].life = "zombie" /\ proc'[q].life = "reaped"
              /\ proc'[q].code = proc[q].code \/ proc[q].life = "alive",
           \A q \in ProcPids, w \in Waiters :
              LET old == proc_waiter[q][w]
                  new == proc_waiter'[q][w]
              IN  \/ ~new.asleep \/ new.woken
                  \/ \A c \in new.targets : proc[c].code = "none"
                  \/ new = old
                  \/ old.asleep /\ ~old.woken /\ new.targets = old.targets
                     /\ new.options = old.options
    PROVE  ProcessInv'
<1> USE PidFacts
<1>1. ProcLives'
  BY DEF ProcessInv, ProcLives
<1>2. ProcTree'
  <2> SUFFICES ASSUME NEW q \in ProcPids, Exists(q)'
               PROVE  proc'[proc'[q].parent].life = "alive"
    BY DEF ProcTree
  <2>1. Exists(q)
    BY DEF Exists
  <2>2. proc[q].parent \in ProcPids /\ proc[proc[q].parent].life = "alive"
    BY <2>1 DEF ProcessInv, ProcTree, ProcLives, Exists
  <2> QED BY <2>2
<1>3. ProcCodes'
  BY DEF ProcessInv, ProcCodes
<1>4. AllImages'
  BY DEF ProcessInv, AllImages, Exists
<1>5. ProcWaitersWoken'
  <2> SUFFICES ASSUME NEW q \in ProcPids, NEW w \in Waiters, proc_waiter'[q][w].asleep,
                      ~proc_waiter'[q][w].woken, "exited" \in proc_waiter'[q][w].options,
                      NEW c \in proc_waiter'[q][w].targets, proc'[c].life = "zombie"
               PROVE  proc'[c].code = "none"
    BY DEF ProcWaitersWoken
  <2> DEFINE old == proc_waiter[q][w]
             new == proc_waiter'[q][w]
  <2>0. new \in WaiterStates
    BY DEF ProcType
  <2>1. c \in ProcPids
    BY <2>0 DEF WaiterStates
  <2>2. proc[c].life = "zombie" /\ proc'[c].code = proc[c].code
    BY <2>1
  <2>3. \/ \A d \in new.targets : proc[d].code = "none"
        \/ /\ old.asleep /\ ~old.woken /\ new.targets = old.targets
           /\ new.options = old.options
    OBVIOUS
  <2> QED BY <2>2, <2>3 DEF ProcessInv, ProcWaitersWoken
<1>6. GroupsLinked' /\ ProcSessions'
  <2>1. \A q \in ProcPids :
           /\ proc[q].life # "unborn" => proc'[q].life # "unborn"
           /\ proc'[q].life # "unborn" => proc[q].life # "unborn"
           /\ proc'[q].life \in {"alive", "zombie"} => proc[q].life \in {"alive", "zombie"}
    OBVIOUS
  <2>2. \A q \in ProcPids : proc[q].life # "unborn" => proc[q].group \in 1 .. Len(proc_groups)
    BY DEF ProcessInv, GroupsLinked
  <2>3. ProcType /\ GroupsLinked /\ ProcSessions
    BY DEF ProcessInv
  <2> QED BY <2>1, <2>2, <2>3, GroupsKept
<1> QED BY <1>1, <1>2, <1>3, <1>4, <1>5, <1>6 DEF ProcessInv

LEMMA StopStep ==
    ASSUME ProcessInv, NEW p \in ProcPids, proc_stop(p) \/ proc_continue(p)
    PROVE  ProcessInv'
<1>1. PICK stop \in BOOLEAN, code \in {"stopped", "continued"} :
         /\ proc' = [proc EXCEPT ![p].stopped = stop, ![p].code = code]
         /\ proc_waiter' = Triggered(p, code)
  <2>1. CASE proc_stop(p)
    BY <2>1 DEF proc_stop
  <2>2. CASE proc_continue(p)
    BY <2>2 DEF proc_continue
  <2> QED BY <2>1, <2>2
<1>2. /\ proc[p].life = "alive" /\ UNCHANGED <<proc_groups, proc_leaders>>
      /\ proc \in [ProcPids -> Records] /\ ProcType
  BY DEF proc_stop, proc_continue, Living, ProcessInv, ProcType
<1> DEFINE told(r) == [r EXCEPT !.stopped = stop, !.code = code]
<1>3. ASSUME NEW r \in Records
      PROVE  /\ told(r) \in Records /\ told(r).parent = r.parent /\ told(r).group = r.group
             /\ told(r).adopted = r.adopted /\ told(r).ended = r.ended
             /\ told(r).anon = r.anon /\ told(r).image = r.image /\ told(r).life = r.life
  BY DEF Records, Codes
<1>4. proc' = [proc EXCEPT ![p] = told(proc[p])]
  BY <1>1, <1>2
<1> HIDE DEF told
<1>5. /\ proc' \in [ProcPids -> Records]
      /\ \A q \in ProcPids : IF q = p THEN proc'[q] = told(proc[q]) ELSE proc'[q] = proc[q]
  BY <1>2, <1>3, <1>4
<1>6. \A q \in ProcPids :
         /\ proc'[q].parent = proc[q].parent /\ proc'[q].group = proc[q].group
         /\ proc'[q].adopted = proc[q].adopted /\ proc'[q].ended = proc[q].ended
         /\ proc'[q].anon = proc[q].anon /\ proc'[q].image = proc[q].image
         /\ proc'[q].life = proc[q].life
         /\ proc'[q].code = proc[q].code \/ proc[q].life = "alive"
  BY <1>2, <1>3, <1>5
<1>7. ProcType'
  BY <1>1, <1>2, <1>5, TriggerWakes DEF ProcType
<1>8. ASSUME NEW q \in ProcPids, NEW w \in Waiters
      PROVE  LET old == proc_waiter[q][w]
                 new == proc_waiter'[q][w]
             IN  \/ ~new.asleep \/ new.woken
                 \/ old.asleep /\ ~old.woken /\ new.targets = old.targets
                    /\ new.options = old.options
  BY <1>1, <1>2, TriggerWakes
<1> QED BY <1>2, <1>6, <1>7, <1>8, ReportStep

LEMMA WaitStep ==
    ASSUME ProcessInv, NEW p \in ProcPids, NEW w \in Waiters,
           NEW targets \in SUBSET (ProcPids \ {Init_}),
           NEW options \in SUBSET {"exited", "stopped", "continued"}, NEW nohang \in BOOLEAN,
           waitid_loop(p, w, targets, options, nohang), UNCHANGED <<proc_groups, proc_leaders>>
    PROVE  ProcessInv'
<1> USE PidFacts
<1> DEFINE ready == {c \in targets : proc[c].code # "none"}
           sleep == [asleep |-> TRUE, woken |-> FALSE, targets |-> targets, options |-> options]
<1>1. proc \in [ProcPids -> Records] /\ ProcType /\ NotWaiting \in WaiterStates /\ ~NotWaiting.asleep
      /\ sleep \in WaiterStates
  BY DEF ProcessInv, ProcType, NotWaiting, WaiterStates
<1>2. PICK new \in WaiterStates :
         /\ proc_waiter' = [proc_waiter EXCEPT ![p][w] = new]
         /\ ~new.asleep \/ \A c \in new.targets : proc[c].code = "none"
  <2>1. CASE ready # {} \/ nohang
    <3>1. proc_waiter' = [proc_waiter EXCEPT ![p][w] = NotWaiting]
      BY <2>1 DEF waitid_loop
    <3> QED BY <1>1, <3>1
  <2>2. CASE ~(ready # {} \/ nohang)
    <3>1. proc_waiter' = [proc_waiter EXCEPT ![p][w] = sleep]
      BY <2>2 DEF waitid_loop
    <3>2. \A c \in sleep.targets : proc[c].code = "none"
      BY <2>2
    <3> QED BY <1>1, <3>1, <3>2
  <2> QED BY <2>1, <2>2
<1>3. /\ proc' \in [ProcPids -> Records]
      /\ \A q \in ProcPids :
            /\ proc'[q].parent = proc[q].parent /\ proc'[q].group = proc[q].group
            /\ proc'[q].adopted = proc[q].adopted /\ proc'[q].ended = proc[q].ended
            /\ proc'[q].anon = proc[q].anon /\ proc'[q].image = proc[q].image
            /\ \/ proc'[q].life = proc[q].life
               \/ proc[q].life = "zombie" /\ proc'[q].life = "reaped"
            /\ proc'[q].code = proc[q].code \/ proc[q].life = "alive"
  <2>1. CASE ready = {}
    <3>1. proc' = proc
      BY <2>1 DEF waitid_loop
    <3> QED BY <1>1, <3>1
  <2>2. CASE ready # {}
    <3>1. PICK c \in ready :
             proc' = IF proc[c].life = "alive" THEN [proc EXCEPT ![c].code = "none"]
                     ELSE [proc EXCEPT ![c].life = "reaped"]
      BY <2>2 DEF waitid_loop
    <3>2. c \in ProcPids /\ proc[c].life # "unborn"
      BY DEF ProcessInv, ProcLives
    <3> DEFINE r == proc[c]
               seen == [r EXCEPT !.code = "none"]
               reaped == [r EXCEPT !.life = "reaped"]
    <3>3. r \in Records
      BY <1>1, <3>2
    <3>4. proc' = [proc EXCEPT ![c] = IF r.life = "alive" THEN seen ELSE reaped]
      BY <1>1, <3>1, <3>2
    <3> HIDE DEF r
    <3>5. /\ seen \in Records /\ reaped \in Records
          /\ seen.parent = r.parent /\ seen.group = r.group /\ seen.adopted = r.adopted
          /\ seen.ended = r.ended /\ seen.anon = r.anon /\ seen.image = r.image
          /\ seen.life = r.life
          /\ reaped.parent = r.parent /\ reaped.group = r.group /\ reaped.adopted = r.adopted
          /\ reaped.ended = r.ended /\ reaped.anon = r.anon /\ reaped.image = r.image
          /\ reaped.life = "reaped" /\ reaped.code = r.code
          /\ r.life \in {"unborn", "alive", "zombie", "reaped"}
      BY <3>3 DEF Records, Codes
    <3> HIDE DEF seen, reaped
    <3>6. /\ proc' \in [ProcPids -> Records]
          /\ proc'[c] = IF r.life = "alive" THEN seen ELSE reaped
          /\ \A q \in ProcPids \ {c} : proc'[q] = proc[q]
      BY <1>1, <3>2, <3>4, <3>5
    <3>7. ASSUME NEW q \in ProcPids
          PROVE  /\ proc'[q].parent = proc[q].parent /\ proc'[q].group = proc[q].group
                 /\ proc'[q].adopted = proc[q].adopted /\ proc'[q].ended = proc[q].ended
                 /\ proc'[q].anon = proc[q].anon /\ proc'[q].image = proc[q].image
                 /\ \/ proc'[q].life = proc[q].life
                    \/ proc[q].life = "zombie" /\ proc'[q].life = "reaped"
                 /\ proc'[q].code = proc[q].code \/ proc[q].life = "alive"
      BY <3>2, <3>5, <3>6 DEF r
    <3> QED BY <3>6, <3>7
  <2> QED BY <2>1, <2>2
<1>4. /\ proc_waiter' \in [ProcPids -> [Waiters -> WaiterStates]]
      /\ \A q \in ProcPids, v \in Waiters :
            proc_waiter'[q][v] = new \/ proc_waiter'[q][v] = proc_waiter[q][v]
  BY <1>1, <1>2 DEF ProcType
<1>5. ProcType'
  BY <1>1, <1>3, <1>4 DEF ProcType
<1> QED BY <1>2, <1>3, <1>4, <1>5, ReportStep

\* A process moves to another group; what that means for groups and sessions is
\* for the caller to show.
LEMMA MoveStep ==
    ASSUME ProcessInv, NEW t \in ProcPids, NEW g \in Nat, proc' = [proc EXCEPT ![t].group = g],
           UNCHANGED proc_waiter,
           proc_groups' \in Seq([session : Nat, leader : ProcPids]), proc_leaders' \in Seq(Nat),
           GroupsLinked', ProcSessions'
    PROVE  ProcessInv'
<1> USE PidFacts
<1>1. proc \in [ProcPids -> Records] /\ ProcType
  BY DEF ProcessInv, ProcType
<1> DEFINE moved(r) == [r EXCEPT !.group = g]
<1>2. ASSUME NEW r \in Records
      PROVE  /\ moved(r) \in Records /\ moved(r).life = r.life /\ moved(r).parent = r.parent
             /\ moved(r).code = r.code /\ moved(r).ended = r.ended
             /\ moved(r).anon = r.anon /\ moved(r).image = r.image
  BY DEF Records
<1>3. proc' = [proc EXCEPT ![t] = moved(proc[t])]
  BY <1>1
<1> HIDE DEF moved
<1>4. /\ proc' \in [ProcPids -> Records]
      /\ \A q \in ProcPids : IF q = t THEN proc'[q] = moved(proc[q]) ELSE proc'[q] = proc[q]
  <2> DEFINE m == moved(proc[t])
  <2>1. m \in Records
    BY <1>1, <1>2
  <2>2. proc' = [proc EXCEPT ![t] = m]
    BY <1>3
  <2> HIDE DEF m
  <2>3. proc' \in [ProcPids -> Records]
    BY ONLY <1>1, <2>1, <2>2
  <2>4. proc'[t] = m /\ \A q \in ProcPids \ {t} : proc'[q] = proc[q]
    BY <1>1, <2>2
  <2> QED BY <2>3, <2>4 DEF m
<1>5. \A q \in ProcPids :
         /\ proc'[q].parent = proc[q].parent /\ proc'[q].life = proc[q].life
         /\ proc'[q].code = proc[q].code /\ proc'[q].ended = proc[q].ended
         /\ proc'[q].anon = proc[q].anon /\ proc'[q].image = proc[q].image
  BY <1>1, <1>2, <1>4
<1>6. ProcType'
  BY <1>1, <1>4 DEF ProcType
<1>7. ProcLives' /\ ProcCodes'
  BY <1>5 DEF ProcessInv, ProcLives, ProcCodes
<1>8. ProcTree' /\ AllImages'
  <2> SUFFICES ASSUME NEW q \in ProcPids, Exists(q)'
               PROVE  proc'[proc'[q].parent].life = "alive" /\ proc'[q].anon = proc'[q].image
    BY DEF ProcTree, AllImages
  <2>1. Exists(q)
    BY <1>5 DEF Exists
  <2>2. proc[q].parent \in ProcPids /\ proc[proc[q].parent].life = "alive"
        /\ proc[q].anon = proc[q].image
    BY <2>1 DEF ProcessInv, ProcTree, AllImages, ProcLives, Exists
  <2> QED BY <1>5, <2>2
<1>9. ProcWaitersWoken'
  <2>1. \A q \in ProcPids, w \in Waiters : proc_waiter[q][w].targets \subseteq ProcPids
    <3>1. \A q \in ProcPids, w \in Waiters : proc_waiter[q][w] \in WaiterStates
      BY <1>1 DEF ProcType
    <3> QED BY <3>1 DEF WaiterStates
  <2> QED BY <1>5, <2>1 DEF ProcessInv, ProcWaitersWoken
<1> QED BY <1>6, <1>7, <1>8, <1>9 DEF ProcessInv

\* A group or a session with its first group is added at the end.
LEMMA Appended ==
    ASSUME NEW S, NEW q \in Seq(S), NEW x \in S
    PROVE  /\ Append(q, x) \in Seq(S) /\ Len(Append(q, x)) = Len(q) + 1 /\ Len(q) \in Nat
           /\ Append(q, x)[Len(q) + 1] = x
           /\ \A i \in 1 .. Len(q) : Append(q, x)[i] = q[i]
OBVIOUS

LEMMA GroupStep ==
    ASSUME ProcessInv, NEW p \in ProcPids,
           setsid(p) \/ \E t, g \in ProcPids : setpgid(p, t, g)
    PROVE  ProcessInv'
<1> DEFINE R == [session : Nat, leader : ProcPids]
           G == proc_groups
           L == proc_leaders
<1>0. /\ proc \in [ProcPids -> Records] /\ ProcType /\ GroupsLinked /\ ProcSessions
      /\ G \in Seq(R) /\ L \in Seq(Nat)
  BY DEF ProcessInv, ProcType
<1>a. \A i \in 1 .. Len(G) : G[i].leader \in ProcPids /\ G[i].session \in Nat
  BY <1>0, GroupFields
<1>b. \A i \in 1 .. Len(G) : G[i].session \in 1 .. Len(L) /\ proc[G[i].leader].life # "unborn"
  BY <1>0 DEF GroupsLinked
<1>c. \A s \in 1 .. Len(L) : L[s] \in 1 .. Len(G) /\ G[L[s]].session = s
  BY <1>0 DEF GroupsLinked
<1>d. \A q \in ProcPids : proc[q].life # "unborn" => proc[q].group \in 1 .. Len(G)
  BY <1>0 DEF GroupsLinked
<1>e. \A s \in 1 .. Len(L) : Exists(G[L[s]].leader) /\ ~proc[G[L[s]].leader].adopted
                             => proc[G[L[s]].leader].group = L[s]
  BY <1>0 DEF ProcSessions
<1>f. ASSUME NEW t \in ProcPids, NEW g, proc' = [proc EXCEPT ![t].group = g]
      PROVE  /\ proc'[t].group = g /\ \A q \in ProcPids \ {t} : proc'[q].group = proc[q].group
             /\ \A q \in ProcPids : /\ proc'[q].life = proc[q].life
                                    /\ proc'[q].adopted = proc[q].adopted
  <2>1. proc[t] \in Records
    BY <1>0
  <2>2. /\ [proc[t] EXCEPT !.group = g].group = g
        /\ [proc[t] EXCEPT !.group = g].life = proc[t].life
        /\ [proc[t] EXCEPT !.group = g].adopted = proc[t].adopted
    BY <2>1 DEF Records
  <2>3. proc' = [proc EXCEPT ![t] = [proc[t] EXCEPT !.group = g]]
    BY <1>0, <1>f
  <2> QED BY <1>0, <2>2, <2>3
<1>1. ASSUME NEW t \in ProcPids, NEW h \in ProcPids, setpgid(p, t, h)
      PROVE  ProcessInv'
  <2>1. Exists(t) /\ session_leader(t) # t /\ UNCHANGED <<proc_leaders, proc_waiter>>
    BY <1>1 DEF setpgid, setpgid_target, Living, Exists
  <2>2. \A s \in 1 .. Len(L) : G[L[s]].leader = t => proc[t].adopted
    BY <1>c, <1>e, <2>1 DEF session_leader
  <2>3. proc[t].group \in 1 .. Len(G)
    BY <1>d, <2>1 DEF Exists
  <2>4. CASE h # t
    <3> DEFINE g == proc[h].group
    <3>1. Exists(h) /\ proc' = [proc EXCEPT ![t].group = g] /\ proc_groups' = proc_groups
      BY <1>1, <2>4 DEF setpgid
    <3>2. g \in 1 .. Len(G)
      BY <1>d, <3>1 DEF Exists
    <3> HIDE DEF g
    <3>3. g \in Nat
      BY <1>0, <3>2
    <3>4. /\ proc'[t].group = g /\ \A q \in ProcPids \ {t} : proc'[q].group = proc[q].group
          /\ \A q \in ProcPids : proc'[q].life = proc[q].life /\ proc'[q].adopted = proc[q].adopted
      BY <1>f, <3>1
    <3>5. GroupsLinked'
      BY <1>a, <1>b, <1>c, <1>d, <2>1, <3>1, <3>2, <3>4 DEF GroupsLinked
    <3>6. ProcSessions'
      <4>1. ASSUME NEW s \in 1 .. Len(L), proc'[G[L[s]].leader].life \in {"alive", "zombie"},
                   ~proc'[G[L[s]].leader].adopted
            PROVE  proc'[G[L[s]].leader].group = L[s]
        <5>1. G[L[s]].leader \in ProcPids
          BY <1>a, <1>c
        <5>2. G[L[s]].leader # t
          BY <2>2, <3>4, <4>1
        <5> QED BY <1>e, <3>4, <4>1, <5>1, <5>2 DEF Exists
      <4>2. DOMAIN proc_leaders' = 1 .. Len(L)
        BY <1>0, <2>1
      <4> QED BY <2>1, <3>1, <4>1, <4>2 DEF ProcSessions, Exists
    <3>7. proc_groups' \in Seq(R) /\ proc_leaders' \in Seq(Nat)
      BY <1>0, <2>1, <3>1
    <3> QED BY <2>1, <3>1, <3>3, <3>5, <3>6, <3>7, MoveStep
  <2>5. CASE h = t
    <3> DEFINE x == [session |-> G[proc[t].group].session, leader |-> t]
               H == Append(G, x)
               g == Len(G) + 1
    <3>1. proc_groups' = H /\ proc' = [proc EXCEPT ![t].group = g]
      BY <1>1, <2>5 DEF setpgid
    <3>2. x \in R /\ x.leader = t /\ x.session \in 1 .. Len(L)
      BY <1>a, <1>b, <2>3
    <3> HIDE DEF x
    <3>3. /\ H \in Seq(R) /\ Len(H) = g /\ H[g] = x /\ Len(G) \in Nat
          /\ \A i \in 1 .. Len(G) : H[i] = G[i]
      <4> HIDE DEF R, G
      <4> QED BY <1>0, <3>2, Appended
    <3> HIDE DEF H
    <3>4. /\ proc'[t].group = g /\ \A q \in ProcPids \ {t} : proc'[q].group = proc[q].group
          /\ \A q \in ProcPids : proc'[q].life = proc[q].life /\ proc'[q].adopted = proc[q].adopted
      BY <1>f, <3>1
    <3>5. \A i \in 1 .. Len(H) : i \in 1 .. Len(G) \/ i = g
      BY <3>3
    <3>6. GroupsLinked'
      <4>1. \A i \in 1 .. Len(H) :
               H[i].session \in 1 .. Len(L) /\ proc'[H[i].leader].life # "unborn"
        <5>1. ASSUME NEW i \in 1 .. Len(G)
              PROVE  H[i].session \in 1 .. Len(L) /\ proc'[H[i].leader].life # "unborn"
          <6>1. H[i] = G[i] /\ G[i].leader \in ProcPids
            BY <1>a, <3>3
          <6> QED BY <1>a, <1>b, <3>4, <6>1
        <5>2. H[g].session \in 1 .. Len(L) /\ proc'[H[g].leader].life # "unborn"
          BY <2>1, <3>2, <3>3, <3>4 DEF Exists
        <5> QED BY <3>5, <5>1, <5>2
      <4>2. ASSUME NEW s \in 1 .. Len(L)
            PROVE  L[s] \in 1 .. Len(H) /\ H[L[s]].session = s
        <5>1. L[s] \in 1 .. Len(G) /\ G[L[s]].session = s
          BY <1>c
        <5> QED BY <3>3, <5>1
      <4>3. \A q \in ProcPids : proc'[q].life # "unborn" => proc'[q].group \in 1 .. Len(H)
        BY <1>d, <3>3, <3>4
      <4> QED BY <2>1, <3>1, <4>1, <4>2, <4>3 DEF GroupsLinked
    <3>7. ProcSessions'
      <4>1. ASSUME NEW s \in 1 .. Len(L), proc'[H[L[s]].leader].life \in {"alive", "zombie"},
                   ~proc'[H[L[s]].leader].adopted
            PROVE  proc'[H[L[s]].leader].group = L[s]
        <5>1. H[L[s]] = G[L[s]] /\ G[L[s]].leader \in ProcPids
          BY <1>a, <1>c, <3>3
        <5>2. G[L[s]].leader # t
          BY <2>2, <3>4, <4>1, <5>1
        <5> QED BY <1>e, <3>4, <4>1, <5>1, <5>2 DEF Exists
      <4>2. DOMAIN proc_leaders' = 1 .. Len(L)
        BY <1>0, <2>1
      <4> QED BY <2>1, <3>1, <4>1, <4>2 DEF ProcSessions, Exists
    <3>8. g \in Nat /\ proc_groups' \in Seq(R) /\ proc_leaders' \in Seq(Nat)
      BY <1>0, <2>1, <3>1, <3>3
    <3> HIDE DEF g
    <3> QED BY <2>1, <3>1, <3>6, <3>7, <3>8, MoveStep
  <2> QED BY <2>4, <2>5
<1>2. CASE setsid(p)
  <2> DEFINE g == Len(G) + 1
             n == Len(L) + 1
             x == [session |-> n, leader |-> p]
             H == Append(G, x)
             M == Append(L, g)
  <2>1. /\ Living(p) /\ G[proc[p].group].leader # p /\ proc_groups' = H /\ proc_leaders' = M
        /\ proc' = [proc EXCEPT ![p].group = g] /\ UNCHANGED proc_waiter
    BY <1>2 DEF setsid
  <2>2. g \in Nat /\ n \in Nat /\ Len(G) \in Nat /\ Len(L) \in Nat
    BY <1>0
  <2>3. x \in R /\ x.leader = p /\ x.session = n
    BY <2>2
  <2> HIDE DEF x
  <2>4. /\ H \in Seq(R) /\ Len(H) = g /\ H[g] = x
        /\ \A i \in 1 .. Len(G) : H[i] = G[i]
    <3> HIDE DEF R, G
    <3> QED BY <1>0, <2>3, Appended
  <2>5. /\ M \in Seq(Nat) /\ Len(M) = n /\ M[n] = g
        /\ \A i \in 1 .. Len(L) : M[i] = L[i]
    <3> HIDE DEF L, g
    <3> QED BY <1>0, <2>2, Appended
  <2> HIDE DEF H, M
  <2>6. /\ proc'[p].group = g /\ \A q \in ProcPids \ {p} : proc'[q].group = proc[q].group
        /\ \A q \in ProcPids : proc'[q].life = proc[q].life /\ proc'[q].adopted = proc[q].adopted
    BY <1>f, <2>1
  <2>7. /\ \A i \in 1 .. Len(H) : i \in 1 .. Len(G) \/ i = g
        /\ \A s \in 1 .. Len(M) : s \in 1 .. Len(L) \/ s = n
    <3>1. \A i \in 1 .. g : i \in 1 .. Len(G) \/ i = g
      BY <2>2
    <3>2. \A s \in 1 .. n : s \in 1 .. Len(L) \/ s = n
      BY <2>2
    <3> HIDE DEF g, n
    <3> QED BY <2>4, <2>5, <3>1, <3>2
  <2>8. /\ \A i \in 1 .. Len(G) : i \in 1 .. g /\ i # g
        /\ \A i \in 1 .. Len(L) : i \in 1 .. n
        /\ g \in 1 .. g /\ n \in 1 .. n
    BY <2>2
  <2> HIDE DEF g, n
  <2>9. GroupsLinked'
    <3>1. \A i \in 1 .. Len(H) : H[i].session \in 1 .. Len(M) /\ proc'[H[i].leader].life # "unborn"
      <4>1. ASSUME NEW i \in 1 .. Len(G)
            PROVE  H[i].session \in 1 .. Len(M) /\ proc'[H[i].leader].life # "unborn"
        <5>1. H[i] = G[i] /\ G[i].leader \in ProcPids /\ G[i].session \in 1 .. Len(M)
          BY <1>a, <1>b, <2>4, <2>5, <2>8
        <5> QED BY <1>a, <1>b, <2>6, <5>1
      <4>2. H[g].session \in 1 .. Len(M) /\ proc'[H[g].leader].life # "unborn"
        BY <2>1, <2>3, <2>4, <2>5, <2>6, <2>8 DEF Living
      <4> QED BY <2>7, <4>1, <4>2
    <3>2. \A s \in 1 .. Len(M) : M[s] \in 1 .. Len(H) /\ H[M[s]].session = s
      <4>1. ASSUME NEW s \in 1 .. Len(L)
            PROVE  M[s] \in 1 .. Len(H) /\ H[M[s]].session = s
        <5>1. M[s] = L[s] /\ L[s] \in 1 .. Len(G) /\ G[L[s]].session = s
          BY <1>c, <2>5
        <5> QED BY <2>4, <2>8, <5>1
      <4>2. M[n] \in 1 .. Len(H) /\ H[M[n]].session = n
        BY <2>3, <2>4, <2>5, <2>8
      <4> QED BY <2>7, <4>1, <4>2
    <3>3. \A q \in ProcPids : proc'[q].life # "unborn" => proc'[q].group \in 1 .. Len(H)
      BY <1>d, <2>4, <2>6, <2>8
    <3> QED BY <2>1, <3>1, <3>2, <3>3 DEF GroupsLinked
  <2>10. ProcSessions'
    <3>1. ASSUME NEW s \in 1 .. Len(M), proc'[H[M[s]].leader].life \in {"alive", "zombie"},
                 ~proc'[H[M[s]].leader].adopted
          PROVE  proc'[H[M[s]].leader].group = M[s]
      <4>1. CASE s = n
        BY <2>3, <2>4, <2>5, <2>6, <4>1
      <4>2. CASE s \in 1 .. Len(L)
        <5>1. M[s] = L[s] /\ H[L[s]] = G[L[s]] /\ G[L[s]].leader \in ProcPids
          BY <1>a, <1>c, <2>4, <2>5, <4>2
        <5>2. proc[G[L[s]].leader].group = L[s]
          BY <1>e, <2>6, <3>1, <4>2, <5>1 DEF Exists
        <5>3. G[L[s]].leader # p
          BY <2>1, <5>2
        <5> QED BY <2>6, <5>1, <5>2, <5>3
      <4> QED BY <2>7, <4>1, <4>2
    <3>2. DOMAIN proc_leaders' = 1 .. Len(M)
      BY <2>1, <2>5
    <3> QED BY <2>1, <3>1, <3>2 DEF ProcSessions, Exists
  <2>11. proc_groups' \in Seq(R) /\ proc_leaders' \in Seq(Nat)
    BY <2>1, <2>4, <2>5
  <2> QED BY <2>1, <2>2, <2>9, <2>10, <2>11, MoveStep
<1> QED BY <1>1, <1>2

LEMMA ExecStep ==
    ASSUME ProcessInv, NEW p \in ProcPids, NEW outcome \in ExecOutcomes, user_exec(p, outcome)
    PROVE  ProcessInv'
<1> USE PidFacts
<1> DEFINE S == {i \in ProcPids \X (1 .. MaxExecs) : i[2] <= proc[i[1]].execs}
           new == 1 + Cardinality(S)
           loaded(r) == [r EXCEPT !.image = new, !.anon = new, !.brk = new, !.execed = TRUE]
           failed(r) == [r EXCEPT !.brk = IF outcome = "linker" THEN new ELSE @]
           undone(r) == IF p = Init_ THEN [failed(r) EXCEPT !.image = new, !.anon = new]
                        ELSE failed(r)
           done(r) == [(IF outcome = "ok" THEN loaded(r) ELSE undone(r)) EXCEPT !.execs = @ + 1]
<1>1. /\ proc \in [ProcPids -> Records] /\ ProcType
      /\ UNCHANGED <<proc_groups, proc_leaders, proc_waiter>>
  BY DEF ProcessInv, ProcType, user_exec
<1>2. new \in Nat
  <2>1. IsFiniteSet(ProcPids) /\ IsFiniteSet(1 .. MaxExecs)
    <3>1. MaxPid \in Int /\ MaxExecs \in Int /\ 1 \in Int
      BY ProcessAssumption
    <3> QED BY <3>1, FS_Interval DEF ProcPids
  <2>2. IsFiniteSet(ProcPids \X (1 .. MaxExecs))
    BY <2>1, FS_Product
  <2>3. IsFiniteSet(S)
    <3>1. S \in SUBSET (ProcPids \X (1 .. MaxExecs))
      OBVIOUS
    <3> HIDE DEF S
    <3> QED BY <2>2, <3>1, FS_Subset
  <2> HIDE DEF S
  <2> QED BY <2>3, FS_CardinalityType
<1>3. proc' = [proc EXCEPT ![p] = done(proc[p])]
  BY DEF user_exec, user_exec_undone
<1> HIDE DEF new
<1>4. ASSUME NEW r \in Records
      PROVE  /\ done(r) \in Records
             /\ done(r).parent = r.parent /\ done(r).group = r.group
             /\ done(r).adopted = r.adopted /\ done(r).ended = r.ended
             /\ done(r).life = r.life /\ done(r).code = r.code
             /\ r.anon = r.image => done(r).anon = done(r).image
  <2>1. /\ loaded(r) \in Records
        /\ loaded(r).parent = r.parent /\ loaded(r).group = r.group
        /\ loaded(r).adopted = r.adopted /\ loaded(r).ended = r.ended
        /\ loaded(r).life = r.life /\ loaded(r).code = r.code
        /\ loaded(r).anon = loaded(r).image
    BY <1>2 DEF Records
  <2>2. /\ failed(r) \in Records
        /\ failed(r).parent = r.parent /\ failed(r).group = r.group
        /\ failed(r).adopted = r.adopted /\ failed(r).ended = r.ended
        /\ failed(r).life = r.life /\ failed(r).code = r.code
        /\ failed(r).anon = r.anon /\ failed(r).image = r.image
    BY <1>2 DEF Records
  <2>3. /\ undone(r) \in Records
        /\ undone(r).parent = r.parent /\ undone(r).group = r.group
        /\ undone(r).adopted = r.adopted /\ undone(r).ended = r.ended
        /\ undone(r).life = r.life /\ undone(r).code = r.code
        /\ r.anon = r.image => undone(r).anon = undone(r).image
    <3> DEFINE f == failed(r)
    <3>1. f \in Records
      BY <2>2
    <3> HIDE DEF f
    <3>2. /\ [f EXCEPT !.image = new, !.anon = new] \in Records
          /\ [f EXCEPT !.image = new, !.anon = new].parent = f.parent
          /\ [f EXCEPT !.image = new, !.anon = new].group = f.group
          /\ [f EXCEPT !.image = new, !.anon = new].adopted = f.adopted
          /\ [f EXCEPT !.image = new, !.anon = new].ended = f.ended
          /\ [f EXCEPT !.image = new, !.anon = new].life = f.life
          /\ [f EXCEPT !.image = new, !.anon = new].code = f.code
          /\ [f EXCEPT !.image = new, !.anon = new].anon = new
          /\ [f EXCEPT !.image = new, !.anon = new].image = new
      BY <1>2, <3>1 DEF Records
    <3> DEFINE u == [f EXCEPT !.image = new, !.anon = new]
    <3> HIDE DEF u, failed
    <3>3. undone(r) = IF p = Init_ THEN u ELSE f
      BY DEF u, f
    <3>4. /\ u \in Records /\ u.parent = f.parent /\ u.group = f.group /\ u.adopted = f.adopted
          /\ u.ended = f.ended /\ u.life = f.life /\ u.code = f.code /\ u.anon = u.image
      BY <3>2 DEF u
    <3>5. /\ f.parent = r.parent /\ f.group = r.group /\ f.adopted = r.adopted
          /\ f.ended = r.ended /\ f.life = r.life /\ f.code = r.code
          /\ f.anon = r.anon /\ f.image = r.image
      BY <2>2 DEF f
    <3> HIDE DEF undone
    <3> QED BY <3>1, <3>3, <3>4, <3>5
  <2> DEFINE x == IF outcome = "ok" THEN loaded(r) ELSE undone(r)
  <2> HIDE DEF loaded, undone
  <2>4. /\ x \in Records /\ x.parent = r.parent /\ x.group = r.group /\ x.adopted = r.adopted
        /\ x.ended = r.ended /\ x.life = r.life /\ x.code = r.code
        /\ r.anon = r.image => x.anon = x.image
    BY <2>1, <2>3
  <2>5. done(r) = [x EXCEPT !.execs = @ + 1]
    OBVIOUS
  <2> HIDE DEF x, done
  <2>6. /\ [x EXCEPT !.execs = @ + 1] \in Records
        /\ [x EXCEPT !.execs = @ + 1].parent = x.parent
        /\ [x EXCEPT !.execs = @ + 1].group = x.group
        /\ [x EXCEPT !.execs = @ + 1].adopted = x.adopted
        /\ [x EXCEPT !.execs = @ + 1].ended = x.ended
        /\ [x EXCEPT !.execs = @ + 1].life = x.life
        /\ [x EXCEPT !.execs = @ + 1].code = x.code
        /\ [x EXCEPT !.execs = @ + 1].anon = x.anon
        /\ [x EXCEPT !.execs = @ + 1].image = x.image
    BY <2>4 DEF Records
  <2> QED BY <2>4, <2>5, <2>6
<1> DEFINE m == done(proc[p])
<1>5. /\ m \in Records /\ m.parent = proc[p].parent /\ m.group = proc[p].group
      /\ m.adopted = proc[p].adopted /\ m.ended = proc[p].ended
      /\ m.life = proc[p].life /\ m.code = proc[p].code
      /\ proc[p].anon = proc[p].image => m.anon = m.image
  <2> HIDE DEF done
  <2> QED BY <1>1, <1>4
<1>6. proc' = [proc EXCEPT ![p] = m]
  BY <1>3
<1> HIDE DEF m
<1>7. proc' \in [ProcPids -> Records] /\ proc'[p] = m
      /\ \A q \in ProcPids \ {p} : proc'[q] = proc[q]
  BY <1>1, <1>5, <1>6
<1>8. ProcType'
  BY <1>1, <1>7 DEF ProcType
<1>9. \A q \in ProcPids :
         /\ proc'[q].parent = proc[q].parent /\ proc'[q].group = proc[q].group
         /\ proc'[q].adopted = proc[q].adopted /\ proc'[q].ended = proc[q].ended
         /\ proc[q].anon = proc[q].image => proc'[q].anon = proc'[q].image
         /\ proc'[q].life = proc[q].life /\ proc'[q].code = proc[q].code
  BY <1>5, <1>7
<1>10. \A q \in ProcPids, w \in Waiters : proc_waiter'[q][w] = proc_waiter[q][w]
  BY <1>1
<1> QED BY <1>1, <1>8, <1>9, <1>10, ReportStep

LEMMA InterruptedStep ==
    ASSUME ProcessInv, NEW p \in ProcPids, NEW w \in Waiters, waitid_interrupted(p, w)
    PROVE  ProcessInv'
<1>1. /\ proc_waiter' = [proc_waiter EXCEPT ![p][w] = NotWaiting]
      /\ UNCHANGED <<proc, proc_groups, proc_leaders>> /\ ProcType
  BY DEF waitid_interrupted, ProcessInv
<1>2. NotWaiting \in WaiterStates /\ ~NotWaiting.asleep
  BY DEF NotWaiting, WaiterStates
<1>3. /\ proc_waiter' \in [ProcPids -> [Waiters -> WaiterStates]]
      /\ \A q \in ProcPids, v \in Waiters :
            proc_waiter'[q][v] = NotWaiting \/ proc_waiter'[q][v] = proc_waiter[q][v]
  BY <1>1, <1>2 DEF ProcType
<1>4. ProcType'
  BY <1>1, <1>3 DEF ProcType
<1> QED BY <1>1, <1>2, <1>3, <1>4, ReportStep

LEMMA ProcessStep == ProcessInv /\ [ProcessNext]_process_vars => ProcessInv'
<1> SUFFICES ASSUME ProcessInv, [ProcessNext]_process_vars PROVE ProcessInv'
  OBVIOUS
<1>1. CASE ProcLife
  <2>1. PICK p \in ProcPids : \/ \E c \in ProcPids : proc_fork(p, c)
                              \/ proc_exit_group(p) \/ proc_exit(p) \/ proc_killed(p)
    BY <1>1 DEF ProcLife
  <2>2. CASE \E c \in ProcPids : proc_fork(p, c)
    BY <2>2, ForkStep
  <2>3. CASE proc_exit_group(p)
    <3>1. proc[p].life = "alive" /\ proc_zombify(p, "exited", "exit_group")
      BY <2>3 DEF proc_exit_group, Living
    <3> QED BY <3>1, ZombifyStep
  <2>4. CASE proc_exit(p)
    <3>1. proc[p].life = "alive" /\ proc_zombify(p, "none", "exit")
      BY <2>4 DEF proc_exit, Living
    <3> QED BY <3>1, ZombifyStep
  <2>5. CASE proc_killed(p)
    <3>1. proc[p].life = "alive" /\ proc_zombify(p, "killed", "signal")
      BY <2>5 DEF proc_killed
    <3> QED BY <3>1, ZombifyStep
  <2> QED BY <2>1, <2>2, <2>3, <2>4, <2>5
<1>2. CASE ProcWait
  <2>1. PICK p \in ProcPids :
           \/ proc_stop(p) \/ proc_continue(p)
           \/ \E w \in Waiters : waitid(p, w) \/ waitid_resume(p, w) \/ waitid_interrupted(p, w)
    BY <1>2 DEF ProcWait
  <2>2. CASE proc_stop(p) \/ proc_continue(p)
    BY <2>2, StopStep
  <2>3. ASSUME NEW w \in Waiters, waitid(p, w)
        PROVE  ProcessInv'
    <3>1. PICK targets \in {children_list(p)} \cup {{c} : c \in children_list(p)},
               options \in WaitOptions, nohang \in BOOLEAN :
             waitid_loop(p, w, targets, options, nohang)
      BY <2>3 DEF waitid
    <3>2. /\ targets \in SUBSET (ProcPids \ {Init_})
          /\ options \in SUBSET {"exited", "stopped", "continued"}
          /\ UNCHANGED <<proc_groups, proc_leaders>>
      BY <2>3, ProcessAssumption DEF children_list, waitid
    <3> QED BY <3>1, <3>2, WaitStep
  <2>4. ASSUME NEW w \in Waiters, waitid_resume(p, w)
        PROVE  ProcessInv'
    <3> DEFINE it == proc_waiter[p][w]
    <3>1. /\ waitid_loop(p, w, it.targets, it.options, FALSE)
          /\ UNCHANGED <<proc_groups, proc_leaders>>
      BY <2>4 DEF waitid_resume
    <3>2. it \in WaiterStates
      BY DEF ProcessInv, ProcType
    <3> HIDE DEF it
    <3>3. /\ it.targets \in SUBSET (ProcPids \ {Init_})
          /\ it.options \in SUBSET {"exited", "stopped", "continued"}
      BY <3>2 DEF WaiterStates
    <3> QED BY <3>1, <3>3, WaitStep
  <2>5. ASSUME NEW w \in Waiters, waitid_interrupted(p, w)
        PROVE  ProcessInv'
    BY <2>5, InterruptedStep
  <2> QED BY <2>1, <2>2, <2>3, <2>4, <2>5
<1>3. CASE ProcGroups
  BY <1>3, GroupStep DEF ProcGroups
<1>4. CASE ProcExec
  BY <1>4, ExecStep DEF ProcExec
<1>5. CASE UNCHANGED process_vars
  BY <1>5 DEF process_vars, ProcessInv, ProcType, ProcLives, ProcTree, ProcWaitersWoken,
              ProcCodes, GroupsLinked, ProcSessions, AllImages, Exists
<1> QED BY <1>1, <1>2, <1>3, <1>4, <1>5 DEF ProcessNext

\* Processes end in any order, with any number of waiters: each that is left has a
\* living parent, and no waiter sleeps through the end of a child it asked for.
THEOREM ProcessesReaped == ProcessSpec => []ProcReaped
<1>1. ProcessInv => ProcReaped
  BY DEF ProcessInv, ProcReaped
<1> QED BY <1>1, ProcessStarts, ProcessStep, PTL DEF ProcessSpec

\* No sequence of setpgid, setsid, fork and exec takes a session from its leader, or
\* leaves a process mapping memory above an image it does not run.
THEOREM ProcessesKept == ProcessSpec => []ProcKept
<1>1. ProcessInv => ProcKept
  BY DEF ProcessInv, ProcKept, AllImages, ProcImages
<1> QED BY <1>1, ProcessStarts, ProcessStep, PTL DEF ProcessSpec
-----------------------------------------------------------------------------
Frames ==
    [signal : SigNumbers, mask : SUBSET SigNumbers, alt : BOOLEAN,
     resume : {"user", "eintr", "again"}, deferred : BOOLEAN]

SigType ==
    /\ sig_mask \in SUBSET SigNumbers /\ sig_pending \in SUBSET SigNumbers
    /\ sig_action \in [SigNumbers -> Actions]
    /\ sig_frames \in Seq(Frames)
    /\ sig_pc \in {"user", "polling", "eintr", "again", "dead"}

\* The mask that is in force outside of polls.
OwnMask == IF sig_pc = "polling" THEN sig_poll[1] ELSE sig_mask

\* A mask is saved exactly during a poll.
PollSaved ==
    IF sig_pc = "polling"
    THEN sig_poll # <<>> /\ sig_poll[1] \in SUBSET SigNumbers
    ELSE sig_poll = <<>>

\* The outermost frame has the mask of the program.
MaskSaved ==
    IF sig_frames = <<>> THEN OwnMask = sig_user_mask ELSE sig_frames[1].mask = sig_user_mask

\* The signals deferred by a frame are masked in the frames above it and now.
DeferredMasked ==
    ~sig_opened => \A i \in 1 .. Len(sig_frames) : sig_frames[i].deferred =>
        /\ sig_frames[i].signal \in OwnMask
        /\ \A j \in i + 1 .. Len(sig_frames) :
              /\ sig_frames[i].signal \in sig_frames[j].mask
              /\ sig_frames[i].signal # sig_frames[j].signal

\* The inductive invariant of SignalSafe.
SignalInv == SigType /\ PollSaved /\ MaskSaved /\ DeferredMasked

LEMMA SignalStarts == SignalInit => SignalInv
BY DEF SignalInit, SignalInv, SigType, PollSaved, MaskSaved, DeferredMasked, OwnMask,
       DefaultAction, Actions

\* A step that pushes and pops no frame.
LEMMA FramesKept ==
    ASSUME SignalInv, sig_frames' = sig_frames, SigType', PollSaved',
           sig_frames = <<>> => OwnMask' = sig_user_mask',
           sig_frames # <<>> => /\ sig_user_mask' = sig_user_mask
                                /\ ~sig_opened' => ~sig_opened /\ OwnMask \subseteq OwnMask'
    PROVE  SignalInv'
<1>1. MaskSaved'
  BY DEF SignalInv, MaskSaved
<1>2. DeferredMasked'
  <2>1. CASE sig_frames = <<>>
    BY <2>1 DEF DeferredMasked
  <2>2. CASE sig_frames # <<>>
    BY <2>2 DEF SignalInv, DeferredMasked
  <2> QED BY <2>1, <2>2
<1> QED BY <1>1, <1>2 DEF SignalInv

\* dispatch_pending_signal takes one of the signals that are accepted.
LEMMA FirstIsAccepted ==
    ASSUME SigType, accepted_signals # {}
    PROVE  FirstAccepted \in SigNumbers /\ FirstAccepted \notin sig_mask
<1>1. accepted_signals \in SUBSET Nat
  BY SigAssumption DEF SigType, accepted_signals
<1>2. FirstAccepted \in accepted_signals
  <2> DEFINE A == accepted_signals
  <2>1. A \in SUBSET Nat /\ A # {} /\ FirstAccepted = CHOOSE x \in A : \A y \in A : x <= y
    BY <1>1 DEF FirstAccepted
  <2> HIDE DEF A
  <2>2. FirstAccepted \in A
    BY <2>1, LeastElement
  <2> QED BY <2>2 DEF A
<1> QED BY <1>2 DEF SigType, accepted_signals

\* A frame is pushed for an accepted signal.
LEMMA PushStep ==
    ASSUME SignalInv, sig_pc \in {"user", "eintr", "again"}, accepted_signals # {},
           sig_pending' \in SUBSET SigNumbers, dispatch_handler(FirstAccepted),
           UNCHANGED <<sig_poll, sig_user_mask, sig_opened>>
    PROVE  SignalInv'
<1> DEFINE s == FirstAccepted
           x == [signal |-> s, mask |-> sig_mask,
                 alt |-> "onstack" \in sig_action[s].flags /\ sig_alt # "off",
                 resume |-> ResumeAt(s), deferred |-> "nodefer" \notin sig_action[s].flags]
           F == sig_frames
           G == sig_frames'
           n == Len(F) + 1
<1>0. SigType
  BY DEF SignalInv
<1>1. s \in SigNumbers /\ s \notin sig_mask
  BY FirstIsAccepted, <1>0
<1>2. /\ G = Append(F, x) /\ sig_mask' = HandlerMask(s) /\ sig_pc' = "user"
      /\ sig_action' = IF "resethand" \in sig_action[s].flags
                       THEN [sig_action EXCEPT ![s].handler = "default"] ELSE sig_action
  BY DEF dispatch_handler
<1>3. sig_poll = <<>> /\ OwnMask = sig_mask /\ OwnMask' = sig_mask' /\ PollSaved'
  BY <1>2 DEF SignalInv, PollSaved, OwnMask
<1>4. sig_mask \subseteq sig_mask' /\ (x.deferred => s \in sig_mask')
  BY <1>2 DEF HandlerMask
<1>5. x \in Frames /\ x.signal = s /\ x.mask = sig_mask
  <2>1. ResumeAt(s) \in {"user", "eintr", "again"}
    BY DEF ResumeAt
  <2> QED BY <1>0, <1>1, <2>1 DEF Frames, SigType
<1>6. F \in Seq(Frames)
  BY <1>0 DEF SigType
<1> HIDE DEF s, x
<1>7. /\ G \in Seq(Frames) /\ Len(G) = n /\ Len(F) \in Nat /\ G[n] = x
      /\ \A i \in 1 .. Len(F) : G[i] = F[i]
  BY <1>2, <1>5, <1>6, Appended
<1>8. SigType'
  <2>1. sig_action[s] \in Actions
    BY <1>0, <1>1 DEF SigType
  <2>2. [sig_action[s] EXCEPT !.handler = "default"] \in Actions /\ sig_action[s].mask \in SUBSET SigNumbers
    BY <2>1 DEF Actions
  <2>3. sig_action' \in [SigNumbers -> Actions]
    BY <1>0, <1>1, <1>2, <2>2 DEF SigType
  <2>4. sig_mask' \in SUBSET SigNumbers
    BY <1>0, <1>1, <1>2, <2>2 DEF SigType, HandlerMask
  <2> QED BY <1>2, <1>7, <2>3, <2>4 DEF SigType
<1>9. MaskSaved'
  <2>1. CASE F = <<>>
    <3>1. sig_mask = sig_user_mask
      BY <1>3, <2>1 DEF SignalInv, MaskSaved
    <3>2. Len(F) = 0
      BY <2>1
    <3>3. G # <<>> /\ G[1] = x
      <4>1. Len(G) = 1 /\ G[n] = x /\ n = 1
        BY <1>7, <3>2
      <4>2. G # <<>>
        BY <4>1
      <4> QED BY <4>1, <4>2
    <3> QED BY <1>5, <3>1, <3>3 DEF MaskSaved
  <2>2. CASE F # <<>>
    <3>1. F[1].mask = sig_user_mask
      BY <2>2 DEF SignalInv, MaskSaved
    <3>2. G # <<>> /\ G[1] = F[1]
      BY <1>6, <1>7, <2>2
    <3> QED BY <3>1, <3>2 DEF MaskSaved
  <2> QED BY <2>1, <2>2
<1>10. DeferredMasked'
  <2> SUFFICES ASSUME ~sig_opened, NEW i \in 1 .. Len(G), G[i].deferred
               PROVE  /\ G[i].signal \in sig_mask'
                      /\ \A j \in i + 1 .. Len(G) :
                            G[i].signal \in G[j].mask /\ G[i].signal # G[j].signal
    BY <1>3 DEF DeferredMasked
  <2>1. CASE i = n
    BY <1>4, <1>5, <1>7, <2>1
  <2>2. CASE i \in 1 .. Len(F)
    <3>1. G[i] = F[i]
      BY <1>7, <2>2
    <3>2. /\ F[i].signal \in sig_mask
          /\ \A j \in i + 1 .. Len(F) : F[i].signal \in F[j].mask /\ F[i].signal # F[j].signal
      BY <1>3, <2>2, <3>1 DEF SignalInv, DeferredMasked
    <3>3. \A j \in i + 1 .. Len(G) : j = n \/ (j \in i + 1 .. Len(F) /\ j \in 1 .. Len(F))
      BY <1>7, <2>2
    <3> QED BY <1>1, <1>4, <1>5, <1>7, <3>1, <3>2, <3>3
  <2> QED BY <1>7, <2>1, <2>2
<1> QED BY <1>3, <1>8, <1>9, <1>10 DEF SignalInv

LEMMA Shortened ==
    ASSUME NEW S, NEW q \in Seq(S), q # <<>>
    PROVE  /\ Len(q) \in Nat /\ Len(q) > 0 /\ q[Len(q)] \in S
           /\ SubSeq(q, 1, Len(q) - 1) \in Seq(S) /\ Len(SubSeq(q, 1, Len(q) - 1)) = Len(q) - 1
           /\ \A i \in 1 .. Len(q) - 1 : SubSeq(q, 1, Len(q) - 1)[i] = q[i]
<1>1. Len(q) \in Nat /\ Len(q) > 0
  OBVIOUS
<1>2. /\ SubSeq(q, 1, Len(q) - 1) \in Seq(S)
      /\ SubSeq(q, 1, Len(q) - 1) = [i \in 1 .. Len(q) - 1 |-> q[i]]
  BY <1>1
<1>3. Len(SubSeq(q, 1, Len(q) - 1)) = Len(q) - 1
  <2> DEFINE t == SubSeq(q, 1, Len(q) - 1)
             m == Len(q) - 1
  <2>1. t \in Seq(S) /\ DOMAIN t = 1 .. m /\ m \in Nat
    BY <1>1, <1>2
  <2> HIDE DEF t, m
  <2>2. Len(t) \in Nat /\ DOMAIN t = 1 .. Len(t)
    BY <2>1
  <2>3. Len(t) = m
    BY <2>1, <2>2
  <2> QED BY <2>3 DEF t, m
<1>4. \A i \in 1 .. Len(q) - 1 : SubSeq(q, 1, Len(q) - 1)[i] = q[i]
  BY <1>1, <1>2
<1>5. q[Len(q)] \in S
  BY <1>1
<1> QED BY <1>1, <1>2, <1>3, <1>4, <1>5

\* sigreturn pops a frame and puts its mask back.
LEMMA PopStep ==
    ASSUME SignalInv, return_from_signal
    PROVE  SignalInv'
<1> DEFINE F == sig_frames
           G == sig_frames'
           n == Len(F)
<1>a. SigType /\ F \in Seq(Frames) /\ F # <<>>
  BY DEF SignalInv, SigType, return_from_signal
<1>0. SigType /\ F \in Seq(Frames) /\ n \in Nat /\ F # <<>> /\ n > 0
  BY <1>a, Shortened
<1>1. sig_poll = <<>> /\ sig_pc = "user"
  BY DEF SignalInv, PollSaved, return_from_signal
<1>2. /\ sig_mask' = F[n].mask /\ G = SubSeq(F, 1, n - 1) /\ sig_pc' = F[n].resume
      /\ sig_poll' = <<>> /\ sig_opened' = (sig_opened /\ n > 1)
      /\ sig_pending' = sig_pending /\ sig_action' = sig_action /\ sig_user_mask' = sig_user_mask
  BY <1>1 DEF return_from_signal
<1>3. F[n] \in Frames
  BY <1>0
<1>4. F[n].mask \in SUBSET SigNumbers /\ F[n].resume \in {"user", "eintr", "again"}
  BY <1>3 DEF Frames
<1>5. OwnMask' = F[n].mask /\ PollSaved'
  BY <1>2, <1>4 DEF OwnMask, PollSaved
<1>6. G \in Seq(Frames) /\ Len(G) = n - 1 /\ \A i \in 1 .. n - 1 : G[i] = F[i]
  BY <1>a, <1>2, Shortened
<1>7. SigType'
  BY <1>0, <1>2, <1>4, <1>6 DEF SigType
<1>8. MaskSaved'
  <2>0. F[1].mask = sig_user_mask
    BY <1>0 DEF SignalInv, MaskSaved
  <2>1. CASE n = 1
    BY <1>2, <1>5, <1>6, <2>0, <2>1 DEF MaskSaved
  <2>2. CASE n > 1
    <3>1. G # <<>> /\ G[1] = F[1]
      BY <1>0, <1>6, <2>2
    <3> QED BY <1>2, <2>0, <3>1 DEF MaskSaved
  <2>3. n = 1 \/ n > 1
    <3>1. n \in Nat /\ n > 0
      BY <1>0
    <3> HIDE DEF n
    <3> QED BY <3>1
  <2> QED BY <2>1, <2>2, <2>3
<1>9. DeferredMasked'
  <2> SUFFICES ASSUME ~sig_opened', NEW i \in 1 .. Len(G), G[i].deferred
               PROVE  /\ G[i].signal \in F[n].mask
                      /\ \A j \in i + 1 .. Len(G) :
                            G[i].signal \in G[j].mask /\ G[i].signal # G[j].signal
    BY <1>5 DEF DeferredMasked
  <2>1. i \in 1 .. n /\ n \in i + 1 .. n /\ G[i] = F[i] /\ ~sig_opened
    <3>1. i \in 1 .. n - 1 /\ n > 1
      BY <1>0, <1>6
    <3>2. ~sig_opened
      BY <1>2, <3>1
    <3> QED BY <1>0, <1>6, <3>1, <3>2
  <2>2. \A j \in i + 1 .. n : F[i].signal \in F[j].mask /\ F[i].signal # F[j].signal
    BY <2>1 DEF SignalInv, DeferredMasked
  <2> QED BY <1>0, <1>6, <2>1, <2>2
<1> QED BY <1>5, <1>7, <1>8, <1>9 DEF SignalInv

LEMMA SignalStep == SignalInv /\ [SignalNext]_signal_vars => SignalInv'
<1> SUFFICES ASSUME SignalInv, [SignalNext]_signal_vars
             PROVE  SignalInv'
  OBVIOUS
<1>0. SigType /\ PollSaved /\ (sig_frames = <<>> => OwnMask = sig_user_mask)
  BY DEF SignalInv, MaskSaved
<1>1. CASE UNCHANGED signal_vars
  BY <1>1 DEF signal_vars, SignalInv, SigType, PollSaved, MaskSaved, DeferredMasked, OwnMask
<1>2. ASSUME NEW s \in SigNumbers, sig_send(s)
      PROVE  SignalInv'
  <2>1. SigType' /\ PollSaved' /\ OwnMask' = OwnMask
    BY <1>0, <1>2 DEF sig_send, SigType, PollSaved, OwnMask
  <2> QED BY <1>0, <1>2, <2>1, FramesKept DEF sig_send
<1>3. ASSUME NEW s \in SigNumbers, NEW action \in SigActions, rt_sigaction(s, action)
      PROVE  SignalInv'
  <2>1. SigType' /\ PollSaved' /\ OwnMask' = OwnMask
    BY <1>0, <1>3, SigAssumption DEF rt_sigaction, SigType, PollSaved, OwnMask
  <2> QED BY <1>0, <1>3, <2>1, FramesKept DEF rt_sigaction
<1>4. ASSUME NEW mask \in SigMasks, rt_sigprocmask(mask)
      PROVE  SignalInv'
  <2>1. SigType' /\ PollSaved' /\ OwnMask = sig_mask /\ OwnMask' = mask
    BY <1>0, <1>4, SigAssumption DEF rt_sigprocmask, SigType, PollSaved, OwnMask
  <2>2. /\ sig_frames = <<>> => sig_user_mask' = mask
        /\ sig_frames # <<>> => sig_user_mask' = sig_user_mask
        /\ sig_opened' = (sig_opened \/ (sig_frames # <<>> /\ ~(sig_mask \subseteq mask)))
    BY <1>4 DEF rt_sigprocmask
  <2> QED BY <1>0, <1>4, <2>1, <2>2, FramesKept DEF rt_sigprocmask
<1>5. ASSUME NEW mask \in SigMasks, sig_ppoll(mask)
      PROVE  SignalInv'
  <2>1. SigType' /\ PollSaved' /\ OwnMask' = OwnMask
    BY <1>0, <1>5, SigAssumption DEF sig_ppoll, SigType, PollSaved, OwnMask
  <2> QED BY <1>0, <1>5, <2>1, FramesKept DEF sig_ppoll
<1>6. ASSUME NEW alt \in {"off", "on"}, sigaltstack(alt)
      PROVE  SignalInv'
  <2>1. SigType' /\ PollSaved' /\ OwnMask' = OwnMask
    BY <1>0, <1>6 DEF sigaltstack, SigType, PollSaved, OwnMask
  <2> QED BY <1>0, <1>6, <2>1, FramesKept DEF sigaltstack
<1>7. CASE syscall_handler_end
  <2>1. SigType' /\ PollSaved' /\ OwnMask' = OwnMask
    BY <1>0, <1>7 DEF syscall_handler_end, SigType, PollSaved, OwnMask
  <2> QED BY <1>0, <1>7, <2>1, FramesKept DEF syscall_handler_end
<1>8. CASE sig_goes_on
  <2>1. SigType' /\ PollSaved' /\ OwnMask' = OwnMask
    BY <1>0, <1>8 DEF sig_goes_on, SigType, PollSaved, OwnMask
  <2> QED BY <1>0, <1>8, <2>1, FramesKept DEF sig_goes_on
<1>9. CASE dispatch_pending_signal
  <2>1. /\ sig_pc \in {"user", "eintr", "again"} /\ accepted_signals # {}
        /\ sig_pending' \in SUBSET SigNumbers
        /\ UNCHANGED <<sig_poll, sig_user_mask, sig_opened>>
    BY <1>0, <1>9 DEF dispatch_pending_signal, SigType
  <2>2. CASE dispatch_handler(FirstAccepted)
    BY <2>1, <2>2, PushStep
  <2>3. CASE /\ sig_pc' \in {"dead", "user", "eintr", "again"}
             /\ UNCHANGED <<sig_mask, sig_action, sig_frames, sig_alt, sig_overwritten>>
    <3>1. SigType' /\ PollSaved' /\ OwnMask' = OwnMask
      BY <1>0, <2>1, <2>3 DEF SigType, PollSaved, OwnMask
    <3> QED BY <1>0, <2>1, <2>3, <3>1, FramesKept
  <2>4. ResumeAt(FirstAccepted) \in {"user", "eintr", "again"}
    BY <2>1 DEF ResumeAt
  <2> QED BY <1>9, <2>2, <2>3, <2>4 DEF dispatch_pending_signal
<1>10. CASE return_from_signal
  BY <1>10, PopStep
<1> QED BY <1>1, <1>2, <1>3, <1>4, <1>5, <1>6, <1>7, <1>8, <1>9, <1>10 DEF SignalNext

\* Whatever signals come, whatever handlers do to the mask and however deep they
\* nest: a thread that is in no handler and no poll has the mask it set last
\* (return_from_signal, poll_saved_signal_mask), and a deferred signal never
\* enters its own handler again unless a handler unblocked signals.
THEOREM SignalsDelivered == SignalSpec => []SignalSafe
<1>1. SignalInv => SignalSafe
  <2> SUFFICES ASSUME SignalInv PROVE SigMaskRestored /\ SigNotReentered
    BY DEF SignalSafe
  <2>1. SigMaskRestored
    BY DEF SignalInv, MaskSaved, OwnMask, SigMaskRestored
  <2>2. DOMAIN sig_frames = 1 .. Len(sig_frames) /\ Len(sig_frames) \in Nat
    BY DEF SignalInv, SigType
  <2>3. SigNotReentered
    BY <2>2 DEF SignalInv, DeferredMasked, SigNotReentered
  <2> QED BY <2>1, <2>3
<1> QED BY <1>1, SignalStarts, SignalStep, PTL DEF SignalSpec

-----------------------------------------------------------------------------
\* A list of numbers up to B has a largest entry.
LEMMA LargestEntry ==
    ASSUME NEW n \in Nat \ {0}, NEW B \in Nat, NEW l \in [1 .. n -> 0 .. B]
    PROVE  \E a \in 1 .. n : \A i \in 1 .. n : l[i] <= l[a]
<1> DEFINE K == {B - l[i] : i \in 1 .. n}
           least == CHOOSE x \in K : \A y \in K : x <= y
<1>1. \A i \in 1 .. n : l[i] \in 0 .. B
  OBVIOUS
<1>2. \A i \in 1 .. n : B - l[i] \in Nat
  BY <1>1
<1>3. K \in SUBSET Nat
  BY <1>2
<1>4. 1 \in 1 .. n /\ K # {}
  OBVIOUS
<1>5. least \in K /\ \A y \in K : least <= y
  <2> HIDE DEF K
  <2> QED BY <1>3, <1>4, LeastElement
<1> HIDE DEF least
<1>6. PICK a \in 1 .. n : least = B - l[a]
  BY <1>5
<1>7. ASSUME NEW i \in 1 .. n PROVE l[i] <= l[a]
  <2>1. B - l[a] <= B - l[i]
    BY <1>5, <1>6
  <2>2. l[a] \in 0 .. B /\ l[i] \in 0 .. B
    BY <1>1
  <2> QED BY <2>1, <2>2
<1> QED BY <1>7

\* Lists of m numbers up to B can be put into order.
Ordered(m, B) == \A l \in [1 .. m -> 0 .. B] : \E p \in [1 .. m -> 1 .. m] : Sorts(p, l)

\* The largest entry goes last; the others are one fewer.
LEMMA OrderLonger ==
    ASSUME NEW m \in Nat, NEW B \in Nat, Ordered(m, B)
    PROVE  Ordered(m + 1, B)
<1> SUFFICES ASSUME NEW l \in [1 .. m + 1 -> 0 .. B]
             PROVE  \E q \in [1 .. m + 1 -> 1 .. m + 1] : Sorts(q, l)
  BY DEF Ordered
<1> DEFINE M == 1 .. m
           N == 1 .. m + 1
           e == m + 1
<1>1. \A i \in M : i \in N /\ i # e
  OBVIOUS
<1>2. e \in N /\ e \in Nat \ {0} /\ \A i \in N : i = e \/ i \in M
  OBVIOUS
<1>3. PICK a \in N : \A i \in N : l[i] <= l[a]
  <2> HIDE DEF e
  <2>1. l \in [1 .. e -> 0 .. B]
    BY DEF e
  <2>2. \E a \in 1 .. e : \A i \in 1 .. e : l[i] <= l[a]
    BY <1>2, <2>1, LargestEntry
  <2> QED BY <2>2 DEF e
<1> DEFINE rest == [i \in M |-> IF i = a THEN l[e] ELSE l[i]]
<1>4. /\ l \in [N -> 0 .. B] /\ \A i, j \in N : i < j => i \in M
      /\ \A r \in [M -> 0 .. B] : \E p \in [M -> M] : Sorts(p, r)
  <2>1. \A i, j \in N : i < j => i \in M
    OBVIOUS
  <2>2. \A r \in [M -> 0 .. B] : \E p \in [M -> M] : Sorts(p, r)
    BY DEF Ordered
  <2> QED BY <2>1, <2>2
<1> HIDE DEF M, N, e
<1>5. rest \in [M -> 0 .. B]
  BY <1>1, <1>2, <1>4
<1>6. PICK p \in [M -> M] : Sorts(p, rest)
  <2> HIDE DEF rest
  <2> QED BY <1>4, <1>5
<1> DEFINE q == [i \in N |-> IF i = e THEN a ELSE IF p[i] = a THEN e ELSE p[i]]
<1>7. q \in [N -> N]
  BY <1>1, <1>2
<1>8. ASSUME NEW i \in M PROVE l[q[i]] = rest[p[i]] /\ q[i] # a
  <2>1. p[i] \in M /\ p[i] # e /\ q[i] = IF p[i] = a THEN e ELSE p[i]
    BY <1>1
  <2>2. rest[p[i]] = IF p[i] = a THEN l[e] ELSE l[p[i]]
    BY <2>1
  <2>3. q[i] # a
    BY <2>1
  <2> QED BY <2>1, <2>2, <2>3
<1>9. q[e] = a
  BY <1>2
<1>10. \A i, j \in M : i < j => p[i] # p[j] /\ rest[p[i]] <= rest[p[j]]
  <2>1. DOMAIN rest = M
    OBVIOUS
  <2> HIDE DEF rest
  <2> QED BY <1>6, <2>1 DEF Sorts
<1>11. ASSUME NEW i \in M, NEW j \in M, p[i] # p[j] PROVE q[i] # q[j]
  <2>1. /\ p[i] \in M /\ p[i] # e /\ q[i] = IF p[i] = a THEN e ELSE p[i]
        /\ p[j] \in M /\ p[j] # e /\ q[j] = IF p[j] = a THEN e ELSE p[j]
    BY <1>1
  <2> QED BY <1>11, <2>1
<1> HIDE DEF q, rest
<1>12. ASSUME NEW i \in N, NEW j \in N, i < j
       PROVE  q[i] # q[j] /\ l[q[i]] <= l[q[j]]
  <2>1. i \in M
    BY <1>4, <1>12
  <2>2. CASE j = e
    BY <2>1, <2>2, <1>3, <1>7, <1>8, <1>9, <1>12
  <2>3. CASE j \in M
    BY <2>1, <2>3, <1>8, <1>10, <1>11, <1>12
  <2> QED BY <1>2, <2>2, <2>3
<1>13. Sorts(q, l)
  BY <1>4, <1>12 DEF Sorts
<1> QED BY <1>7, <1>13 DEF N

\* Every list has an order, however long.
LEMMA OrderExists ==
    ASSUME NEW n \in Nat, NEW B \in Nat
    PROVE  Ordered(n, B)
<1> DEFINE E == {m \in 0 .. n : Ordered(m, B)}
<1>1. Ordered(0, B)
  <2>1. 1 .. 0 = {}
    OBVIOUS
  <2>2. ASSUME NEW l \in [1 .. 0 -> 0 .. B] PROVE \E p \in [1 .. 0 -> 1 .. 0] : Sorts(p, l)
    <3>1. l \in [1 .. 0 -> 1 .. 0] /\ DOMAIN l = {}
      BY <2>1
    <3>2. Sorts(l, l)
      BY <3>1 DEF Sorts
    <3> QED BY <3>1, <3>2
  <2> QED BY <2>2 DEF Ordered
<1>2. 0 \in E
  BY <1>1
<1>3. ASSUME NEW m \in 0 .. n - 1, m \in E PROVE m + 1 \in E
  <2>1. m \in Nat /\ m + 1 \in 0 .. n /\ Ordered(m, B)
    BY <1>3
  <2>2. Ordered(m + 1, B)
    BY <2>1, OrderLonger
  <2> QED BY <2>1, <2>2
<1>4. 0 .. n \subseteq E
  <2> HIDE DEF E
  <2> QED BY <1>2, <1>3, UpTo
<1> QED BY <1>4

\* What setgroups keeps is ascending.
LEMMA SortedAscends ==
    ASSUME NEW n \in Nat, NEW list \in [1 .. n -> Ids]
    PROVE  /\ Sorted(list) \in [1 .. n -> Ids]
           /\ \A i, j \in 1 .. n : i < j => Sorted(list)[i] <= Sorted(list)[j]
<1> DEFINE N == 1 .. n
           places == CHOOSE p \in [N -> N] : Sorts(p, list)
<1>1. list \in [1 .. n -> 0 .. 999] /\ list \in [N -> Ids] /\ DOMAIN list = N
  <2> DEFINE W == 0 .. 999
  <2>1. Ids \subseteq W
    BY CredAssumption
  <2> HIDE DEF W
  <2>2. list \in [1 .. n -> W]
    BY <2>1
  <2> QED BY <2>2 DEF W
<1>2. \E p \in [N -> N] : Sorts(p, list)
  <2> DEFINE B == 999
  <2>a. B \in Nat
    OBVIOUS
  <2>b. list \in [1 .. n -> 0 .. B]
    BY <1>1, Zenon
  <2> HIDE DEF B
  <2>1. B \in Nat /\ list \in [1 .. n -> 0 .. B]
    BY <2>a, <2>b
  <2>2. Ordered(n, B)
    BY <2>1, OrderExists
  <2> QED BY <2>1, <2>2 DEF Ordered
<1> HIDE DEF N
<1>3. places \in [N -> N] /\ Sorts(places, list)
  BY <1>2
<1>4. Sorted(list) = [i \in N |-> list[places[i]]]
  BY <1>1 DEF Sorted
<1> HIDE DEF places
<1>5. Sorted(list) \in [N -> Ids] /\ \A i \in N : Sorted(list)[i] = list[places[i]]
  BY <1>1, <1>3, <1>4
<1>6. \A i, j \in N : i < j => list[places[i]] <= list[places[j]]
  BY <1>1, <1>3 DEF Sorts
<1> QED BY <1>5, <1>6 DEF N
-----------------------------------------------------------------------------
IdRecords == [rid : Nat, eid : Nat, fsid : Nat, sid : Nat]
GroupLists == UNION {[1 .. n -> Ids] : n \in Nat}

\* Root has given up nothing: what it gives up it can take back.
CredInv ==
    /\ cred \in [uids : IdRecords, gids : IdRecords, groups : GroupLists]
    /\ cred_lost \in [uids : SUBSET Nat, gids : SUBSET Nat]
    /\ cred.uids.eid = 0 => cred_lost.uids = {} /\ cred_lost.gids = {}
    /\ CredSafe

\* The ids of one kind change, to ones that root asked for or that were held.
LEMMA SetsKeep ==
    ASSUME CredInv, NEW set \in {"uids", "gids"}, NEW new \in IdRecords, Sets(set, new),
           new.fsid = new.eid, cred.uids.eid = 0 \/ Held_ids(new) \subseteq Held_ids(cred[set])
    PROVE  CredInv'
<1> DEFINE other == IF set = "uids" THEN "gids" ELSE "uids"
           lost == cred_lost[set] \cup (Held_ids(cred[set]) \ Held_ids(new))
<1>1. /\ cred' \in [uids : IdRecords, gids : IdRecords, groups : GroupLists]
      /\ cred'[set] = new /\ cred'[other] = cred[other] /\ cred'.groups = cred.groups
  BY DEF CredInv, Sets
<1>2. Held_ids(cred[set]) \subseteq Nat
  BY DEF CredInv, IdRecords, Held_ids
<1>3. CASE cred'.uids.eid = 0
  <2>1. cred_lost' = [uids |-> {}, gids |-> {}]
    BY <1>3 DEF Sets
  <2>2. cred_lost'.uids = {} /\ cred_lost'.gids = {}
        /\ cred_lost' \in [uids : SUBSET Nat, gids : SUBSET Nat]
    BY <2>1
  <2>3. CredGivenUp'
    BY <2>2 DEF CredGivenUp
  <2>4. CredFollows'
    BY <1>1 DEF CredInv, CredSafe, CredFollows
  <2> QED BY <1>1, <2>2, <2>3, <2>4 DEF CredInv, CredSafe
<1>4. CASE cred'.uids.eid # 0
  <2>1. cred_lost' = [cred_lost EXCEPT ![set] = lost]
    BY <1>4 DEF Sets
  <2>2. /\ cred_lost' \in [uids : SUBSET Nat, gids : SUBSET Nat]
        /\ cred_lost'[set] = lost /\ cred_lost'[other] = cred_lost[other]
    BY <1>2, <2>1 DEF CredInv
  <2>3. Held_ids(cred[set]) \cap cred_lost[set] = {}
        /\ Held_ids(cred[other]) \cap cred_lost[other] = {}
    BY DEF CredInv, CredSafe, CredGivenUp
  <2>4. Held_ids(new) \cap lost = {}
    BY <2>3 DEF CredInv
  <2>5. CredGivenUp'
    BY <1>1, <2>2, <2>3, <2>4 DEF CredGivenUp
  <2>6. CredFollows'
    BY <1>1 DEF CredInv, CredSafe, CredFollows
  <2> QED BY <1>1, <1>4, <2>2, <2>5, <2>6 DEF CredInv, CredSafe
<1> QED BY <1>3, <1>4

LEMMA CredInitInv ==
    ASSUME CredInit PROVE CredInv
<1>1. IdSet(0) \in IdRecords /\ IdSet(0).fsid = IdSet(0).eid /\ IdSet(0).eid = 0
  BY DEF IdSet, IdRecords
<1>2. <<>> \in [1 .. 0 -> Ids] /\ DOMAIN <<>> = {}
  <2>1. 1 .. 0 = {}
    OBVIOUS
  <2> QED BY <2>1
<1>3. <<>> \in GroupLists
  BY <1>2 DEF GroupLists
<1>4. cred \in [uids : IdRecords, gids : IdRecords, groups : GroupLists]
  BY <1>1, <1>3 DEF CredInit
<1>5. CredGivenUp
  BY DEF CredInit, CredGivenUp
<1>6. CredFollows
  BY <1>1, <1>2 DEF CredInit, CredFollows
<1>7. cred_lost \in [uids : SUBSET Nat, gids : SUBSET Nat] /\ cred_lost.uids = {} /\ cred_lost.gids = {}
  BY DEF CredInit
<1> QED BY <1>4, <1>5, <1>6, <1>7 DEF CredInv, CredSafe

LEMMA SetIdKeeps ==
    ASSUME CredInv, NEW set \in {"uids", "gids"}, NEW id \in Ids, setid(set, id)
    PROVE  CredInv'
<1> DEFINE old == cred[set]
           new == IF has_capability THEN IdSet(id) ELSE [old EXCEPT !.eid = id, !.fsid = id]
<1>1. id \in Nat
  BY CredAssumption
<1>2. old \in IdRecords /\ Sets(set, new)
  BY DEF CredInv, setid
<1>3. CASE has_capability
  <2>1. new = IdSet(id)
    BY <1>3
  <2>2. IdSet(id) \in IdRecords /\ IdSet(id).fsid = IdSet(id).eid
    BY <1>1 DEF IdSet, IdRecords
  <2>3. cred.uids.eid = 0
    BY <1>3 DEF has_capability
  <2> HIDE DEF new
  <2> QED BY <1>2, <2>1, <2>2, <2>3, SetsKeep
<1>4. CASE ~has_capability
  <2>1. new = [old EXCEPT !.eid = id, !.fsid = id] /\ id \in Held_ids(old)
    BY <1>4 DEF setid, contains
  <2> HIDE DEF new
  <2>2. /\ new \in IdRecords /\ new.eid = id /\ new.fsid = id
        /\ new.rid = old.rid /\ new.sid = old.sid
    BY <1>1, <1>2, <2>1 DEF IdRecords
  <2>3. Held_ids(new) \subseteq Held_ids(old)
    BY <2>1, <2>2 DEF Held_ids
  <2> QED BY <1>2, <2>2, <2>3, SetsKeep
<1> QED BY <1>3, <1>4

LEMMA SetResIdKeeps ==
    ASSUME CredInv, NEW set \in {"uids", "gids"}, NEW rid \in Ids \cup {NoChange},
           NEW eid \in Ids \cup {NoChange}, NEW sid \in Ids \cup {NoChange},
           setresid(set, rid, eid, sid)
    PROVE  CredInv'
<1> DEFINE old == cred[set]
           new == [rid |-> New(old.rid, rid), eid |-> New(old.eid, eid),
                   sid |-> New(old.sid, sid), fsid |-> New(old.eid, eid)]
<1>1. \A id \in Ids : id \in Nat
  BY CredAssumption
<1>2. old \in IdRecords /\ Sets(set, new)
  BY DEF CredInv, setresid
<1>3. /\ New(old.rid, rid) \in Nat /\ New(old.eid, eid) \in Nat
      /\ New(old.sid, sid) \in Nat
  BY <1>1, <1>2 DEF New, IdRecords
<1>4. /\ new \in IdRecords /\ new.fsid = new.eid
      /\ Held_ids(new) = {New(old.rid, rid), New(old.eid, eid), New(old.sid, sid)}
  BY <1>3 DEF IdRecords, Held_ids
<1>5. cred.uids.eid = 0 \/ Allowed(set, rid, eid, sid)
  BY DEF setresid, has_capability
<1> HIDE DEF new
<1>6. ASSUME Allowed(set, rid, eid, sid) PROVE Held_ids(new) \subseteq Held_ids(old)
  BY <1>4, <1>6 DEF Allowed, contains, New, Held_ids
<1> QED BY <1>2, <1>4, <1>5, <1>6, SetsKeep

LEMMA SetGroupsKeeps ==
    ASSUME CredInv, NEW n \in Nat, NEW list \in [1 .. n -> Ids], setgroups(list)
    PROVE  CredInv'
<1> DEFINE g == Sorted(list)
<1>1. g \in [1 .. n -> Ids] /\ \A i, j \in 1 .. n : i < j => g[i] <= g[j]
  BY SortedAscends
<1> HIDE DEF g
<1>2. g \in GroupLists /\ DOMAIN g = 1 .. n
  BY <1>1 DEF GroupLists
<1>3. cred' = [cred EXCEPT !.groups = g] /\ cred_lost' = cred_lost
  BY DEF setgroups, g
<1>4. /\ cred' \in [uids : IdRecords, gids : IdRecords, groups : GroupLists]
      /\ cred'.uids = cred.uids /\ cred'.gids = cred.gids /\ cred'.groups = g
  BY <1>2, <1>3 DEF CredInv
<1>5. CredGivenUp'
  BY <1>3, <1>4 DEF CredInv, CredSafe, CredGivenUp
<1>6. CredFollows'
  BY <1>1, <1>2, <1>4 DEF CredInv, CredSafe, CredFollows
<1> QED BY <1>3, <1>4, <1>5, <1>6 DEF CredInv, CredSafe

\* Through every sequence of the set*id calls and setgroups (userland/cred.cpp), by
\* whatever ids: a thread that is not root never holds again an id it gave up, the id
\* for the file system follows the effective one, and the groups stay sorted.
THEOREM CredentialsSafe == CredSpec => []CredSafe
<1>1. CredInit => CredInv
  BY CredInitInv
<1>2. CredInv /\ [CredNext]_cred_vars => CredInv'
  <2> SUFFICES ASSUME CredInv, [CredNext]_cred_vars PROVE CredInv'
    OBVIOUS
  <2>1. ASSUME NEW set \in {"uids", "gids"}, NEW id \in Ids, setid(set, id) PROVE CredInv'
    BY <2>1, SetIdKeeps
  <2>2. ASSUME NEW set \in {"uids", "gids"}, NEW rid \in Ids \cup {NoChange},
               NEW eid \in Ids \cup {NoChange}, NEW sid \in Ids \cup {NoChange},
               setresid(set, rid, eid, sid)
        PROVE  CredInv'
    BY <2>2, SetResIdKeeps
  <2>3. ASSUME NEW n \in 0 .. MaxSupplementary, NEW list \in [1 .. n -> Ids], setgroups(list)
        PROVE  CredInv'
    <3>1. n \in Nat
      BY CredAssumption
    <3> QED BY <2>3, <3>1, SetGroupsKeeps
  <2>4. CASE UNCHANGED cred_vars
    BY <2>4 DEF cred_vars, CredInv, CredSafe, CredGivenUp, CredFollows, Held_ids
  <2> QED BY <2>1, <2>2, <2>3, <2>4 DEF CredNext
<1>3. CredInv => CredSafe
  BY DEF CredInv
<1> QED BY <1>1, <1>2, <1>3, PTL DEF CredSpec

-----------------------------------------------------------------------------
PollBits == {"IN", "OUT"}
EpollSlots == [file : PollFiles \cup {NoEvent}, old : SUBSET PollBits, et : BOOLEAN,
               interest : SUBSET PollBits]
PollCalls == [call : {"idle", "read", "write", "poll", "epoll"},
              on : SUBSET (PollFiles \cup PollThreads), woken : BOOLEAN,
              timer : {"off", "armed", "fired"}, want : [PollFiles -> SUBSET PollBits],
              add : Nat, stale : BOOLEAN, shared : BOOLEAN]
EpollRecords == [events : Seq(EpollSlots), wait : Seq(PollFiles \cup PollThreads \cup {NoEvent}),
                 first_free : Nat \ {0}, index : [PollFiles -> Nat]]

\* The instance of epoll: its lists are as long as each other, its table points into them.
EpollWell ==
    /\ ep \in EpollRecords
    /\ Len(ep.wait) = Len(ep.events) + 1
    /\ \A f \in PollFiles : ep.index[f] # 0 => ep.index[f] \in DOMAIN ep.events
    /\ EpollIndex

FilesWell ==
    /\ counter \in [EventFds -> Nat] /\ EventFdBound
    /\ sfd = [pending |-> sfd.pending, mask |-> sfd.mask]

\* What a call in progress says about itself.
CallWell(t, p) ==
    /\ p \in PollCalls
    /\ p.call = "idle" => p = NoCall
    /\ p.call = "read" => \E f \in PollFiles : p.on = {f}
    /\ p.call = "write" => \E f \in EventFds : p.on = {f}
    /\ p.call = "poll" => \A f \in PollFiles : p.want[f] # {} => f \in p.on
    /\ p.timer # "off" => p.call \in {"poll", "epoll"}
    /\ p.timer # "off" /\ ~p.shared => t \in p.on
    /\ p.timer = "fired" => p.woken \/ p.shared

\* A call that nothing has disturbed listens to every file it would return for, and
\* none of them is ready while it sleeps.
Listening(p) ==
    p.call = "epoll" /\ ~p.stale =>
        \A i \in DOMAIN ep.events : Used(i) => ep.events[i].file \in p.on
Entered(t, p) == p.call = "epoll" /\ ~p.shared /\ p.timer # "off" => ep.wait[1] = t
Patient(p) ==
    p.call # "idle" /\ ~p.woken /\ ~p.stale =>
        /\ p.call = "read" => \A f \in p.on : "IN" \notin Bits(f)
        /\ p.call = "write" => \A f \in p.on : counter[f] + p.add > COUNTER_MAX
        /\ p.call = "poll" => \A f \in PollFiles : p.want[f] \cap Bits(f) = {}
        /\ p.call = "epoll" => \A i \in DOMAIN ep.events :
              Used(i) /\ ~ep.events[i].et => NewRevents(ep.events[i]) = {}

Callers ==
    /\ poller = [t \in PollThreads |-> poller[t]]
    /\ \A t \in PollThreads : /\ CallWell(t, poller[t]) /\ Listening(poller[t])
                              /\ Entered(t, poller[t]) /\ Patient(poller[t])
PollInv == FilesWell /\ EpollWell /\ Callers

LEMMA NoCallWell ==
    ASSUME NEW t \in PollThreads PROVE CallWell(t, NoCall)
BY DEF CallWell, NoCall, PollCalls

LEMMA NoCallCalm ==
    ASSUME NEW t PROVE Listening(NoCall) /\ Entered(t, NoCall) /\ Patient(NoCall)
BY DEF NoCall, Listening, Entered, Patient

LEMMA PollInitInv ==
    ASSUME PollInit PROVE PollInv
<1>1. FilesWell
  BY PollAssumption DEF PollInit, FilesWell, EventFdBound
<1>2. EpollWell
  <2>1. ep \in EpollRecords /\ Len(ep.wait) = Len(ep.events) + 1 /\ DOMAIN ep.events = {}
    BY DEF PollInit, EpollRecords
  <2>2. \A f \in PollFiles : ep.index[f] = 0
    BY DEF PollInit
  <2> QED BY <2>1, <2>2 DEF EpollWell, EpollIndex
<1>3. Callers
  BY NoCallWell, NoCallCalm DEF PollInit, Callers
<1> QED BY <1>1, <1>2, <1>3 DEF PollInv

\* The marks that others leave on a call: woken, stale, shared.
Marked(p, q) ==
    /\ q \in PollCalls
    /\ q.call = p.call /\ q.on = p.on /\ q.timer = p.timer /\ q.want = p.want /\ q.add = p.add
    /\ (p.woken => q.woken) /\ (p.stale => q.stale) /\ (p.shared => q.shared)
    /\ p.call = "idle" => q = p

LEMMA MarkedWell ==
    ASSUME NEW t, NEW p, NEW q, CallWell(t, p), Marked(p, q)
    PROVE  CallWell(t, q)
BY DEF CallWell, Marked
\* The call of thread u is as well off after a step as before, if others have only
\* left marks on it and, unless one of them is about to make it look again, no file
\* it listens to has become ready.
CallKept(u) ==
    /\ CallWell(u, poller[u])' /\ Listening(poller[u])' /\ Entered(u, poller[u])'
    /\ Patient(poller[u])'
LEMMA CallUndisturbed ==
    ASSUME PollInv, ep' = ep, NEW u \in PollThreads, Marked(poller[u], poller'[u]),
           \/ poller'[u].woken \/ poller'[u].stale
           \/ \A f \in PollFiles \cap poller[u].on :
                 Bits(f)' \subseteq Bits(f) /\ (f \in EventFds => counter'[f] = counter[f])
    PROVE  CallKept(u)
<1> DEFINE p == poller[u]
           q == poller'[u]
<1>1. CallWell(u, p) /\ Listening(p) /\ Entered(u, p) /\ Patient(p)
  BY DEF PollInv, Callers
<1>2. CallWell(u, poller[u])'
  <2>1. CallWell(u, q)
    BY <1>1, MarkedWell
  <2> QED BY <2>1 DEF CallWell
<1>3. Listening(poller[u])'
  BY <1>1 DEF Listening, Marked, Used, PollCalls
<1>4. Entered(u, poller[u])'
  BY <1>1 DEF Entered, Marked
<1>5. ASSUME q.call # "idle", ~q.woken, ~q.stale PROVE Patient(poller[u])'
  <2>1. /\ p.call = q.call /\ p.on = q.on /\ p.want = q.want /\ p.add = q.add
        /\ ~p.woken /\ ~p.stale
    BY <1>5 DEF Marked, PollCalls
  <2>2. \A f \in PollFiles \cap p.on :
           Bits(f)' \subseteq Bits(f) /\ (f \in EventFds => counter'[f] = counter[f])
    BY <1>5
  <2>3. CASE q.call = "read"
    BY <1>1, <2>1, <2>2, <2>3 DEF Patient, CallWell
  <2>4. CASE q.call = "write"
    <3>1. PICK f \in EventFds : p.on = {f}
      BY <1>1, <2>1, <2>4 DEF CallWell
    <3>2. counter'[f] = counter[f]
      BY <2>2, <3>1 DEF PollFiles
    <3>3. counter[f] + p.add > COUNTER_MAX
      BY <1>1, <1>5, <2>1, <2>4, <3>1 DEF Patient
    <3> QED BY <2>1, <2>4, <3>1, <3>2, <3>3 DEF Patient
  <2>5. CASE q.call = "poll"
    <3>1. \A f \in PollFiles : p.want[f] # {} => f \in p.on
      BY <1>1, <2>1, <2>5 DEF CallWell
    <3>2. \A f \in PollFiles : p.want[f] \cap Bits(f) = {}
      BY <1>1, <1>5, <2>1, <2>5 DEF Patient
    <3>3. \A f \in PollFiles : q.want[f] \cap Bits(f)' = {}
      BY <2>1, <2>2, <3>1, <3>2
    <3> QED BY <2>5, <3>3 DEF Patient
  <2>6. CASE q.call = "epoll"
    <3>1. ASSUME NEW i \in DOMAIN ep.events, Used(i), ~ep.events[i].et
          PROVE  NewRevents(ep.events[i])' = {}
      <4>1. ep.events[i].file \in p.on
        BY <1>1, <2>1, <2>6, <3>1 DEF Listening
      <4>2. ep.events[i] \in EpollSlots
        BY <3>1 DEF PollInv, EpollWell, EpollRecords
      <4>3. ep.events[i].file \in PollFiles
        BY <3>1, <4>2 DEF EpollSlots, Used
      <4>4. NewRevents(ep.events[i]) = {}
        BY <1>1, <1>5, <2>1, <2>6, <3>1 DEF Patient
      <4>5. Bits(ep.events[i].file)' \subseteq Bits(ep.events[i].file)
        <5> DEFINE f == ep.events[i].file
        <5>1. f \in PollFiles \cap p.on
          BY <4>1, <4>3
        <5>2. f' = f
          OBVIOUS
        <5> HIDE DEF f
        <5>3. Bits(f)' \subseteq Bits(f)
          BY <2>2, <5>1, <5>2 DEF Bits
        <5> QED BY <5>3 DEF f
      <4> QED BY <4>4, <4>5 DEF NewRevents
    <3> QED BY <2>6, <3>1 DEF Patient, Used
  <2>7. q.call \in {"read", "write", "poll", "epoll"}
    BY <1>5 DEF Marked, PollCalls
  <2> QED BY <2>3, <2>4, <2>5, <2>6, <2>7
<1>6. Patient(poller[u])'
  <2>1. CASE q.call # "idle" /\ ~q.woken /\ ~q.stale
    BY <1>5, <2>1
  <2>2. CASE ~(q.call # "idle" /\ ~q.woken /\ ~q.stale)
    BY <2>2 DEF Patient
  <2> QED BY <2>1, <2>2
<1> QED BY <1>2, <1>3, <1>4, <1>6 DEF CallKept

LEMMA CallersKept ==
    ASSUME poller' = [t \in PollThreads |-> poller'[t]], \A u \in PollThreads : CallKept(u)
    PROVE  Callers'
BY DEF Callers, CallKept

LEMMA CallOver ==
    ASSUME NEW u \in PollThreads, poller'[u] = NoCall
    PROVE  CallKept(u)
<1>1. CallWell(u, poller[u])'
  <2>1. CallWell(u, NoCall)
    BY NoCallWell
  <2> QED BY <2>1 DEF CallWell
<1> QED BY <1>1 DEF CallKept, Listening, Entered, Patient, NoCall

LEMMA MarkedSame ==
    ASSUME NEW p \in PollCalls PROVE Marked(p, p)
BY DEF Marked

LEMMA MarkedMore ==
    ASSUME NEW p \in PollCalls, p.call # "idle"
    PROVE  /\ Marked(p, [p EXCEPT !.woken = TRUE]) /\ [p EXCEPT !.woken = TRUE].woken
           /\ Marked(p, [p EXCEPT !.stale = TRUE]) /\ [p EXCEPT !.stale = TRUE].stale
           /\ Marked(p, [p EXCEPT !.shared = TRUE])
<1>1. Marked(p, [p EXCEPT !.woken = TRUE]) /\ [p EXCEPT !.woken = TRUE].woken
  BY DEF Marked, PollCalls
<1>2. Marked(p, [p EXCEPT !.stale = TRUE]) /\ [p EXCEPT !.stale = TRUE].stale
  BY DEF Marked, PollCalls
<1>3. Marked(p, [p EXCEPT !.shared = TRUE])
  BY DEF Marked, PollCalls
<1> QED BY <1>1, <1>2, <1>3

\* A trigger wakes whoever listens, and nobody else is touched.
LEMMA PollTriggered ==
    ASSUME PollInv, NEW e, NEW t \in PollThreads, NEW p \in {poller[t], NoCall},
           poller' = Trigger([poller EXCEPT ![t] = p], e)
    PROVE  /\ poller' = [u \in PollThreads |-> poller'[u]]
           /\ p = NoCall => poller'[t] = NoCall
           /\ \A u \in PollThreads : u # t \/ p = poller[t] =>
                 /\ Marked(poller[u], poller'[u])
                 /\ e \in poller[u].on => poller'[u].woken
<1> DEFINE thr == [poller EXCEPT ![t] = p]
<1>1. /\ thr \in [PollThreads -> PollCalls] /\ thr[t] = p
      /\ \A u \in PollThreads : u # t \/ p = poller[t] => thr[u] = poller[u]
  <2>1. NoCall \in PollCalls
    BY NoCallWell DEF CallWell
  <2>2. poller = [u \in PollThreads |-> poller[u]] /\ \A u \in PollThreads : poller[u] \in PollCalls
    BY DEF PollInv, Callers, CallWell
  <2> QED BY <2>1, <2>2
<1>2. \A u \in PollThreads : poller'[u] = IF e \in thr[u].on THEN [thr[u] EXCEPT !.woken = TRUE]
                                          ELSE thr[u]
  BY DEF Trigger
<1>3. poller' = [u \in PollThreads |-> poller'[u]]
  BY DEF Trigger
<1> HIDE DEF thr
<1>4. p = NoCall => poller'[t] = NoCall
  <2>1. NoCall.on = {}
    BY DEF NoCall
  <2> QED BY <1>1, <1>2, <2>1
<1>5. ASSUME NEW u \in PollThreads, u # t \/ p = poller[t]
      PROVE  Marked(poller[u], poller'[u]) /\ (e \in poller[u].on => poller'[u].woken)
  <2>1. thr[u] = poller[u] /\ poller[u] \in PollCalls /\ CallWell(u, poller[u])
    BY <1>1, <1>5 DEF PollInv, Callers
  <2>2. CASE e \in poller[u].on
    <3>1. poller[u].call # "idle"
      BY <2>1, <2>2 DEF CallWell, NoCall
    <3>2. poller'[u] = [poller[u] EXCEPT !.woken = TRUE]
      BY <1>2, <2>1, <2>2
    <3>3. Marked(poller[u], [poller[u] EXCEPT !.woken = TRUE]) /\ [poller[u] EXCEPT !.woken = TRUE].woken
      BY <2>1, <3>1, MarkedMore
    <3> QED BY <3>2, <3>3, Zenon
  <2>3. CASE e \notin poller[u].on
    BY <1>2, <2>1, <2>3, MarkedSame
  <2> QED BY <2>2, <2>3
<1> QED BY <1>3, <1>4, <1>5

\* A call of thread t ends or starts with NoCall or p; nobody else notices.
LEMMA OneCaller ==
    ASSUME PollInv, ep' = ep, NEW t \in PollThreads, NEW p,
           poller' = [poller EXCEPT ![t] = p], CallKept(t),
           \A f \in PollFiles : Bits(f)' \subseteq Bits(f) /\ (f \in EventFds => counter'[f] = counter[f])
    PROVE  Callers'
<1>1. poller' = [u \in PollThreads |-> poller'[u]]
  BY DEF PollInv, Callers
<1>2. ASSUME NEW u \in PollThreads, u # t PROVE CallKept(u)
  <2>1. poller'[u] = poller[u] /\ poller[u] \in PollCalls
    BY <1>2 DEF PollInv, Callers, CallWell
  <2> QED BY <2>1, MarkedSame, CallUndisturbed
<1> QED BY <1>1, <1>2, CallersKept

LEMMA BitsKept ==
    ASSUME counter' = counter, sfd' = sfd
    PROVE  \A f \in PollFiles : Bits(f)' = Bits(f) /\ Bits(f)' \subseteq Bits(f)
                                /\ (f \in EventFds => counter'[f] = counter[f])
BY DEF Bits

LEMMA EpollStays ==
    ASSUME PollInv, ep' = ep PROVE EpollWell'
BY DEF PollInv, EpollWell, EpollIndex, Used

LEMMA EventfdReadKeeps ==
    ASSUME PollInv, NEW t \in PollThreads, NEW f \in EventFds, NEW semaphore \in BOOLEAN,
           eventfd_read(t, f, semaphore)
    PROVE  PollInv'
<1>1. sfd' = sfd /\ ep' = ep /\ f \in PollFiles
  BY DEF eventfd_read, PollFiles
<1>2. CASE counter[f] = 0
  <2> DEFINE p == [NoCall EXCEPT !.call = "read", !.on = {f}]
  <2>1. counter' = counter /\ poller' = [poller EXCEPT ![t] = p]
    BY <1>2 DEF eventfd_read
  <2>2. poller'[t] = p
    BY <2>1 DEF PollInv, Callers
  <2>3. /\ p \in PollCalls /\ p.call = "read" /\ p.on = {f} /\ p.timer = "off"
    BY <1>1 DEF NoCall, PollCalls
  <2> HIDE DEF p
  <2>4. CallWell(t, poller[t])'
    BY <1>1, <2>2, <2>3 DEF CallWell
  <2>5. Patient(poller[t])'
    <3>1. "IN" \notin Bits(f)'
      BY <1>2, <2>1, PollAssumption DEF Bits
    <3> QED BY <2>2, <2>3, <3>1 DEF Patient
  <2>6. CallKept(t)
    BY <2>2, <2>3, <2>4, <2>5 DEF CallKept, Listening, Entered
  <2>7. Callers'
    BY <1>1, <2>1, <2>6, BitsKept, OneCaller
  <2> QED BY <1>1, <2>1, <2>7, EpollStays DEF PollInv, FilesWell, EventFdBound
<1>3. CASE counter[f] # 0
  <2> DEFINE n == IF semaphore THEN counter[f] - 1 ELSE 0
  <2>1. counter' = [counter EXCEPT ![f] = n] /\ poller' = Trigger([poller EXCEPT ![t] = NoCall], f)
    BY <1>3 DEF eventfd_read
  <2>2. counter \in [EventFds -> Nat] /\ counter[f] <= COUNTER_MAX
    BY DEF PollInv, FilesWell, EventFdBound
  <2>3. n \in Nat /\ n <= COUNTER_MAX
    BY <1>3, <2>2, PollAssumption
  <2> HIDE DEF n
  <2>4. FilesWell'
    BY <1>1, <2>1, <2>2, <2>3 DEF PollInv, FilesWell, EventFdBound
  <2>5. ASSUME NEW g \in PollFiles, g # f
        PROVE  Bits(g)' \subseteq Bits(g) /\ (g \in EventFds => counter'[g] = counter[g])
    BY <1>1, <2>1, <2>2, <2>5 DEF Bits, PollFiles
  <2>6. ASSUME NEW u \in PollThreads PROVE CallKept(u)
    <3>1. CASE u = t
      BY <2>1, <3>1, PollTriggered, CallOver
    <3>2. CASE u # t
      <4>1. Marked(poller[u], poller'[u]) /\ (f \in poller[u].on => poller'[u].woken)
        BY <2>1, <3>2, PollTriggered
      <4> QED BY <1>1, <2>5, <4>1, CallUndisturbed
    <3> QED BY <3>1, <3>2
  <2>7. Callers'
    BY <2>1, <2>6, PollTriggered, CallersKept
  <2> QED BY <1>1, <2>4, <2>7, EpollStays DEF PollInv
<1> QED BY <1>2, <1>3

\* The counter grows within its limit, and everybody who listens is woken.
LEMMA EventfdWriteKeeps ==
    ASSUME PollInv, NEW t \in PollThreads, NEW f \in EventFds, NEW n \in Adds,
           eventfd_write(t, f, n)
    PROVE  PollInv'
<1>1. sfd' = sfd /\ ep' = ep /\ f \in PollFiles
  BY DEF eventfd_write, PollFiles
<1>2. /\ counter \in [EventFds -> Nat] /\ counter[f] <= COUNTER_MAX
      /\ COUNTER_MAX \in Nat /\ n \in Nat
  <2>1. COUNTER_MAX \in Nat /\ Adds \subseteq 1 .. COUNTER_MAX
    BY PollAssumption
  <2> QED BY <2>1 DEF PollInv, FilesWell, EventFdBound
<1>3. CASE ~HasRoom(f, n)
  <2> DEFINE p == [NoCall EXCEPT !.call = "write", !.on = {f}, !.add = n]
  <2>1. counter' = counter /\ poller' = [poller EXCEPT ![t] = p]
    BY <1>3 DEF eventfd_write
  <2>2. poller'[t] = p
    BY <2>1 DEF PollInv, Callers
  <2>3. p \in PollCalls /\ p.call = "write" /\ p.on = {f} /\ p.timer = "off" /\ p.add = n
    BY <1>1, <1>2 DEF NoCall, PollCalls
  <2> HIDE DEF p
  <2>4. CallWell(t, poller[t])'
    BY <1>1, <2>2, <2>3 DEF CallWell
  <2>5. Patient(poller[t])'
    <3>1. counter[f] + n > COUNTER_MAX
      BY <1>2, <1>3 DEF HasRoom
    <3> QED BY <2>1, <2>2, <2>3, <3>1 DEF Patient
  <2>6. CallKept(t)
    BY <2>2, <2>3, <2>4, <2>5 DEF CallKept, Listening, Entered
  <2>7. Callers'
    BY <1>1, <2>1, <2>6, BitsKept, OneCaller
  <2> QED BY <1>1, <2>1, <2>7, EpollStays DEF PollInv, FilesWell, EventFdBound
<1>4. CASE HasRoom(f, n)
  <2>1. counter' = [counter EXCEPT ![f] = counter[f] + n]
        /\ poller' = Trigger([poller EXCEPT ![t] = NoCall], f)
    BY <1>4 DEF eventfd_write
  <2>2. counter[f] + n \in Nat /\ counter[f] + n <= COUNTER_MAX
    BY <1>2, <1>4 DEF HasRoom
  <2>3. FilesWell'
    BY <1>1, <1>2, <2>1, <2>2 DEF PollInv, FilesWell, EventFdBound
  <2>4. ASSUME NEW g \in PollFiles, g # f
        PROVE  Bits(g)' \subseteq Bits(g) /\ (g \in EventFds => counter'[g] = counter[g])
    BY <1>1, <1>2, <2>1, <2>4 DEF Bits, PollFiles
  <2>5. ASSUME NEW u \in PollThreads PROVE CallKept(u)
    <3>1. CASE u = t
      BY <2>1, <3>1, PollTriggered, CallOver
    <3>2. CASE u # t
      <4>1. Marked(poller[u], poller'[u]) /\ (f \in poller[u].on => poller'[u].woken)
        BY <2>1, <3>2, PollTriggered
      <4> QED BY <1>1, <2>4, <4>1, CallUndisturbed
    <3> QED BY <3>1, <3>2
  <2>6. Callers'
    BY <2>1, <2>5, PollTriggered, CallersKept
  <2> QED BY <1>1, <2>3, <2>6, EpollStays DEF PollInv
<1> QED BY <1>3, <1>4

\* Only the signalfd's readiness changes, and its listeners are woken.
LEMMA SignalArrivesKeeps ==
    ASSUME PollInv, NEW s \in PollSignals, signal_arrives(s)
    PROVE  PollInv'
<1>1. /\ counter' = counter /\ ep' = ep /\ poller' = Trigger(poller, SignalFd)
      /\ sfd' = [sfd EXCEPT !.pending = @ \cup {s}]
  BY DEF signal_arrives
<1>2. FilesWell'
  BY <1>1 DEF PollInv, FilesWell, EventFdBound
<1>3. ASSUME NEW u \in PollThreads PROVE CallKept(u) /\ poller' = [v \in PollThreads |-> poller'[v]]
  <2>1. poller = [poller EXCEPT ![u] = poller[u]]
    BY DEF PollInv, Callers
  <2>2. /\ Marked(poller[u], poller'[u]) /\ (SignalFd \in poller[u].on => poller'[u].woken)
        /\ poller' = [v \in PollThreads |-> poller'[v]]
    <3> DEFINE p == poller[u]
    <3>1. p \in {poller[u], NoCall} /\ p = poller[u]
          /\ poller' = Trigger([poller EXCEPT ![u] = p], SignalFd)
      BY <1>1, <2>1
    <3> QED BY <3>1, PollTriggered
  <2>3. \A g \in PollFiles : g # SignalFd =>
           Bits(g)' \subseteq Bits(g) /\ (g \in EventFds => counter'[g] = counter[g])
    BY <1>1 DEF Bits
  <2> QED BY <1>1, <2>2, <2>3, CallUndisturbed
<1>4. poller' = [v \in PollThreads |-> poller'[v]]
  BY <1>1 DEF Trigger
<1>5. Callers'
  BY <1>3, <1>4, CallersKept
<1> QED BY <1>1, <1>2, <1>5, EpollStays DEF PollInv

LEMMA SignalfdReadKeeps ==
    ASSUME PollInv, NEW t \in PollThreads, NEW n \in Nat, signalfd_read(t, n)
    PROVE  PollInv'
<1> DEFINE accepted == sfd.pending \cap sfd.mask
<1>1. counter' = counter /\ ep' = ep /\ SignalFd \in PollFiles
  BY DEF signalfd_read, PollFiles
<1>2. CASE accepted = {}
  <2> DEFINE p == [NoCall EXCEPT !.call = "read", !.on = {SignalFd}]
  <2>1. sfd' = sfd /\ poller' = [poller EXCEPT ![t] = p]
    BY <1>2 DEF signalfd_read
  <2>2. poller'[t] = p
    BY <2>1 DEF PollInv, Callers
  <2>3. /\ p \in PollCalls /\ p.call = "read" /\ p.on = {SignalFd} /\ p.timer = "off"
    BY <1>1 DEF NoCall, PollCalls
  <2> HIDE DEF p
  <2>4. CallWell(t, poller[t])'
    BY <1>1, <2>2, <2>3 DEF CallWell
  <2>5. Patient(poller[t])'
    <3>1. "IN" \notin Bits(SignalFd)'
      BY <1>2, <2>1 DEF Bits
    <3> QED BY <2>2, <2>3, <3>1 DEF Patient
  <2>6. CallKept(t)
    BY <2>2, <2>3, <2>4, <2>5 DEF CallKept, Listening, Entered
  <2>7. Callers'
    BY <1>1, <2>1, <2>6, BitsKept, OneCaller
  <2> QED BY <1>1, <2>1, <2>7, EpollStays DEF PollInv, FilesWell, EventFdBound
<1>3. CASE accepted # {}
  <2> DEFINE taken == {s \in accepted : Cardinality({r \in accepted : r < s}) < n}
  <2>1. sfd' = [sfd EXCEPT !.pending = @ \ taken] /\ poller' = [poller EXCEPT ![t] = NoCall]
    BY <1>3 DEF signalfd_read
  <2> HIDE DEF taken
  <2>2. sfd'.pending \subseteq sfd.pending /\ sfd'.mask = sfd.mask /\ FilesWell'
    BY <1>1, <2>1 DEF PollInv, FilesWell, EventFdBound
  <2>3. \A g \in PollFiles :
           Bits(g)' \subseteq Bits(g) /\ (g \in EventFds => counter'[g] = counter[g])
    BY <1>1, <2>2 DEF Bits
  <2>4. poller'[t] = NoCall
    BY <2>1 DEF PollInv, Callers
  <2>5. Callers'
    BY <1>1, <2>1, <2>3, <2>4, CallOver, OneCaller
  <2> QED BY <1>1, <2>2, <2>5, EpollStays DEF PollInv
<1> QED BY <1>2, <1>3

\* What is staled is marked, whatever becomes ready.
LEMMA StaleMarks ==
    ASSUME PollInv, NEW calls, "idle" \notin calls, poller' = Stale(poller, calls)
    PROVE  /\ poller' = [u \in PollThreads |-> poller'[u]]
           /\ \A u \in PollThreads : /\ Marked(poller[u], poller'[u])
                                     /\ poller[u].call \in calls => poller'[u].stale
<1>1. poller' = [u \in PollThreads |-> poller'[u]]
  BY DEF Stale
<1>2. ASSUME NEW u \in PollThreads
      PROVE  Marked(poller[u], poller'[u]) /\ (poller[u].call \in calls => poller'[u].stale)
  <2>1. poller[u] \in PollCalls
    BY DEF PollInv, Callers, CallWell
  <2>2. poller'[u] = IF poller[u].call \in calls THEN [poller[u] EXCEPT !.stale = TRUE] ELSE poller[u]
    BY DEF Stale
  <2>3. CASE poller[u].call \in calls
    BY <2>1, <2>2, <2>3, MarkedMore
  <2>4. CASE poller[u].call \notin calls
    BY <2>1, <2>2, <2>4, MarkedSame
  <2> QED BY <2>3, <2>4
<1> QED BY <1>1, <1>2

LEMMA SignalfdMaskKeeps ==
    ASSUME PollInv, NEW m, signalfd_mask(m)
    PROVE  PollInv'
<1> DEFINE calls == {"read", "poll", "epoll"}
<1>1. /\ counter' = counter /\ ep' = ep /\ sfd' = [sfd EXCEPT !.mask = m]
      /\ poller' = Stale(poller, calls) /\ "idle" \notin calls
  BY DEF signalfd_mask
<1>2. FilesWell'
  BY <1>1 DEF PollInv, FilesWell, EventFdBound
<1>3. \A g \in EventFds : Bits(g)' \subseteq Bits(g) /\ counter'[g] = counter[g]
  BY <1>1, PollAssumption DEF Bits
<1>4. ASSUME NEW u \in PollThreads PROVE CallKept(u)
  <2>1. Marked(poller[u], poller'[u]) /\ (poller[u].call \in calls => poller'[u].stale)
    <3> HIDE DEF calls
    <3> QED BY <1>1, StaleMarks
  <2>2. CASE poller[u].call \in calls
    BY <1>1, <2>1, <2>2, CallUndisturbed
  <2>3. CASE poller[u].call = "write"
    <3>1. PICK f \in EventFds : poller[u].on = {f}
      BY <2>3 DEF PollInv, Callers, CallWell
    <3> QED BY <1>1, <1>3, <2>1, <3>1, CallUndisturbed
  <2>4. CASE poller[u].call = "idle"
    BY <2>1, <2>4, CallOver DEF Marked, PollInv, Callers, CallWell
  <2>5. poller[u].call \in {"idle", "read", "write", "poll", "epoll"}
    BY DEF PollInv, Callers, CallWell, PollCalls
  <2> QED BY <2>2, <2>3, <2>4, <2>5
<1>5. poller' = [u \in PollThreads |-> poller'[u]]
  BY <1>1 DEF Stale
<1>6. Callers'
  BY <1>4, <1>5, CallersKept
<1> QED BY <1>1, <1>2, <1>6, EpollStays DEF PollInv

\* ppoll sleeps, or sleeps again, only when none of its files is ready.
LEMMA PollSleeps ==
    ASSUME PollInv, NEW t \in PollThreads, counter' = counter, sfd' = sfd, ep' = ep,
           poller' = [poller EXCEPT ![t] = poller'[t]],
           CallWell(t, poller[t])', poller'[t].call = "poll", PollReady(poller'[t].want) = {}
    PROVE  PollInv'
<1> DEFINE q == poller'[t]
<1>1. \A f \in PollFiles : Bits(f)' = Bits(f) /\ Bits(f)' \subseteq Bits(f)
                           /\ (f \in EventFds => counter'[f] = counter[f])
  BY BitsKept
<1>2. Patient(poller[t])'
  <2>1. \A f \in PollFiles : q.want[f] \cap Bits(f) = {}
    BY DEF PollReady
  <2>2. \A f \in PollFiles : q.want[f] \cap Bits(f)' = {}
    BY <1>1, <2>1
  <2> QED BY <2>2 DEF Patient
<1>3. CallKept(t)
  BY <1>2 DEF CallKept, Listening, Entered
<1>4. Callers'
  <2>1. poller' = [u \in PollThreads |-> poller'[u]]
    BY DEF PollInv, Callers
  <2>2. ASSUME NEW u \in PollThreads, u # t PROVE CallKept(u)
    <3>1. poller'[u] = poller[u] /\ poller[u] \in PollCalls
      BY <2>2 DEF PollInv, Callers, CallWell
    <3> QED BY <1>1, <3>1, MarkedSame, CallUndisturbed
  <2> QED BY <1>3, <2>1, <2>2, CallersKept
<1> QED BY <1>4, EpollStays DEF PollInv, FilesWell, EventFdBound

LEMMA PpollKeeps ==
    ASSUME PollInv, NEW t \in PollThreads, NEW want \in Wants, NEW timer \in {"off", "armed"},
           ppoll(t, want, timer)
    PROVE  PollInv'
<1> DEFINE on == PollEvents(t, want, timer)
           p == [NoCall EXCEPT !.call = "poll", !.on = on, !.timer = timer, !.want = want]
<1>1. /\ counter' = counter /\ sfd' = sfd /\ ep' = ep /\ PollReady(want) = {}
      /\ poller' = [poller EXCEPT ![t] = p]
  BY DEF ppoll
<1>2. poller'[t] = p /\ poller' = [poller EXCEPT ![t] = poller'[t]]
  BY <1>1 DEF PollInv, Callers
<1>3. want \in [PollFiles -> SUBSET PollBits]
  BY DEF Wants, PollBits
<1>4. /\ on \in SUBSET (PollFiles \cup PollThreads)
      /\ \A f \in PollFiles : want[f] # {} => f \in on
      /\ timer # "off" => t \in on
  BY DEF PollEvents
<1> HIDE DEF on
<1>5. /\ p \in PollCalls /\ p.call = "poll" /\ p.want = want /\ p.on = on /\ p.timer = timer
      /\ ~p.shared
  BY <1>3, <1>4 DEF NoCall, PollCalls
<1> HIDE DEF p
<1>6. CallWell(t, poller[t])'
  BY <1>2, <1>4, <1>5 DEF CallWell
<1> QED BY <1>1, <1>2, <1>5, <1>6, PollSleeps

LEMMA PpollResumeKeeps ==
    ASSUME PollInv, NEW t \in PollThreads, ppoll_resume(t)
    PROVE  PollInv'
<1> DEFINE p == poller[t]
           q == [p EXCEPT !.woken = FALSE]
<1>1. /\ counter' = counter /\ sfd' = sfd /\ ep' = ep /\ p.call = "poll"
      /\ CallWell(t, p)
  BY DEF ppoll_resume, PollInv, Callers
<1>2. CASE p.timer = "fired" \/ PollReady(p.want) # {}
  <2>1. poller' = [poller EXCEPT ![t] = NoCall]
    BY <1>2 DEF ppoll_resume
  <2>2. poller'[t] = NoCall
    BY <2>1 DEF PollInv, Callers
  <2>3. Callers'
    BY <1>1, <2>1, <2>2, CallOver, BitsKept, OneCaller
  <2> QED BY <1>1, <2>3, EpollStays DEF PollInv, FilesWell, EventFdBound
<1>3. CASE ~(p.timer = "fired" \/ PollReady(p.want) # {})
  <2>1. poller' = [poller EXCEPT ![t] = q]
    BY <1>3 DEF ppoll_resume
  <2>2. poller'[t] = q /\ poller' = [poller EXCEPT ![t] = poller'[t]]
    BY <2>1 DEF PollInv, Callers
  <2>3. /\ q \in PollCalls /\ q.call = p.call /\ q.want = p.want /\ q.on = p.on
        /\ q.timer = p.timer /\ q.shared = p.shared
    BY <1>1 DEF CallWell, PollCalls
  <2> HIDE DEF q
  <2>4. CallWell(t, poller[t])'
    BY <1>1, <1>3, <2>2, <2>3 DEF CallWell
  <2> QED BY <1>1, <1>3, <2>2, <2>3, <2>4, PollSleeps
<1> QED BY <1>2, <1>3

\* The timer of a call that nobody shares its epoll with wakes its own thread.
LEMMA TimerFiresKeeps ==
    ASSUME PollInv, NEW t \in PollThreads, poll_timer_fires(t)
    PROVE  PollInv'
<1> DEFINE p == poller[t]
           fired == [p EXCEPT !.timer = "fired"]
           q == poller'[t]
<1>1. /\ counter' = counter /\ sfd' = sfd /\ ep' = ep /\ p.timer = "armed"
      /\ poller' = Trigger([poller EXCEPT ![t] = fired], t)
  BY DEF poll_timer_fires, PollInv, Callers
<1>2. CallWell(t, p) /\ Listening(p) /\ Entered(t, p) /\ Patient(p) /\ p \in PollCalls
  BY DEF PollInv, Callers, CallWell
<1>3. /\ fired \in PollCalls /\ fired.timer = "fired" /\ fired.on = p.on /\ fired.call = p.call
      /\ fired.want = p.want /\ fired.add = p.add /\ fired.stale = p.stale
      /\ fired.shared = p.shared /\ fired.woken = p.woken
  BY <1>2 DEF PollCalls
<1>4. /\ poller' = [u \in PollThreads |-> poller'[u]]
      /\ q = IF t \in fired.on THEN [fired EXCEPT !.woken = TRUE] ELSE fired
      /\ \A u \in PollThreads : u # t =>
            poller'[u] = IF t \in poller[u].on THEN [poller[u] EXCEPT !.woken = TRUE] ELSE poller[u]
  BY <1>1 DEF Trigger, PollInv, Callers
<1> HIDE DEF fired
<1>5. /\ q \in PollCalls /\ q.timer = "fired" /\ q.on = p.on /\ q.call = p.call
      /\ q.want = p.want /\ q.add = p.add /\ q.stale = p.stale /\ q.shared = p.shared
      /\ (t \in p.on => q.woken) /\ (p.woken => q.woken)
  BY <1>3, <1>4 DEF PollCalls
<1>6. p.call \in {"poll", "epoll"} /\ (~p.shared => t \in p.on)
  BY <1>1, <1>2 DEF CallWell
<1>7. CallKept(t)
  <2>1. CallWell(t, poller[t])'
    BY <1>2, <1>5, <1>6 DEF CallWell
  <2>2. Listening(poller[t])'
    BY <1>1, <1>2, <1>5 DEF Listening, Used
  <2>3. Entered(t, poller[t])'
    BY <1>1, <1>2, <1>5 DEF Entered
  <2>4. Patient(poller[t])'
    <3>1. \A f \in PollFiles : Bits(f)' = Bits(f)
      BY <1>1, BitsKept
    <3>2. \A i \in DOMAIN ep.events : NewRevents(ep.events[i])' = NewRevents(ep.events[i])
      BY <1>1 DEF NewRevents, Bits
    <3>3. CASE p.call = "poll"
      BY <1>2, <1>5, <3>1, <3>3 DEF Patient, PollCalls
    <3>4. CASE p.call = "epoll"
      <4>1. ASSUME ~q.woken, ~q.stale, NEW i \in DOMAIN ep.events, Used(i), ~ep.events[i].et
            PROVE  NewRevents(ep.events[i])' = {}
        BY <1>2, <1>5, <3>2, <3>4, <4>1 DEF Patient, PollCalls
      <4> QED BY <1>1, <1>5, <3>4, <4>1 DEF Patient, Used
    <3> QED BY <1>6, <3>3, <3>4
  <2> QED BY <2>1, <2>2, <2>3, <2>4 DEF CallKept
<1>8. ASSUME NEW u \in PollThreads, u # t PROVE CallKept(u)
  <2>1. poller[u] \in PollCalls /\ CallWell(u, poller[u])
    BY DEF PollInv, Callers, CallWell
  <2>2. Marked(poller[u], poller'[u])
    <3>1. CASE t \in poller[u].on
      <4>1. poller[u].call # "idle"
        BY <2>1, <3>1 DEF CallWell, NoCall
      <4> QED BY <1>4, <1>8, <2>1, <3>1, <4>1, MarkedMore
    <3>2. CASE t \notin poller[u].on
      BY <1>4, <1>8, <2>1, <3>2, MarkedSame
    <3> QED BY <3>1, <3>2
  <2> QED BY <1>1, <2>2, BitsKept, CallUndisturbed
<1>9. Callers'
  BY <1>4, <1>7, <1>8, CallersKept
<1> QED BY <1>1, <1>9, EpollStays DEF PollInv, FilesWell, EventFdBound

LEMMA InterruptedKeeps ==
    ASSUME PollInv, NEW t \in PollThreads, poll_interrupted(t)
    PROVE  PollInv'
<1>1. /\ counter' = counter /\ sfd' = sfd /\ ep' = ep
      /\ poller' = [poller EXCEPT ![t] = NoCall]
  BY DEF poll_interrupted
<1>2. poller'[t] = NoCall
  BY <1>1 DEF PollInv, Callers
<1>3. Callers'
  BY <1>1, <1>2, CallOver, BitsKept, OneCaller
<1> QED BY <1>1, <1>3, EpollStays DEF PollInv, FilesWell, EventFdBound

LEMMA PollStaysSame ==
    ASSUME PollInv, counter' = counter, sfd' = sfd, ep' = ep, poller' = poller
    PROVE  PollInv'
<1>1. ASSUME NEW u \in PollThreads PROVE CallKept(u)
  <2>1. poller'[u] = poller[u] /\ poller[u] \in PollCalls
    BY DEF PollInv, Callers, CallWell
  <2> QED BY <2>1, MarkedSame, BitsKept, CallUndisturbed
<1>2. Callers'
  BY <1>1, CallersKept DEF PollInv, Callers
<1> QED BY <1>2, EpollStays DEF PollInv, FilesWell, EventFdBound

\* A call that is not in epoll does not look at the registrations.
LEMMA OutsideEpoll ==
    ASSUME PollInv, counter' = counter, sfd' = sfd, NEW u \in PollThreads,
           Marked(poller[u], poller'[u]), poller[u].call # "epoll"
    PROVE  CallKept(u)
<1>1. CallWell(u, poller[u]) /\ Patient(poller[u]) /\ poller'[u].call = poller[u].call
  BY DEF PollInv, Callers, Marked
<1>2. CallWell(u, poller[u])'
  <2>1. CallWell(u, poller'[u])
    BY <1>1, MarkedWell
  <2> QED BY <2>1 DEF CallWell
<1>3. \A f \in PollFiles : Bits(f)' = Bits(f)
  BY BitsKept
<1>4. Patient(poller[u])'
  <2>1. CASE poller[u].call = "read"
    <3>1. PICK f \in PollFiles : poller[u].on = {f}
      BY <1>1, <2>1 DEF CallWell
    <3> QED BY <1>1, <1>3, <2>1, <3>1 DEF Patient, Marked
  <2>2. CASE poller[u].call = "write"
    BY <1>1, <2>2 DEF Patient, Marked
  <2>3. CASE poller[u].call = "poll"
    BY <1>1, <1>3, <2>3 DEF Patient, Marked
  <2>4. CASE poller[u].call = "idle"
    BY <1>1, <2>4 DEF Patient
  <2>5. poller[u].call \in {"idle", "read", "write", "poll", "epoll"}
    BY <1>1 DEF CallWell, PollCalls
  <2> QED BY <2>1, <2>2, <2>3, <2>4, <2>5
<1> QED BY <1>1, <1>2, <1>4 DEF CallKept, Listening, Entered

\* Registrations change under the calls in epoll, which are stale from then on.
LEMMA RegistrationsChange ==
    ASSUME PollInv, counter' = counter, sfd' = sfd, poller' = Stale(poller, {"epoll"}),
           ep'.wait[1] = ep.wait[1]
    PROVE  Callers'
<1> DEFINE calls == {"epoll"}
<1>1. poller' = Stale(poller, calls) /\ "idle" \notin calls
  OBVIOUS
<1>2. /\ poller' = [u \in PollThreads |-> poller'[u]]
      /\ \A u \in PollThreads : /\ Marked(poller[u], poller'[u])
                                /\ poller[u].call \in calls => poller'[u].stale
  <2> HIDE DEF calls
  <2> QED BY <1>1, StaleMarks
<1>3. ASSUME NEW u \in PollThreads PROVE CallKept(u)
  <2>1. CASE poller[u].call # "epoll"
    BY <1>2, <2>1, OutsideEpoll
  <2>2. CASE poller[u].call = "epoll"
    <3>1. poller'[u].stale /\ Marked(poller[u], poller'[u])
      BY <1>2, <2>2
    <3>2. CallWell(u, poller[u]) /\ Entered(u, poller[u])
      BY DEF PollInv, Callers
    <3>3. CallWell(u, poller'[u])
      BY <3>1, <3>2, MarkedWell
    <3>4. CallWell(u, poller[u])'
      BY <3>3 DEF CallWell
    <3>5. Entered(u, poller[u])'
      BY <3>1, <3>2 DEF Entered, Marked
    <3> QED BY <3>1, <3>4, <3>5 DEF CallKept, Listening, Patient
  <2> QED BY <2>1, <2>2
<1> QED BY <1>2, <1>3, CallersKept

\* The free slot that is taken is the lowest one that is known to be reachable.
LEMMA LowestFree ==
    ASSUME PollInv, FreeSlots # {}
    PROVE  /\ Min(FreeSlots) \in FreeSlots /\ \A i \in FreeSlots : Min(FreeSlots) <= i
<1>1. FreeSlots \in SUBSET Nat
  BY DEF PollInv, EpollWell, EpollRecords, FreeSlots
<1> HIDE DEF FreeSlots
<1> DEFINE S == FreeSlots
<1>2. S \in SUBSET Nat /\ S # {}
  BY <1>1
<1> HIDE DEF S
<1>3. Min(S) = CHOOSE x \in S : \A y \in S : x <= y
  BY DEF Min
<1>4. Min(S) \in S /\ \A y \in S : Min(S) <= y
  BY <1>2, <1>3, LeastElement
<1> QED BY <1>4 DEF S

\* One registration changes: its slot, its entry of the events to wait for, its key.
OneSlot(i) ==
    LET slot == ep'.events[i] IN
    /\ ep' \in EpollRecords
    /\ Len(ep'.events) = (IF i <= Len(ep.events) THEN Len(ep.events) ELSE i)
    /\ Len(ep'.wait) = Len(ep'.events) + 1
    /\ ep'.wait[i + 1] = slot.file
    /\ \A j \in 1 .. Len(ep'.events) : j # i =>
          ep'.events[j] = ep.events[j] /\ ep'.wait[j + 1] = ep.wait[j + 1]
    /\ slot.file = NoEvent => i >= ep'.first_free
    /\ \A j \in 1 .. Len(ep.events) : j # i /\ ~Used(j) => j >= ep'.first_free
    /\ \A f \in PollFiles : IF ep'.index[f] = i THEN slot.file = f
                             ELSE ep'.index[f] = 0 \/ ep'.index[f] = ep.index[f]
    /\ slot.file # NoEvent => ep'.index[slot.file] = i
    /\ \A f \in PollFiles : ep.index[f] # 0 /\ ep.index[f] # i /\ f # slot.file =>
          ep'.index[f] = ep.index[f]
    /\ slot.file # NoEvent => ep.index[slot.file] \in {0, i}
LEMMA EpollIndexed ==
    ASSUME PollInv, NEW i \in 1 .. Len(ep.events) + 1, OneSlot(i)
    PROVE  EpollWell'
<1> DEFINE n == Len(ep.events)
           n1 == Len(ep'.events)
           ev == ep.events
           ev1 == ep'.events
           slot == ep'.events[i]
           index == ep'.index
           ff == ep'.first_free
<1>0. /\ ep' \in EpollRecords
      /\ n1 = (IF i <= n THEN n ELSE i)
      /\ Len(ep'.wait) = n1 + 1
      /\ ep'.wait[i + 1] = slot.file
      /\ \A j \in 1 .. n1 : j # i => ev1[j] = ev[j] /\ ep'.wait[j + 1] = ep.wait[j + 1]
      /\ slot.file = NoEvent => i >= ff
      /\ \A j \in 1 .. n : j # i /\ ~Used(j) => j >= ff
      /\ \A f \in PollFiles : IF index[f] = i THEN slot.file = f
                               ELSE index[f] = 0 \/ index[f] = ep.index[f]
      /\ slot.file # NoEvent => index[slot.file] = i
      /\ \A f \in PollFiles : ep.index[f] # 0 /\ ep.index[f] # i /\ f # slot.file =>
            index[f] = ep.index[f]
      /\ slot.file # NoEvent => ep.index[slot.file] \in {0, i}
  BY DEF OneSlot
<1>1. /\ n \in Nat /\ n1 \in Nat /\ DOMAIN ev = 1 .. n /\ DOMAIN ev1 = 1 .. n1 /\ n <= n1
      /\ i \in 1 .. n1
      /\ ev \in Seq(EpollSlots) /\ ev1 \in Seq(EpollSlots)
      /\ \A j \in 1 .. n1 : j # i => j \in 1 .. n
  <2>1. ep \in EpollRecords
    BY DEF PollInv, EpollWell
  <2>2. ev \in Seq(EpollSlots) /\ ev1 \in Seq(EpollSlots)
    BY <1>0, <2>1 DEF EpollRecords
  <2>3. n \in Nat /\ n1 \in Nat /\ DOMAIN ev = 1 .. n /\ DOMAIN ev1 = 1 .. n1
    BY <2>2
  <2>4. i \in 1 .. n + 1 /\ n1 = IF i <= n THEN n ELSE i
    BY <1>0
  <2> HIDE DEF n, n1
  <2>5. n <= n1 /\ i \in 1 .. n1 /\ \A j \in 1 .. n1 : j # i => j \in 1 .. n
    BY <2>3, <2>4
  <2> QED BY <2>2, <2>3, <2>5
<1>2. /\ \A f \in PollFiles : ep.index[f] # 0 => ep.index[f] \in 1 .. n /\ ev[ep.index[f]].file = f
      /\ \A j \in 1 .. n : /\ ep.wait[j + 1] = ev[j].file
                           /\ ev[j].file # NoEvent => ep.index[ev[j].file] = j
  BY <1>1 DEF PollInv, EpollWell, EpollIndex, Used
<1>3. /\ \A j \in 1 .. n : ev[j].file \in PollFiles \cup {NoEvent}
      /\ slot.file \in PollFiles \cup {NoEvent}
  <2>1. \A s \in EpollSlots : s.file \in PollFiles \cup {NoEvent}
    BY DEF EpollSlots
  <2>2. slot \in EpollSlots /\ \A j \in 1 .. n : ev[j] \in EpollSlots
    BY <1>1
  <2> QED BY <2>1, <2>2
<1>4. ASSUME NEW f \in PollFiles, index[f] # 0 PROVE index[f] \in 1 .. n1 /\ ev1[index[f]].file = f
  <2>1. CASE index[f] = i
    BY <1>0, <1>1, <2>1
  <2>2. CASE index[f] # i
    <3>1. index[f] = ep.index[f] /\ ep.index[f] # 0
      BY <1>0, <1>4, <2>2
    <3>2. index[f] \in 1 .. n /\ ev[index[f]].file = f
      BY <1>2, <3>1
    <3> QED BY <1>0, <1>1, <2>2, <3>2
  <2> QED BY <2>1, <2>2
<1>5. ASSUME NEW j \in 1 .. n1
      PROVE  /\ ep'.wait[j + 1] = ev1[j].file
             /\ ev1[j].file # NoEvent => index[ev1[j].file] = j
             /\ ev1[j].file = NoEvent => j >= ff
  <2>1. CASE j = i
    BY <1>0, <2>1
  <2>2. CASE j # i
    <3>1. j \in 1 .. n /\ ev1[j] = ev[j] /\ ep'.wait[j + 1] = ep.wait[j + 1]
      BY <1>0, <1>1, <2>2
    <3>2. ev[j].file # NoEvent => index[ev[j].file] = j
      <4> SUFFICES ASSUME ev[j].file # NoEvent PROVE index[ev[j].file] = j
        OBVIOUS
      <4> DEFINE f == ev[j].file
      <4>1. f \in PollFiles /\ ep.index[f] = j
        BY <1>2, <1>3, <3>1
      <4>2. f # slot.file
        <5>1. j # 0 /\ NoEvent \notin PollFiles
          BY <3>1, PollAssumption
        <5>2. slot.file # NoEvent => ep.index[slot.file] \in {0, i}
          BY <1>0
        <5> HIDE DEF f, slot
        <5> QED BY <2>2, <4>1, <5>1, <5>2
      <4>3. ep.index[f] # 0 /\ ep.index[f] # i
        BY <2>2, <3>1, <4>1
      <4> QED BY <1>0, <4>1, <4>2, <4>3
    <3> QED BY <1>0, <1>2, <3>1, <3>2 DEF Used
  <2> QED BY <2>1, <2>2
<1>6. EpollIndex'
  BY <1>0, <1>1, <1>4, <1>5 DEF EpollIndex, Used
<1> QED BY <1>0, <1>1, <1>4, <1>6 DEF EpollWell

\* What allocate_events_index leaves: a slot i that is free, at the end or before it.
LEMMA SlotAllocated ==
    ASSUME PollInv, NEW e, NEW i, e = allocate_events_index, i = NewIndex
    PROVE  /\ e \in EpollRecords /\ e.index = ep.index
           /\ i \in 1 .. Len(ep.events) + 1
           /\ Len(e.events) = (IF i <= Len(ep.events) THEN Len(ep.events) ELSE i)
           /\ Len(e.wait) = Len(e.events) + 1
           /\ \A j \in 1 .. Len(e.events) : j # i =>
                 e.events[j] = ep.events[j] /\ e.wait[j + 1] = ep.wait[j + 1]
           /\ e.wait[1] = ep.wait[1]
           /\ i <= Len(ep.events) => ~Used(i)
           /\ \A j \in 1 .. Len(ep.events) : j # i /\ ~Used(j) => j >= e.first_free
<1> DEFINE ev == ep.events
           wt == ep.wait
           n == Len(ep.events)
<1>1. /\ ep \in EpollRecords /\ ev \in Seq(EpollSlots) /\ n \in Nat /\ DOMAIN ev = 1 .. n
      /\ wt \in Seq(PollFiles \cup PollThreads \cup {NoEvent}) /\ Len(wt) = n + 1
      /\ DOMAIN wt = 1 .. n + 1 /\ ep.first_free \in Nat \ {0}
  BY DEF PollInv, EpollWell, EpollRecords
<1>2. \A j \in 1 .. n : ~Used(j) => j >= ep.first_free
  BY <1>1 DEF PollInv, EpollWell, EpollIndex
<1>3. CASE FreeSlots # {}
  <2> DEFINE m == Min(FreeSlots)
  <2>1. m \in FreeSlots /\ \A j \in FreeSlots : m <= j
    BY <1>3, LowestFree
  <2>2. e = [ep EXCEPT !.first_free = m + 1] /\ i = m
    BY <1>3 DEF allocate_events_index, NewIndex
  <2> HIDE DEF m
  <2>3. m \in 1 .. n /\ ~Used(m) /\ \A j \in 1 .. n : ~Used(j) => m <= j
    BY <1>1, <1>2, <2>1 DEF FreeSlots, Used
  <2>a. m + 1 \in Nat \ {0}
    BY <1>1, <2>3
  <2>4. /\ e \in EpollRecords /\ e.events = ev /\ e.wait = wt /\ e.index = ep.index
        /\ e.first_free = m + 1
    BY <1>1, <2>2, <2>a DEF EpollRecords
  <2> QED BY <1>1, <2>2, <2>3, <2>4
<1>4. CASE FreeSlots = {}
  <2> DEFINE ev1 == Append(ev, FreeSlot)
             wt1 == Append(wt, NoEvent)
  <2>1. e = [ep EXCEPT !.first_free = n + 1, !.events = ev1, !.wait = wt1] /\ i = n + 1
    BY <1>4 DEF allocate_events_index, NewIndex
  <2>2. \A j \in 1 .. n : Used(j)
    BY <1>1, <1>2, <1>4 DEF FreeSlots, Used
  <2>3. FreeSlot \in EpollSlots
    BY DEF FreeSlot, EpollSlots, PollBits
  <2>4. /\ ev1 \in Seq(EpollSlots) /\ Len(ev1) = n + 1
        /\ \A j \in 1 .. n : ev1[j] = ev[j]
    BY <1>1, <2>3
  <2>5. /\ wt1 \in Seq(PollFiles \cup PollThreads \cup {NoEvent}) /\ Len(wt1) = n + 2
        /\ \A j \in 1 .. n + 1 : wt1[j] = wt[j]
    <3> DEFINE W == PollFiles \cup PollThreads \cup {NoEvent}
    <3>1. NoEvent \in W /\ wt \in Seq(W)
      BY <1>1
    <3> HIDE DEF W
    <3>2. wt1 \in Seq(W) /\ Len(wt1) = Len(wt) + 1 /\ \A j \in 1 .. Len(wt) : wt1[j] = wt[j]
      BY <3>1
    <3> QED BY <1>1, <3>2 DEF W
  <2> HIDE DEF ev1, wt1
  <2>6. n + 1 \in Nat \ {0}
    BY <1>1
  <2>7. /\ e \in EpollRecords /\ e.events = ev1 /\ e.wait = wt1 /\ e.index = ep.index
        /\ e.first_free = n + 1
    BY <1>1, <2>1, <2>4, <2>5, <2>6 DEF EpollRecords
  <2>8. \A j \in 1 .. n + 1 : j # n + 1 => j \in 1 .. n /\ j + 1 \in 1 .. n + 1
    BY <1>1
  <2>10. Len(e.events) = n + 1 /\ Len(e.wait) = n + 2 /\ i = n + 1 /\ ~(i <= n)
    BY <1>1, <2>1, <2>4, <2>5, <2>7
  <2>11. \A j \in 1 .. n + 1 : j # n + 1 =>
            e.events[j] = ep.events[j] /\ e.wait[j + 1] = ep.wait[j + 1]
    BY <2>4, <2>5, <2>7, <2>8
  <2>12. e.wait[1] = ep.wait[1]
    BY <1>1, <2>5, <2>7
  <2>13. n + 2 = (n + 1) + 1 /\ n + 1 \in 1 .. n + 1
    BY <1>1
  <2> HIDE DEF n
  <2>14. /\ i \in 1 .. n + 1 /\ Len(e.events) = (IF i <= n THEN n ELSE i)
         /\ Len(e.wait) = Len(e.events) + 1
         /\ \A j \in 1 .. Len(e.events) : j # i =>
                e.events[j] = ep.events[j] /\ e.wait[j + 1] = ep.wait[j + 1]
    BY <2>10, <2>11, <2>13
  <2> QED BY <2>2, <2>7, <2>10, <2>12, <2>14 DEF n
<1> QED BY <1>3, <1>4

LEMMA EpollAddKeeps ==
    ASSUME PollInv, NEW f \in PollFiles, NEW interest \in Interests(f), NEW et \in BOOLEAN,
           epoll_ctl_add(f, interest, et)
    PROVE  PollInv'
<1> DEFINE e == allocate_events_index
           i == NewIndex
           slot == [file |-> f, old |-> {}, et |-> et, interest |-> interest]
           index == [ep.index EXCEPT ![f] = i]
<1>1. /\ counter' = counter /\ sfd' = sfd /\ poller' = Stale(poller, {"epoll"})
      /\ ep' = [e EXCEPT !.events[i] = slot, !.wait = WaitSet(e, i, f), !.index[f] = i]
      /\ ep.index[f] = 0
  BY DEF epoll_ctl_add
<1>2. slot \in EpollSlots /\ slot.file = f
  BY DEF EpollSlots, Interests, PollBits
<1> HIDE DEF e, i, slot
<1>3. /\ e \in EpollRecords /\ e.index = ep.index
      /\ i \in 1 .. Len(ep.events) + 1
      /\ Len(e.events) = (IF i <= Len(ep.events) THEN Len(ep.events) ELSE i)
      /\ Len(e.wait) = Len(e.events) + 1
      /\ \A j \in 1 .. Len(e.events) : j # i =>
            e.events[j] = ep.events[j] /\ e.wait[j + 1] = ep.wait[j + 1]
      /\ e.wait[1] = ep.wait[1]
      /\ i <= Len(ep.events) => ~Used(i)
      /\ \A j \in 1 .. Len(ep.events) : j # i /\ ~Used(j) => j >= e.first_free
  BY SlotAllocated DEF e, i
<1>4. Len(ep.events) \in Nat /\ i \in Nat \ {0} /\ i \in 1 .. Len(e.events)
  <2>1. Len(ep.events) \in Nat
    BY DEF PollInv, EpollWell, EpollRecords
  <2> QED BY <1>3, <2>1
<1> DEFINE ev1 == [e.events EXCEPT ![i] = slot]
           wt1 == [e.wait EXCEPT ![i + 1] = f]
<1>5. /\ ev1 \in Seq(EpollSlots) /\ Len(ev1) = Len(e.events) /\ ev1[i] = slot
      /\ \A j \in 1 .. Len(e.events) : j # i => ev1[j] = e.events[j]
  <2>1. e.events \in Seq(EpollSlots)
    BY <1>3 DEF EpollRecords
  <2> QED BY <1>2, <1>4, <2>1
<1>6. /\ wt1 \in Seq(PollFiles \cup PollThreads \cup {NoEvent}) /\ Len(wt1) = Len(e.wait)
      /\ wt1[i + 1] = f /\ wt1[1] = e.wait[1]
      /\ \A j \in 1 .. Len(e.events) : j # i => wt1[j + 1] = e.wait[j + 1]
  <2> DEFINE W == PollFiles \cup PollThreads \cup {NoEvent}
  <2>1. e.wait \in Seq(W) /\ f \in W
    BY <1>3 DEF EpollRecords
  <2>2. i + 1 \in 1 .. Len(e.wait) /\ 1 \in 1 .. Len(e.wait) /\ i + 1 # 1
    BY <1>3, <1>4
  <2>3. \A j \in 1 .. Len(e.events) : j # i => j + 1 \in 1 .. Len(e.wait) /\ j + 1 # i + 1
    BY <1>3, <1>4
  <2> HIDE DEF W
  <2>4. /\ wt1 \in Seq(W) /\ Len(wt1) = Len(e.wait) /\ wt1[i + 1] = f
        /\ \A k \in 1 .. Len(e.wait) : k # i + 1 => wt1[k] = e.wait[k]
    BY <2>1, <2>2
  <2> QED BY <2>2, <2>3, <2>4 DEF W
<1>7. index \in [PollFiles -> Nat]
  BY <1>4 DEF PollInv, EpollWell, EpollRecords
<1>8. /\ ep' \in EpollRecords /\ ep'.events = ev1 /\ ep'.wait = wt1 /\ ep'.index = index
      /\ ep'.first_free = e.first_free /\ e.first_free \in Nat \ {0}
  <2> HIDE DEF ev1, wt1, index
  <2>1. ep' = [e EXCEPT !.events = ev1, !.wait = wt1, !.index = index]
    BY <1>1, <1>3 DEF ev1, wt1, index, WaitSet, EpollRecords
  <2> QED BY <1>3, <1>5, <1>6, <1>7, <2>1 DEF EpollRecords
<1>9. \A g \in PollFiles : index[g] = IF g = f THEN i ELSE ep.index[g]
  BY DEF PollInv, EpollWell, EpollRecords
<1>10. \A g \in PollFiles : ep.index[g] = i => i = 0
  <2>1. \A g \in PollFiles : ep.index[g] # 0 =>
           ep.index[g] \in DOMAIN ep.events /\ ep.events[ep.index[g]].file = g
    BY DEF PollInv, EpollWell, EpollIndex
  <2>2. DOMAIN ep.events = 1 .. Len(ep.events)
    BY DEF PollInv, EpollWell, EpollRecords
  <2>3. f # NoEvent /\ \A g \in PollFiles : g # NoEvent
    BY PollAssumption
  <2> QED BY <1>3, <1>4, <2>1, <2>2, <2>3 DEF Used
<1> HIDE DEF ev1, wt1, index
<1>11. f # NoEvent
  BY PollAssumption
<1>12. EpollWell'
  <2>1. /\ Len(ep'.events) = (IF i <= Len(ep.events) THEN Len(ep.events) ELSE i)
        /\ Len(ep'.wait) = Len(ep'.events) + 1 /\ ep'.events[i] = slot /\ ep'.wait[i + 1] = slot.file
        /\ \A j \in 1 .. Len(ep'.events) : j # i =>
              ep'.events[j] = ep.events[j] /\ ep'.wait[j + 1] = ep.wait[j + 1]
    BY <1>2, <1>3, <1>5, <1>6, <1>8
  <2>2. /\ \A g \in PollFiles : IF index[g] = i THEN slot.file = g
                                ELSE index[g] = 0 \/ index[g] = ep.index[g]
        /\ index[slot.file] = i /\ ep.index[slot.file] \in {0, i}
        /\ \A g \in PollFiles : ep.index[g] # 0 /\ ep.index[g] # i /\ g # slot.file =>
              index[g] = ep.index[g]
    BY <1>1, <1>2, <1>4, <1>9, <1>10
  <2>3. OneSlot(i)
    BY <1>2, <1>3, <1>8, <1>11, <2>1, <2>2 DEF OneSlot
  <2> QED BY <1>3, <2>3, EpollIndexed
<1>13. Callers'
  BY <1>1, <1>3, <1>6, <1>8, RegistrationsChange
<1> QED BY <1>1, <1>12, <1>13 DEF PollInv, FilesWell, EventFdBound

LEMMA EpollFields ==
    ASSUME PollInv
    PROVE  /\ ep \in EpollRecords /\ ep.events \in Seq(EpollSlots) /\ Len(ep.events) \in Nat
           /\ DOMAIN ep.events = 1 .. Len(ep.events)
           /\ ep.wait \in Seq(PollFiles \cup PollThreads \cup {NoEvent})
           /\ Len(ep.wait) = Len(ep.events) + 1 /\ DOMAIN ep.wait = 1 .. Len(ep.events) + 1
           /\ ep.index \in [PollFiles -> Nat] /\ ep.first_free \in Nat \ {0}
           /\ \A f \in PollFiles : ep.index[f] # 0 =>
                 ep.index[f] \in 1 .. Len(ep.events) /\ ep.events[ep.index[f]].file = f
           /\ \A i \in 1 .. Len(ep.events) :
                 /\ ep.wait[i + 1] = ep.events[i].file /\ ep.events[i] \in EpollSlots
                 /\ Used(i) => ep.index[ep.events[i].file] = i
                 /\ ~Used(i) => i >= ep.first_free
<1>1. /\ ep \in EpollRecords /\ ep.events \in Seq(EpollSlots)
      /\ ep.wait \in Seq(PollFiles \cup PollThreads \cup {NoEvent})
      /\ Len(ep.wait) = Len(ep.events) + 1
      /\ ep.index \in [PollFiles -> Nat] /\ ep.first_free \in Nat \ {0}
  BY DEF PollInv, EpollWell, EpollRecords
<1>2. /\ Len(ep.events) \in Nat /\ DOMAIN ep.events = 1 .. Len(ep.events)
      /\ DOMAIN ep.wait = 1 .. Len(ep.events) + 1
      /\ \A i \in 1 .. Len(ep.events) : ep.events[i] \in EpollSlots
  BY <1>1
<1>3. /\ \A f \in PollFiles : ep.index[f] # 0 =>
            ep.index[f] \in 1 .. Len(ep.events) /\ ep.events[ep.index[f]].file = f
      /\ \A i \in 1 .. Len(ep.events) :
            /\ ep.wait[i + 1] = ep.events[i].file
            /\ Used(i) => ep.index[ep.events[i].file] = i
            /\ ~Used(i) => i >= ep.first_free
  BY <1>2 DEF PollInv, EpollWell, EpollIndex
<1> QED BY <1>1, <1>2, <1>3

LEMMA EpollModKeeps ==
    ASSUME PollInv, NEW f \in PollFiles, NEW interest \in Interests(f), NEW et \in BOOLEAN,
           epoll_ctl_mod(f, interest, et)
    PROVE  PollInv'
<1> DEFINE i == ep.index[f]
           slot == [ep.events[i] EXCEPT !.interest = interest, !.et = et]
           ev1 == [ep.events EXCEPT ![i] = slot]
<1>1. /\ counter' = counter /\ sfd' = sfd /\ poller' = Stale(poller, {"epoll"})
      /\ ep' = [ep EXCEPT !.events[i] = slot] /\ i # 0
  BY DEF epoll_ctl_mod
<1>2. i \in 1 .. Len(ep.events) /\ ep.events[i] \in EpollSlots /\ ep.events[i].file = f
  BY <1>1, EpollFields
<1>3. slot \in EpollSlots /\ slot.file = f
  BY <1>2 DEF EpollSlots, Interests, PollBits
<1> HIDE DEF slot, i
<1>4. /\ ev1 \in Seq(EpollSlots) /\ Len(ev1) = Len(ep.events) /\ ev1[i] = slot
      /\ \A j \in 1 .. Len(ep.events) : j # i => ev1[j] = ep.events[j]
  BY <1>2, <1>3, EpollFields
<1> HIDE DEF ev1
<1>5. /\ ep' \in EpollRecords /\ ep'.events = ev1 /\ ep'.wait = ep.wait /\ ep'.index = ep.index
      /\ ep'.first_free = ep.first_free
  <2>1. ep' = [ep EXCEPT !.events = ev1] /\ ep \in EpollRecords
    BY <1>1, EpollFields DEF ev1, EpollRecords
  <2> QED BY <1>4, <2>1 DEF EpollRecords
<1>6. f # NoEvent
  BY PollAssumption
<1>7. OneSlot(i)
  <2>1. /\ Len(ep'.wait) = Len(ep'.events) + 1 /\ ep'.wait[i + 1] = slot.file /\ Len(ep.events) \in Nat
        /\ Len(ep'.events) = (IF i <= Len(ep.events) THEN Len(ep.events) ELSE i)
    <3>0. Len(ep.wait) = Len(ep.events) + 1 /\ Len(ep.events) \in Nat
      BY EpollFields
    <3>3. \A j \in 1 .. Len(ep.events) : ep.wait[j + 1] = ep.events[j].file
      BY EpollFields
    <3>1. /\ Len(ep.wait) = Len(ep.events) + 1 /\ Len(ep.events) \in Nat
          /\ ep.wait[i + 1] = ep.events[i].file
      BY <1>2, <3>0, <3>3, Zenon
    <3>2. i <= Len(ep.events)
      BY <1>2, <3>0
    <3> QED BY <1>2, <1>3, <1>4, <1>5, <3>1, <3>2
  <2>2. \A g \in PollFiles : ep.index[g] = i => g = f
    <3>1. \A g \in PollFiles : ep.index[g] # 0 => ep.events[ep.index[g]].file = g
      BY EpollFields
    <3>2. i # 0
      BY <1>2
    <3> QED BY <1>2, <3>1, <3>2, Zenon
  <2>3. \A j \in 1 .. Len(ep.events) : ~Used(j) => j >= ep.first_free
    BY EpollFields
  <2> QED BY <1>3, <1>4, <1>5, <1>6, <2>1, <2>2, <2>3 DEF OneSlot, i
<1>8. EpollWell'
  <2>1. i \in 1 .. Len(ep.events) + 1
    BY <1>2, EpollFields
  <2> QED BY <1>7, <2>1, EpollIndexed
<1>9. Callers'
  BY <1>1, <1>5, RegistrationsChange
<1> QED BY <1>1, <1>8, <1>9 DEF PollInv, FilesWell, EventFdBound

LEMMA EpollDelKeeps ==
    ASSUME PollInv, NEW f \in PollFiles, epoll_ctl_del(f)
    PROVE  PollInv'
<1> DEFINE i == ep.index[f]
           ev1 == [ep.events EXCEPT ![i] = FreeSlot]
           wt1 == [ep.wait EXCEPT ![i + 1] = NoEvent]
           index == [ep.index EXCEPT ![f] = 0]
           ff == FirstFree(i)
<1>1. /\ counter' = counter /\ sfd' = sfd /\ poller' = Stale(poller, {"epoll"}) /\ i # 0
      /\ ep' = [ep EXCEPT !.events[i] = FreeSlot, !.wait[i + 1] = NoEvent, !.index[f] = 0,
                          !.first_free = FirstFree(i)]
  BY DEF epoll_ctl_del
<1>2. /\ i \in 1 .. Len(ep.events) /\ ep.events[i] \in EpollSlots /\ ep.events[i].file = f
      /\ i \in Nat \ {0} /\ Len(ep.events) \in Nat
  BY <1>1, EpollFields
<1>3. FreeSlot \in EpollSlots /\ FreeSlot.file = NoEvent
  BY DEF FreeSlot, EpollSlots, PollBits
<1>4. ff \in Nat \ {0} /\ ff <= i /\ ff <= ep.first_free
  BY <1>2, EpollFields DEF FirstFree
<1>5. \A g \in PollFiles : index[g] = (IF g = f THEN 0 ELSE ep.index[g]) /\ index[g] \in Nat
  BY EpollFields
<1>6. index \in [PollFiles -> Nat]
  BY EpollFields
<1> HIDE DEF i, ff
<1>7. /\ ev1 \in Seq(EpollSlots) /\ Len(ev1) = Len(ep.events) /\ ev1[i] = FreeSlot
      /\ \A j \in 1 .. Len(ep.events) : j # i => ev1[j] = ep.events[j]
  BY <1>2, <1>3, EpollFields
<1>8. /\ wt1 \in Seq(PollFiles \cup PollThreads \cup {NoEvent}) /\ Len(wt1) = Len(ep.wait)
      /\ wt1[i + 1] = NoEvent /\ wt1[1] = ep.wait[1]
      /\ \A j \in 1 .. Len(ep.events) : j # i => wt1[j + 1] = ep.wait[j + 1]
  <2> DEFINE W == PollFiles \cup PollThreads \cup {NoEvent}
  <2>1. ep.wait \in Seq(W) /\ NoEvent \in W
    BY EpollFields
  <2>2. i + 1 \in 1 .. Len(ep.wait) /\ 1 \in 1 .. Len(ep.wait) /\ i + 1 # 1
    BY <1>2, EpollFields
  <2>3. \A j \in 1 .. Len(ep.events) : j # i => j + 1 \in 1 .. Len(ep.wait) /\ j + 1 # i + 1
    BY <1>2, EpollFields
  <2> HIDE DEF W
  <2>4. /\ wt1 \in Seq(W) /\ Len(wt1) = Len(ep.wait) /\ wt1[i + 1] = NoEvent
        /\ \A k \in 1 .. Len(ep.wait) : k # i + 1 => wt1[k] = ep.wait[k]
    BY <2>1, <2>2
  <2> QED BY <2>2, <2>3, <2>4 DEF W
<1>9. /\ ep' \in EpollRecords /\ ep'.events = ev1 /\ ep'.wait = wt1 /\ ep'.index = index
      /\ ep'.first_free = ff
  <2> HIDE DEF ev1, wt1, index
  <2>1. ep' = [ep EXCEPT !.events = ev1, !.wait = wt1, !.index = index, !.first_free = ff]
    <3>1. ep \in EpollRecords
      BY EpollFields
    <3> QED BY <1>1, <3>1 DEF ev1, wt1, index, ff, EpollRecords
  <2>2. ep \in EpollRecords
    BY EpollFields
  <2> QED BY <1>4, <1>6, <1>7, <1>8, <2>1, <2>2 DEF EpollRecords
<1> HIDE DEF ev1, wt1, index
<1>10. OneSlot(i)
  <2>1. /\ Len(ep'.wait) = Len(ep'.events) + 1 /\ ep'.wait[i + 1] = FreeSlot.file
        /\ Len(ep'.events) = (IF i <= Len(ep.events) THEN Len(ep.events) ELSE i)
    BY <1>2, <1>3, <1>7, <1>8, <1>9, EpollFields
  <2>2. \A g \in PollFiles : index[g] # i
    <3>1. \A g \in PollFiles : ep.index[g] = i => g = f
      BY <1>2, EpollFields
    <3> QED BY <1>2, <1>5, <3>1
  <2>3. \A j \in 1 .. Len(ep.events) : ~Used(j) => j >= ff
    <3>1. \A j \in 1 .. Len(ep.events) : ~Used(j) => j >= ep.first_free
      BY EpollFields
    <3>2. ep.first_free \in Nat
      BY EpollFields
    <3> QED BY <1>4, <1>2, <3>1, <3>2
  <2>4. \A g \in PollFiles : ep.index[g] # 0 /\ ep.index[g] # i => index[g] = ep.index[g]
    BY <1>5 DEF i
  <2>5. \A j \in 1 .. Len(ep'.events) : j # i =>
           ep'.events[j] = ep.events[j] /\ ep'.wait[j + 1] = ep.wait[j + 1]
    BY <1>7, <1>8, <1>9
  <2>6. i >= ff
    BY <1>2, <1>4
  <2> QED BY <1>3, <1>5, <1>7, <1>9, <2>1, <2>2, <2>3, <2>4, <2>5, <2>6 DEF OneSlot
<1>11. EpollWell'
  <2>1. i \in 1 .. Len(ep.events) + 1
    BY <1>2
  <2> QED BY <1>10, <2>1, EpollIndexed
<1>12. Callers'
  BY <1>1, <1>8, <1>9, RegistrationsChange
<1> QED BY <1>1, <1>11, <1>12 DEF PollInv, FilesWell, EventFdBound

\* A pass over the registrations changes what they remember, and nothing that
\* epoll_ctl or a sleeper relies on.
LEMMA EpollScanKeeps ==
    ASSUME PollInv, NEW w \in PollFiles \cup PollThreads \cup {NoEvent},
           ep' = EpollScanned([ep EXCEPT !.wait = [ep.wait EXCEPT ![1] = w]])
    PROVE  /\ EpollWell' /\ DOMAIN ep'.events = DOMAIN ep.events
           /\ \A i \in DOMAIN ep.events :
                 /\ ep'.events[i].file = ep.events[i].file /\ ep'.events[i].et = ep.events[i].et
                 /\ ep'.events[i].interest = ep.events[i].interest
           /\ ep'.wait[1] = w
           /\ \A i \in DOMAIN ep.events : ep'.wait[i + 1] = ep.events[i].file
           /\ \A i \in DOMAIN ep'.wait : i # 1 => i - 1 \in DOMAIN ep.events
<1> DEFINE n == Len(ep.events)
           wt1 == [ep.wait EXCEPT ![1] = w]
           scanned(i) == [ep.events[i] EXCEPT !.old = NewRevents(ep.events[i])]
           ev1 == [i \in 1 .. n |-> IF i \in EpollSeen /\ Used(i) THEN scanned(i) ELSE ep.events[i]]
<1>1. /\ ep \in EpollRecords /\ n \in Nat /\ DOMAIN ep.events = 1 .. n
      /\ Len(ep.wait) = n + 1 /\ \A i \in 1 .. n : ep.events[i] \in EpollSlots
      /\ ep.wait \in Seq(PollFiles \cup PollThreads \cup {NoEvent})
      /\ \A i \in 1 .. n : ep.wait[i + 1] = ep.events[i].file
  BY EpollFields
<1>2. ep' = [ep EXCEPT !.wait = wt1, !.events = ev1]
  BY <1>1 DEF EpollScanned, EpollRecords
<1>3. ASSUME NEW s \in EpollSlots
      PROVE  LET r == [s EXCEPT !.old = NewRevents(s)] IN
             r \in EpollSlots /\ r.file = s.file /\ r.et = s.et /\ r.interest = s.interest
  <2>1. NewRevents(s) \in SUBSET PollBits
    BY DEF NewRevents, EpollSlots
  <2> QED BY <2>1 DEF EpollSlots
<1>4. ASSUME NEW i \in 1 .. n
      PROVE  /\ ev1[i] \in EpollSlots /\ ev1[i].file = ep.events[i].file
             /\ ev1[i].et = ep.events[i].et /\ ev1[i].interest = ep.events[i].interest
  <2>1. ev1[i] = ep.events[i] \/ ev1[i] = scanned(i)
    OBVIOUS
  <2>2. ep.events[i] \in EpollSlots
    BY <1>1
  <2> QED BY <1>3, <2>1, <2>2
<1>5. ev1 \in Seq(EpollSlots) /\ Len(ev1) = n
  <2>1. DOMAIN ev1 = 1 .. n /\ ev1 = [i \in 1 .. n |-> ev1[i]]
    OBVIOUS
  <2> HIDE DEF ev1, n
  <2>2. ev1 \in [1 .. n -> EpollSlots]
    BY <1>4, <2>1
  <2>3. ev1 \in Seq(EpollSlots)
    BY <1>1, <2>2
  <2> QED BY <1>1, <2>1, <2>3
<1>6. /\ wt1 \in Seq(PollFiles \cup PollThreads \cup {NoEvent}) /\ Len(wt1) = n + 1
      /\ wt1[1] = w /\ \A i \in 1 .. n : wt1[i + 1] = ep.wait[i + 1]
  <2> DEFINE W == PollFiles \cup PollThreads \cup {NoEvent}
  <2>1. ep.wait \in Seq(W) /\ w \in W
    BY <1>1
  <2>2. 1 \in 1 .. Len(ep.wait) /\ \A i \in 1 .. n : i + 1 \in 1 .. Len(ep.wait) /\ i + 1 # 1
    BY <1>1
  <2> HIDE DEF W
  <2>3. /\ wt1 \in Seq(W) /\ Len(wt1) = Len(ep.wait) /\ wt1[1] = w
        /\ \A k \in 1 .. Len(ep.wait) : k # 1 => wt1[k] = ep.wait[k]
    BY <2>1, <2>2
  <2> QED BY <1>1, <2>2, <2>3 DEF W
<1> HIDE DEF ev1, wt1
<1>7. /\ ep' \in EpollRecords /\ ep'.events = ev1 /\ ep'.wait = wt1 /\ ep'.index = ep.index
      /\ ep'.first_free = ep.first_free
  BY <1>1, <1>2, <1>5, <1>6 DEF EpollRecords
<1>8. DOMAIN ev1 = 1 .. n /\ DOMAIN wt1 = 1 .. n + 1
  BY <1>5, <1>6
<1>9. EpollIndex'
  <2>1. /\ \A f \in PollFiles : ep.index[f] # 0 => ep.index[f] \in 1 .. n /\ ep.events[ep.index[f]].file = f
        /\ \A i \in 1 .. n : /\ ep.events[i].file # NoEvent => ep.index[ep.events[i].file] = i
                             /\ ep.events[i].file = NoEvent => i >= ep.first_free
    BY EpollFields DEF Used
  <2>2. \A f \in PollFiles : ep.index[f] # 0 => ev1[ep.index[f]].file = f
    BY <1>4, <2>1
  <2>3. \A i \in 1 .. n : /\ wt1[i + 1] = ev1[i].file
                          /\ ev1[i].file # NoEvent => ep.index[ev1[i].file] = i
                          /\ ev1[i].file = NoEvent => i >= ep.first_free
    BY <1>1, <1>4, <1>6, <2>1
  <2>4. \A f \in PollFiles : ep'.index[f] # 0 => ep'.events[ep'.index[f]].file = f
    BY <1>7, <2>2
  <2>5. \A i \in DOMAIN ep'.events :
           /\ ep'.wait[i + 1] = ep'.events[i].file
           /\ ep'.events[i].file # NoEvent => ep'.index[ep'.events[i].file] = i
           /\ ep'.events[i].file = NoEvent => i >= ep'.first_free
    BY <1>7, <1>8, <2>3
  <2> QED BY <2>4, <2>5 DEF EpollIndex, Used
<1>10. EpollWell'
  <2>1. \A f \in PollFiles : ep.index[f] # 0 => ep.index[f] \in 1 .. n
    BY EpollFields
  <2> QED BY <1>5, <1>6, <1>7, <1>8, <1>9, <2>1 DEF EpollWell
<1>11. \A i \in DOMAIN ep'.wait : i # 1 => i - 1 \in DOMAIN ep.events
  BY <1>1, <1>7, <1>8
<1> QED BY <1>1, <1>4, <1>6, <1>7, <1>8, <1>10, <1>11

\* A pass by another thread does no harm to the call of u.
LEMMA ScanOthers ==
    ASSUME PollInv, NEW w \in PollFiles \cup PollThreads \cup {NoEvent},
           counter' = counter, sfd' = sfd,
           ep' = EpollScanned([ep EXCEPT !.wait = [ep.wait EXCEPT ![1] = w]]),
           NEW u \in PollThreads, Marked(poller[u], poller'[u]),
           poller[u].call = "epoll" => poller'[u].shared \/ w = ep.wait[1]
    PROVE  CallKept(u)
<1>1. CASE poller[u].call # "epoll"
  BY <1>1, OutsideEpoll
<1>2. CASE poller[u].call = "epoll"
  <2> DEFINE p == poller[u]
             q == poller'[u]
  <2>1. CallWell(u, p) /\ Listening(p) /\ Entered(u, p) /\ Patient(p)
    BY DEF PollInv, Callers
  <2>2. CallWell(u, poller[u])'
    <3>1. CallWell(u, q)
      BY <2>1, MarkedWell
    <3> QED BY <3>1 DEF CallWell
  <2>3. /\ DOMAIN ep'.events = DOMAIN ep.events /\ ep'.wait[1] = w
        /\ \A i \in DOMAIN ep.events :
              /\ ep'.events[i].file = ep.events[i].file /\ ep'.events[i].et = ep.events[i].et
              /\ ep'.events[i].interest = ep.events[i].interest
    BY EpollScanKeeps
  <2>4. /\ q.call = "epoll" /\ q.on = p.on /\ q.timer = p.timer /\ (p.woken => q.woken)
        /\ (p.stale => q.stale) /\ (p.shared => q.shared)
    BY <1>2 DEF Marked
  <2>5. Listening(poller[u])'
    BY <1>2, <2>1, <2>3, <2>4 DEF Listening, Used
  <2>6. Entered(u, poller[u])'
    BY <1>2, <2>1, <2>3, <2>4 DEF Entered
  <2>7. Patient(poller[u])'
    <3>1. \A i \in DOMAIN ep.events : NewRevents(ep.events[i])' = NewRevents(ep.events[i])
      <4>1. \A f : Bits(f)' = Bits(f)
        BY DEF Bits
      <4>2. ASSUME NEW i \in DOMAIN ep.events PROVE NewRevents(ep.events[i])' = NewRevents(ep.events[i])
        <5>1. NewRevents(ep.events[i])' = Bits(ep.events[i].file)' \cap ep'.events[i].interest
          BY DEF NewRevents
        <5>2. Bits(ep.events[i].file)' = Bits(ep.events[i].file)
          BY <2>3 DEF Bits
        <5> QED BY <2>3, <5>1, <5>2 DEF NewRevents
      <4> QED BY <4>2
    <3>2. ~q.woken /\ ~q.stale => \A i \in DOMAIN ep.events :
             ep.events[i].file # NoEvent /\ ~ep.events[i].et => NewRevents(ep.events[i]) = {}
      BY <1>2, <2>1, <2>4 DEF Patient, Used
    <3>3. ~q.woken /\ ~q.stale => \A i \in DOMAIN ep'.events :
             ep'.events[i].file # NoEvent /\ ~ep'.events[i].et => NewRevents(ep.events[i])' = {}
      BY <2>3, <3>1, <3>2
    <3> QED BY <2>4, <3>3 DEF Patient, Used
  <2> QED BY <2>2, <2>5, <2>6, <2>7 DEF CallKept
<1> QED BY <1>1, <1>2

LEMMA EntryPlaces ==
    ASSUME NEW e \in EpollRecords, Len(e.wait) = Len(e.events) + 1
    PROVE  1 \in DOMAIN e.wait /\ \A i \in DOMAIN e.events : i + 1 \in DOMAIN e.wait
<1>1. /\ e.events \in Seq(EpollSlots)
      /\ e.wait \in Seq(PollFiles \cup PollThreads \cup {NoEvent})
  BY DEF EpollRecords
<1>2. /\ DOMAIN e.events = 1 .. Len(e.events) /\ Len(e.events) \in Nat
      /\ DOMAIN e.wait = 1 .. Len(e.events) + 1
  BY <1>1
<1> QED BY <1>2

\* epoll_wait sleeps, or sleeps again, only when no registration is ready, and listens
\* to all that are registered then, and to its timer.
LEMMA ScanSleeper ==
    ASSUME PollInv, NEW t \in PollThreads, NEW w \in PollFiles \cup PollThreads \cup {NoEvent},
           counter' = counter, sfd' = sfd, EpollReady = {},
           ep' = EpollScanned([ep EXCEPT !.wait = [ep.wait EXCEPT ![1] = w]]),
           poller'[t] \in PollCalls, poller'[t].call = "epoll", poller'[t].timer # "fired",
           poller'[t].on = {ep'.wait[i] : i \in DOMAIN ep'.wait} \ {NoEvent},
           poller'[t].timer # "off" /\ ~poller'[t].shared => w = t
    PROVE  CallKept(t)
<1> DEFINE q == poller'[t]
<1>1. /\ DOMAIN ep'.events = DOMAIN ep.events /\ ep'.wait[1] = w
      /\ \A i \in DOMAIN ep.events :
            /\ ep'.events[i].file = ep.events[i].file /\ ep'.events[i].et = ep.events[i].et
            /\ ep'.events[i].interest = ep.events[i].interest
            /\ ep'.wait[i + 1] = ep.events[i].file
      /\ EpollWell'
  BY EpollScanKeeps
<1>2. /\ 1 \in DOMAIN ep'.wait /\ \A i \in DOMAIN ep'.events : i + 1 \in DOMAIN ep'.wait
  BY <1>1, EntryPlaces DEF EpollWell
<1>3. t # NoEvent
  BY PollAssumption
<1>4. CallWell(t, poller[t])'
  <2>1. q.timer # "off" /\ ~q.shared => t \in q.on
    BY <1>1, <1>2, <1>3
  <2> QED BY <2>1 DEF CallWell
<1>5. Listening(poller[t])'
  BY <1>1, <1>2 DEF Listening, Used
<1>6. Entered(t, poller[t])'
  BY <1>1 DEF Entered
<1>7. Patient(poller[t])'
  <2>1. ASSUME NEW i \in DOMAIN ep.events, ep.events[i].file # NoEvent, ~ep.events[i].et
        PROVE  NewRevents(ep.events[i])' = {}
    <3>1. NewRevents(ep.events[i]) = {}
      BY <2>1 DEF EpollReady, Used
    <3>2. NewRevents(ep.events[i])' = Bits(ep.events[i].file)' \cap ep'.events[i].interest
      BY DEF NewRevents
    <3>3. Bits(ep.events[i].file)' = Bits(ep.events[i].file)
      BY <1>1 DEF Bits
    <3> QED BY <1>1, <3>1, <3>2, <3>3 DEF NewRevents
  <2>2. \A i \in DOMAIN ep'.events :
           ep'.events[i].file # NoEvent /\ ~ep'.events[i].et => NewRevents(ep.events[i])' = {}
    BY <1>1, <2>1
  <2> QED BY <2>2 DEF Patient, Used
<1> QED BY <1>4, <1>5, <1>6, <1>7 DEF CallKept

\* A second thread in the same epoll marks the first one.
LEMMA SharingMarks ==
    ASSUME PollInv, NEW t \in PollThreads
    PROVE  /\ Sharing(t) \in [PollThreads -> PollCalls] /\ Sharing(t)[t] = poller[t]
           /\ \A u \in PollThreads : u # t =>
                 /\ Marked(poller[u], Sharing(t)[u])
                 /\ poller[u].call = "epoll" => Sharing(t)[u].shared
<1>1. \A u \in PollThreads : poller[u] \in PollCalls
  BY DEF PollInv, Callers, CallWell
<1>2. \A p \in PollCalls : [p EXCEPT !.shared = TRUE] \in PollCalls /\ [p EXCEPT !.shared = TRUE].shared
  BY DEF PollCalls
<1>3. ASSUME NEW u \in PollThreads, u # t
      PROVE  Marked(poller[u], Sharing(t)[u]) /\ (poller[u].call = "epoll" => Sharing(t)[u].shared)
  <2>1. CASE poller[u].call = "epoll"
    <3>1. Sharing(t)[u] = [poller[u] EXCEPT !.shared = TRUE]
      BY <1>3, <2>1 DEF Sharing
    <3> QED BY <1>1, <1>2, <2>1, <3>1, MarkedMore
  <2>2. CASE poller[u].call # "epoll"
    <3>1. Sharing(t)[u] = poller[u]
      BY <2>2 DEF Sharing
    <3> QED BY <1>1, <2>2, <3>1, MarkedSame
  <2> QED BY <2>1, <2>2
<1>4. Sharing(t) \in [PollThreads -> PollCalls] /\ Sharing(t)[t] = poller[t]
  BY <1>1, <1>2 DEF Sharing
<1> QED BY <1>3, <1>4

LEMMA EpollWaitKeeps ==
    ASSUME PollInv, NEW t \in PollThreads, NEW timer \in {"off", "armed"}, epoll_wait(t, timer)
    PROVE  PollInv'
<1> DEFINE w == IF timer = "off" THEN NoEvent ELSE t
           wait == [ep.wait EXCEPT ![1] = w]
<1>1. /\ counter' = counter /\ sfd' = sfd /\ poller[t].call = "idle"
      /\ ep' = EpollScanned([ep EXCEPT !.wait = [ep.wait EXCEPT ![1] = w]])
  BY DEF epoll_wait
<1>2. w \in PollFiles \cup PollThreads \cup {NoEvent} /\ (timer # "off" => w = t)
  OBVIOUS
<1>3. EpollWell' /\ ep'.wait = wait
  <2>1. EpollWell'
    BY <1>1, <1>2, EpollScanKeeps
  <2>2. ep'.wait = wait
    <3>1. ep \in EpollRecords
      BY EpollFields
    <3> QED BY <1>1, <3>1 DEF EpollScanned, EpollRecords
  <2> QED BY <2>1, <2>2
<1>4. ASSUME NEW u \in PollThreads, u # t, poller'[u] = Sharing(t)[u] PROVE CallKept(u)
  <2>1. Marked(poller[u], poller'[u]) /\ (poller[u].call = "epoll" => poller'[u].shared)
    BY <1>4, SharingMarks
  <2> HIDE DEF w
  <2> QED BY <1>1, <1>2, <2>1, ScanOthers
<1>5. CASE EpollReady # {}
  <2>1. poller' = Sharing(t)
    BY <1>5 DEF epoll_wait
  <2>2. poller'[t] = NoCall
    BY <1>1, <2>1, SharingMarks DEF PollInv, Callers, CallWell
  <2>3. CallKept(t)
    BY <2>2, CallOver
  <2>4. poller' = [u \in PollThreads |-> poller'[u]]
    BY <2>1, SharingMarks
  <2>5. Callers'
    BY <1>4, <2>1, <2>3, <2>4, CallersKept
  <2> QED BY <1>1, <1>3, <2>5 DEF PollInv, FilesWell, EventFdBound
<1>6. CASE EpollReady = {}
  <2> DEFINE shared == \E u \in PollThreads : poller[u].call = "epoll"
             p == [NoCall EXCEPT !.call = "epoll", !.timer = timer, !.shared = shared]
             on == {wait[i] : i \in DOMAIN wait} \ {NoEvent}
             q == [p EXCEPT !.on = on, !.woken = FALSE, !.stale = FALSE]
  <2>1. poller' = [Sharing(t) EXCEPT ![t] = q]
    BY <1>6 DEF epoll_wait, EpollSleeps
  <2>2. on \in SUBSET (PollFiles \cup PollThreads)
    <3>1. ep'.wait \in Seq(PollFiles \cup PollThreads \cup {NoEvent})
      BY <1>3 DEF EpollWell, EpollRecords
    <3>2. \A i \in DOMAIN ep'.wait : ep'.wait[i] \in PollFiles \cup PollThreads \cup {NoEvent}
      BY <3>1
    <3> QED BY <1>3, <3>2
  <2>3. on = {ep'.wait[i] : i \in DOMAIN ep'.wait} \ {NoEvent}
    BY <1>3
  <2>4. shared \in BOOLEAN
    OBVIOUS
  <2> HIDE DEF on, shared, wait, w
  <2>5. p \in PollCalls /\ p.call = "epoll" /\ p.timer = timer
    BY <2>4 DEF NoCall, PollCalls
  <2> HIDE DEF p
  <2>6. q \in PollCalls /\ q.call = "epoll" /\ q.timer = timer /\ q.on = on
    BY <2>2, <2>5 DEF PollCalls
  <2> HIDE DEF q
  <2>7. /\ poller'[t] = q /\ poller' = [u \in PollThreads |-> poller'[u]]
        /\ \A u \in PollThreads : u # t => poller'[u] = Sharing(t)[u]
    BY <2>1, SharingMarks
  <2>8. CallKept(t)
    BY <1>1, <1>2, <1>6, <2>3, <2>6, <2>7, ScanSleeper
  <2>9. Callers'
    BY <1>4, <2>7, <2>8, CallersKept
  <2> QED BY <1>1, <1>3, <2>9 DEF PollInv, FilesWell, EventFdBound
<1> QED BY <1>5, <1>6

LEMMA EpollResumeKeeps ==
    ASSUME PollInv, NEW t \in PollThreads, epoll_resume(t)
    PROVE  PollInv'
<1> DEFINE w == ep.wait[1]
           p == poller[t]
<1>1. /\ counter' = counter /\ sfd' = sfd /\ p.call = "epoll" /\ CallWell(t, p) /\ Entered(t, p)
      /\ p \in PollCalls
  BY DEF epoll_resume, PollInv, Callers, CallWell
<1>2. CASE p.timer = "fired"
  <2>1. poller' = [poller EXCEPT ![t] = NoCall] /\ ep' = ep
    BY <1>2 DEF epoll_resume
  <2>2. poller'[t] = NoCall
    BY <2>1 DEF PollInv, Callers
  <2>3. Callers'
    BY <1>1, <2>1, <2>2, CallOver, BitsKept, OneCaller
  <2> QED BY <1>1, <2>1, <2>3, EpollStays DEF PollInv, FilesWell, EventFdBound
<1>3. CASE p.timer # "fired"
  <2>1. w \in PollFiles \cup PollThreads \cup {NoEvent} /\ ep = [ep EXCEPT !.wait = [ep.wait EXCEPT ![1] = w]]
    <3>1. ep \in EpollRecords /\ ep.wait \in Seq(PollFiles \cup PollThreads \cup {NoEvent})
          /\ 1 \in DOMAIN ep.wait
      BY EpollFields, EntryPlaces
    <3>2. ep.wait = [ep.wait EXCEPT ![1] = w] /\ w \in PollFiles \cup PollThreads \cup {NoEvent}
      BY <3>1
    <3>3. ep = [ep EXCEPT !.wait = ep.wait]
      BY <3>1 DEF EpollRecords
    <3> QED BY <3>2, <3>3
  <2>2. ep' = EpollScanned(ep)
    BY <1>3 DEF epoll_resume
  <2>3. ep' = EpollScanned([ep EXCEPT !.wait = [ep.wait EXCEPT ![1] = w]])
    BY <2>1, <2>2
  <2> HIDE DEF w
  <2>4. EpollWell'
    BY <2>1, <2>3, EpollScanKeeps
  <2>5. ep'.wait = ep.wait
    <3>1. ep \in EpollRecords
      BY EpollFields
    <3> QED BY <2>2, <3>1 DEF EpollScanned, EpollRecords
  <2>6. ASSUME NEW u \in PollThreads, u # t, poller'[u] = Sharing(t)[u] \/ poller'[u] = poller[u]
        PROVE  CallKept(u)
    <3>1. Marked(poller[u], poller'[u])
      <4>1. poller[u] \in PollCalls
        BY DEF PollInv, Callers, CallWell
      <4> QED BY <2>6, <4>1, SharingMarks, MarkedSame
    <3> QED BY <1>1, <2>1, <2>3, <3>1, ScanOthers DEF w
  <2>7. CASE EpollReady # {}
    <3>1. poller' = [poller EXCEPT ![t] = NoCall]
      BY <1>3, <2>7 DEF epoll_resume
    <3>2. /\ poller'[t] = NoCall /\ poller' = [u \in PollThreads |-> poller'[u]]
          /\ \A u \in PollThreads : u # t => poller'[u] = poller[u]
      BY <3>1 DEF PollInv, Callers
    <3>3. Callers'
      BY <2>6, <3>2, CallOver, CallersKept
    <3> QED BY <1>1, <2>4, <3>3 DEF PollInv, FilesWell, EventFdBound
  <2>8. CASE EpollReady = {}
    <3> DEFINE wait == ep.wait
               on == {wait[i] : i \in DOMAIN wait} \ {NoEvent}
               q == [p EXCEPT !.on = on, !.woken = FALSE, !.stale = FALSE]
    <3>1. poller' = [Sharing(t) EXCEPT ![t] = q]
      BY <1>3, <2>8 DEF epoll_resume, EpollSleeps
    <3>2. on \in SUBSET (PollFiles \cup PollThreads)
      <4>1. \A i \in DOMAIN ep.wait : ep.wait[i] \in PollFiles \cup PollThreads \cup {NoEvent}
        BY EpollFields
      <4> QED BY <4>1
    <3>3. on = {ep'.wait[i] : i \in DOMAIN ep'.wait} \ {NoEvent}
      BY <2>5
    <3> HIDE DEF on
    <3>4. q \in PollCalls /\ q.call = "epoll" /\ q.timer = p.timer /\ q.on = on /\ q.shared = p.shared
      BY <1>1, <3>2 DEF PollCalls
    <3> HIDE DEF q
    <3>5. /\ poller'[t] = q /\ poller' = [u \in PollThreads |-> poller'[u]]
          /\ \A u \in PollThreads : u # t => poller'[u] = Sharing(t)[u]
      BY <3>1, SharingMarks
    <3>6. p.timer # "off" /\ ~p.shared => w = t
      BY <1>1 DEF Entered, w
    <3>7. CallKept(t)
      BY <1>1, <1>3, <2>1, <2>3, <2>8, <3>3, <3>4, <3>5, <3>6, ScanSleeper
    <3>8. Callers'
      BY <2>6, <3>5, <3>7, CallersKept
    <3> QED BY <1>1, <2>4, <3>8 DEF PollInv, FilesWell, EventFdBound
  <2> QED BY <2>7, <2>8
<1> QED BY <1>2, <1>3
-----------------------------------------------------------------------------
LEMMA PollNextKeeps ==
    ASSUME PollInv, PollNext PROVE PollInv'
<1>1. CASE FileCalls
  <2>1. ASSUME NEW t \in PollThreads, NEW f \in EventFds, NEW b \in BOOLEAN, eventfd_read(t, f, b)
        PROVE  PollInv'
    BY <2>1, EventfdReadKeeps
  <2>2. ASSUME NEW t \in PollThreads, NEW f \in EventFds, NEW n \in Adds, eventfd_write(t, f, n)
        PROVE  PollInv'
    BY <2>2, EventfdWriteKeeps
  <2>3. ASSUME NEW t \in PollThreads, NEW n \in 1 .. 2, signalfd_read(t, n) PROVE PollInv'
    BY <2>3, SignalfdReadKeeps
  <2>4. ASSUME NEW t \in PollThreads, poll_timer_fires(t) PROVE PollInv'
    BY <2>4, TimerFiresKeeps
  <2>5. ASSUME NEW t \in PollThreads, poll_interrupted(t) PROVE PollInv'
    BY <2>5, InterruptedKeeps
  <2>6. ASSUME NEW s \in PollSignals, signal_arrives(s) PROVE PollInv'
    BY <2>6, SignalArrivesKeeps
  <2>7. ASSUME NEW m \in PollMasks, signalfd_mask(m) PROVE PollInv'
    BY <2>7, SignalfdMaskKeeps
  <2>8. ASSUME NEW f \in PollFiles, poll_close(f) PROVE PollInv'
    BY <2>8, PollStaysSame DEF poll_close
  <2> QED BY <1>1, <2>1, <2>2, <2>3, <2>4, <2>5, <2>6, <2>7, <2>8 DEF FileCalls
<1>2. CASE PpollCalls
  BY <1>2, PpollKeeps, PpollResumeKeeps DEF PpollCalls
<1>3. CASE EpollCalls
  <2>1. ASSUME NEW t \in PollThreads, NEW timer \in {"off", "armed"}, epoll_wait(t, timer)
        PROVE  PollInv'
    BY <2>1, EpollWaitKeeps
  <2>2. ASSUME NEW t \in PollThreads, epoll_resume(t) PROVE PollInv'
    BY <2>2, EpollResumeKeeps
  <2>3. ASSUME NEW f \in PollFiles, NEW i \in Interests(f), NEW et \in BOOLEAN, epoll_ctl_add(f, i, et)
        PROVE  PollInv'
    BY <2>3, EpollAddKeeps
  <2>4. ASSUME NEW f \in PollFiles, NEW i \in Interests(f), NEW et \in BOOLEAN, epoll_ctl_mod(f, i, et)
        PROVE  PollInv'
    BY <2>4, EpollModKeeps
  <2>5. ASSUME NEW f \in PollFiles, epoll_ctl_del(f) PROVE PollInv'
    BY <2>5, EpollDelKeeps
  <2> QED BY <1>3, <2>1, <2>2, <2>3, <2>4, <2>5 DEF EpollCalls
<1> QED BY <1>1, <1>2, <1>3 DEF PollNext

LEMMA PollInvSafe ==
    ASSUME PollInv PROVE PollSafe
<1>1. PollStranded
  BY DEF PollInv, Callers, Patient, PollStranded, Sleeps
<1>2. PollTimeout
  BY DEF PollInv, Callers, CallWell, PollTimeout, Sleeps
<1> QED BY <1>1, <1>2 DEF PollInv, FilesWell, EpollWell, PollSafe

\* Through every interleaving of eventfd, signalfd, ppoll and epoll calls, timers,
\* signals and closes: the index of epoll is sound, nobody sleeps for what is there
\* or past a timeout, and no counter passes its limit (epoll.cpp, eventfd.cpp,
\* signalfd.cpp, ppoll in vfs.cpp); for any files, threads and limits.
THEOREM WaitersSafe == PollSpec => []PollSafe
<1>1. PollInit => PollInv
  BY PollInitInv
<1>2. PollInv /\ [PollNext]_poll_vars => PollInv'
  <2>1. CASE UNCHANGED poll_vars
    BY <2>1, PollStaysSame DEF poll_vars
  <2> QED BY <2>1, PollNextKeeps
<1>3. PollInv => PollSafe
  BY PollInvSafe
<1> QED BY <1>1, <1>2, <1>3, PTL DEF PollSpec

-----------------------------------------------------------------------------
\* The bytes of a sender from the one after r on, n of them.
Counted(r, n) == [i \in 1 .. n |-> r + i]

LEMMA CountedIs ==
    ASSUME NEW r \in Nat, NEW n \in Nat
    PROVE  /\ Counted(r, n) \in Seq(Nat \ {0}) /\ Len(Counted(r, n)) = n
           /\ Counted(r, n) # NoRing
<1>1. Counted(r, n) \in [1 .. n -> Nat \ {0}]
  BY DEF Counted
<1>2. Counted(r, n) \in Seq(Nat \ {0})
  BY <1>1
<1>3. Len(Counted(r, n)) = n
  BY <1>1, <1>2
<1>4. NoRing[1] = 0 /\ DOMAIN NoRing = 1 .. 1
  BY DEF NoRing
<1>5. ASSUME Counted(r, n) = NoRing PROVE FALSE
  <2>1. 1 \in DOMAIN Counted(r, n)
    BY <1>4, <1>5
  <2>2. Counted(r, n)[1] \in Nat \ {0}
    BY <1>1, <2>1
  <2> QED BY <1>4, <1>5, <2>2
<1> QED BY <1>2, <1>3, <1>5

\* A read of k bytes leaves those after them.
LEMMA CountedRest ==
    ASSUME NEW r \in Nat, NEW n \in Nat, NEW k \in 0 .. n
    PROVE  Rest(Counted(r, n), k) = Counted(r + k, n - k)
<1> DEFINE c == Counted(r, n)
           d == Counted(r + k, n - k)
<1>1. c \in Seq(Nat \ {0}) /\ Len(c) = n
  BY CountedIs
<1>2. r + k \in Nat /\ n - k \in Nat
  OBVIOUS
<1>3. d \in Seq(Nat \ {0}) /\ Len(d) = n - k
  BY <1>2, CountedIs
<1>4. /\ Rest(c, k) \in Seq(Nat \ {0}) /\ Len(Rest(c, k)) = n - k
      /\ \A i \in 1 .. n - k : Rest(c, k)[i] = c[k + i]
  <2>1. Rest(c, k) = SubSeq(c, k + 1, n)
    BY <1>1 DEF Rest
  <2> HIDE DEF c
  <2>2. k + 1 \in 1 .. n + 1
    OBVIOUS
  <2> QED BY <1>1, <2>1, <2>2, SubSeqProperties
<1>5. \A i \in 1 .. n - k : c[k + i] = r + k + i /\ d[i] = r + k + i
  BY DEF Counted
<1> HIDE DEF c, d
<1>6. \A i \in 1 .. n - k : Rest(c, k)[i] = d[i]
  BY <1>4, <1>5
<1>7. Rest(c, k) = d
  BY <1>3, <1>4, <1>6, SeqEqual
<1> QED BY <1>7 DEF c, d

\* A write of k bytes puts the next ones behind.
LEMMA CountedMore ==
    ASSUME NEW r \in Nat, NEW n \in Nat, NEW k \in Nat
    PROVE  Counted(r, n) \o Counted(r + n, k) = Counted(r, n + k)
<1> DEFINE c == Counted(r, n)
           d == Counted(r + n, k)
           e == Counted(r, n + k)
<1>1. /\ c \in Seq(Nat \ {0}) /\ Len(c) = n /\ d \in Seq(Nat \ {0}) /\ Len(d) = k
      /\ e \in Seq(Nat \ {0}) /\ Len(e) = n + k
  <2>1. r + n \in Nat /\ n + k \in Nat
    OBVIOUS
  <2> QED BY <2>1, CountedIs
<1>2. /\ \A i \in 1 .. n : c[i] = r + i
      /\ \A i \in 1 .. k : d[i] = r + n + i
      /\ \A i \in 1 .. n + k : e[i] = r + i
  BY DEF Counted
<1> HIDE DEF c, d, e
<1>3. c \o d \in Seq(Nat \ {0}) /\ Len(c \o d) = n + k
  <2> DEFINE S == Nat \ {0}
  <2>1. c \in Seq(S) /\ d \in Seq(S)
    BY <1>1
  <2> HIDE DEF S
  <2>2. c \o d \in Seq(S) /\ Len(c \o d) = Len(c) + Len(d)
    BY <2>1
  <2> QED BY <1>1, <2>2 DEF S
<1>4. ASSUME NEW i \in 1 .. n + k PROVE (c \o d)[i] = e[i]
  <2>1. CASE i <= n
    BY <1>1, <1>2, <2>1
  <2>2. CASE i > n
    <3>1. i - n \in 1 .. k /\ n + (i - n) = i
      BY <2>2
    <3>2. (c \o d)[i] = d[i - n]
      <4> DEFINE S == Nat \ {0}
      <4>1. c \in Seq(S) /\ d \in Seq(S)
        BY <1>1
      <4> HIDE DEF S
      <4>2. \A j \in 1 .. Len(c) + Len(d) : (c \o d)[j] =
                     IF j <= Len(c) THEN c[j] ELSE d[j - Len(c)]
        BY <4>1, ConcatProperties
      <4>3. i \in 1 .. Len(c) + Len(d) /\ ~(i <= Len(c)) /\ Len(c) = n
        BY <1>1, <2>2
      <4> QED BY <4>2, <4>3, Zenon
    <3> QED BY <1>2, <3>1, <3>2
  <2>3. i <= n \/ i > n
    OBVIOUS
  <2> QED BY <2>1, <2>2, <2>3
<1>5. c \o d = e
  BY <1>1, <1>3, <1>4, SeqEqual
<1> QED BY <1>5 DEF c, d, e

SockRings == {r \in Seq(Nat \ {0}) : Len(r) <= RingCapacity} \cup {NoRing}
SockRecords == [open : BOOLEAN, peer : Socks \cup {NoPeer}, ring : SockRings, pending : Nat,
                sent : Nat, received : Nat, tangled : BOOLEAN]
SockCalls == [in : {"idle", "receives", "received"},
              out : {"idle", "connects", "connected", "sends", "sent"}]
SockTypes ==
    /\ sock \in [Socks -> SockRecords] /\ sock_call \in [Socks -> SockCalls]
    /\ sock_listen \in [max_pending : Nat, list : Seq(SockClients),
                        acceptor : {"idle", "asleep", "woken"}]

\* Two sockets that are connected, and neither of which was ever connected again, or
\* closed, before the last connect was over.
Tied(s) == /\ sock[s].open /\ ~sock[s].tangled /\ sock[s].peer # NoPeer
           /\ ~sock[sock[s].peer].tangled

\* What an open socket points to points back.
Mutual == \A s \in Socks :
    sock[s].open /\ sock[s].peer # NoPeer /\ ~sock[sock[s].peer].tangled =>
        sock[sock[s].peer].open /\ sock[sock[s].peer].peer = s
\* A connected socket has its ring; one without has moved no byte.
Ringed == \A s \in Socks : sock[s].open =>
    /\ sock[s].peer # NoPeer => sock[s].ring # NoRing
    /\ sock[s].ring = NoRing => sock[s].sent = 0 /\ sock[s].received = 0
\* No call sleeps in a closed socket.
ClosedIdle == \A s \in Socks :
    ~sock[s].open => sock_call[s].in = "idle" /\ sock_call[s].out = "idle"
\* A socket that waits to be accepted is there once, and was never connected.
Waiting ==
    ~sock_crashed =>
        /\ \A i, j \in DOMAIN sock_listen.list : sock_listen.list[i] = sock_listen.list[j] => i = j
        /\ \A i \in DOMAIN sock_listen.list : ~sock[sock_listen.list[i]].tangled =>
              sock[sock_listen.list[i]].open /\ sock[sock_listen.list[i]].ring = NoRing
Streams == \A s \in Socks : Tied(s) =>
    /\ sock[s].received <= sock[sock[s].peer].sent
    /\ sock[s].ring = Counted(sock[s].received, sock[sock[s].peer].sent - sock[s].received)
Sleepers == \A s \in Socks : Tied(s) =>
    /\ sock_call[s].in = "receives" => sock[s].ring = <<>>
    /\ sock_call[s].out = "sends" => Len(sock[sock[s].peer].ring) = RingCapacity
    /\ sock_call[s].out # "connects"
Acceptor == sock_listen.acceptor = "asleep" => sock_listen.list = <<>>
StreamInv == /\ SockTypes /\ Mutual /\ Ringed /\ ClosedIdle /\ Waiting
             /\ Streams /\ Sleepers /\ Acceptor

LEMMA SockRecordOf ==
    ASSUME NEW o \in BOOLEAN, NEW p \in Socks \cup {NoPeer}, NEW r \in SockRings, NEW w \in Nat,
           NEW m \in Nat, NEW n \in Nat, NEW k \in BOOLEAN
    PROVE  [open |-> o, peer |-> p, ring |-> r, pending |-> w, sent |-> m, received |-> n,
            tangled |-> k] \in SockRecords
<1> DEFINE P == Socks \cup {NoPeer}
<1>1. p \in P
  OBVIOUS
<1> HIDE DEF P
<1>2. [open |-> o, peer |-> p, ring |-> r, pending |-> w, sent |-> m, received |-> n,
       tangled |-> k] \in [open : BOOLEAN, peer : P, ring : SockRings, pending : Nat,
                           sent : Nat, received : Nat, tangled : BOOLEAN]
  BY <1>1
<1> QED BY <1>2 DEF P, SockRecords

LEMMA StreamInitInv ==
    ASSUME LocalSocketInit PROVE StreamInv
<1>1. NoRing \in SockRings /\ RingCapacity \in Nat
  BY LocalSocketAssumption DEF SockRings
<1>2. \A s \in Socks : /\ sock[s] \in SockRecords /\ sock[s].peer = NoPeer /\ sock[s].sent = 0
                       /\ sock[s].received = 0 /\ ~sock[s].tangled
                       /\ sock[s].ring = NoRing
                       /\ sock_call[s].in = "idle" /\ sock_call[s].out = "idle"
  <2> SUFFICES ASSUME NEW s \in Socks
               PROVE  /\ sock[s] \in SockRecords /\ sock[s].peer = NoPeer /\ sock[s].sent = 0
                      /\ sock[s].received = 0 /\ ~sock[s].tangled
                      /\ sock[s].ring = NoRing
                      /\ sock_call[s].in = "idle" /\ sock_call[s].out = "idle"
    OBVIOUS
  <2> DEFINE b == s \in SockClients
  <2>1. b \in BOOLEAN /\ sock[s] = [NewSock EXCEPT !.open = b]
    BY DEF LocalSocketInit
  <2> HIDE DEF b
  <2>2. sock_call[s].in = "idle" /\ sock_call[s].out = "idle"
    BY DEF LocalSocketInit
  <2>3. sock[s] = [open |-> b, peer |-> NoPeer, ring |-> NoRing, pending |-> 0,
                   sent |-> 0, received |-> 0, tangled |-> FALSE]
    BY <2>1 DEF NewSock
  <2>4. /\ sock[s].peer = NoPeer /\ sock[s].sent = 0 /\ sock[s].received = 0
        /\ ~sock[s].tangled /\ sock[s].ring = NoRing
    BY <2>3
  <2>5. NoPeer \in Socks \cup {NoPeer}
    OBVIOUS
  <2>6. sock[s] \in SockRecords
    <3>1. 0 \in Nat /\ FALSE \in BOOLEAN
      OBVIOUS
    <3>2. [open |-> b, peer |-> NoPeer, ring |-> NoRing, pending |-> 0,
           sent |-> 0, received |-> 0, tangled |-> FALSE] \in SockRecords
      BY <1>1, <2>1, <2>5, <3>1, SockRecordOf, Zenon
    <3> QED BY <2>3, <3>2, Zenon
  <2> QED BY <2>2, <2>4, <2>6
<1>3. sock \in [Socks -> SockRecords]
  BY <1>2 DEF LocalSocketInit
<1>4. sock_call \in [Socks -> SockCalls]
  BY DEF LocalSocketInit, SockCalls
<1>5. /\ sock_listen \in [max_pending : Nat, list : Seq(SockClients),
                          acceptor : {"idle", "asleep", "woken"}]
      /\ DOMAIN sock_listen.list = {} /\ sock_listen.acceptor = "idle"
  BY DEF LocalSocketInit
<1> QED BY <1>2, <1>3, <1>4, <1>5
        DEF StreamInv, SockTypes, Mutual, Ringed, ClosedIdle, Waiting, Streams, Sleepers, Acceptor, Tied

\* Told: everything that sleeps in t wakes up, nothing else changes.
LEMMA ToldCalls ==
    ASSUME NEW calls \in [Socks -> SockCalls], NEW t
    PROVE  /\ Told(calls, t) \in [Socks -> SockCalls]
           /\ \A s \in Socks : s # t => Told(calls, t)[s] = calls[s]
           /\ \A s \in Socks : s = t => /\ ~Asleep(Told(calls, t)[s].in) /\ ~Asleep(Told(calls, t)[s].out)
                                        /\ calls[s].in = "idle" => Told(calls, t)[s].in = "idle"
                                        /\ calls[s].out = "idle" => Told(calls, t)[s].out = "idle"
<1>1. CASE t \notin Socks
  BY <1>1 DEF Told
<1>2. CASE t \in Socks
  <2> DEFINE new == Told(calls, t)[t]
  <2>2. calls[t] \in SockCalls
    BY <1>2
  <2>1. Told(calls, t) = [calls EXCEPT ![t].in = Up(@), ![t].out = Up(@)]
    BY <1>2 DEF Told
  <2>3. /\ new = [[calls[t] EXCEPT !.in = Up(calls[t].in)] EXCEPT !.out = Up(calls[t].out)]
        /\ \A s \in Socks : s # t => Told(calls, t)[s] = calls[s]
        /\ DOMAIN Told(calls, t) = Socks
    BY <1>2, <2>1
  <2>5. /\ Up(calls[t].in) \in {"idle", "received"} /\ (calls[t].in = "idle" => Up(calls[t].in) = "idle")
    BY <2>2 DEF SockCalls, Up
  <2>6. /\ Up(calls[t].out) \in {"idle", "connected", "sent"}
        /\ (calls[t].out = "idle" => Up(calls[t].out) = "idle")
    BY <2>2 DEF SockCalls, Up
  <2>4. new \in SockCalls /\ new.in = Up(calls[t].in) /\ new.out = Up(calls[t].out)
    BY <2>2, <2>3, <2>5, <2>6 DEF SockCalls
  <2>7. new \in SockCalls /\ ~Asleep(new.in) /\ ~Asleep(new.out)
    BY <2>4, <2>5, <2>6 DEF Asleep
  <2>9. Told(calls, t) \in [Socks -> SockCalls]
    <3> SUFFICES ASSUME NEW s \in Socks PROVE Told(calls, t)[s] \in SockCalls
      BY <2>1
    <3> QED BY <2>3, <2>4
  <2> QED BY <2>3, <2>4, <2>5, <2>6, <2>7, <2>9
<1> QED BY <1>1, <1>2
LEMMA RingWell ==
    /\ RingCapacity \in Nat /\ <<>> \in SockRings /\ <<>> # NoRing
    /\ \A r \in SockRings : r # NoRing => r \in Seq(Nat \ {0}) /\ Len(r) \in Nat /\ Len(r) <= RingCapacity
    /\ \A r \in Seq(Nat \ {0}) : r # NoRing /\ (Len(r) <= RingCapacity => r \in SockRings)
<1>1. RingCapacity \in Nat
  BY LocalSocketAssumption
<1>2. NoRing \notin Seq(Nat \ {0})
  BY DEF NoRing
<1>3. <<>> \in SockRings
  BY <1>1 DEF SockRings
<1>4. <<>> # NoRing
  BY DEF NoRing
<1>5. \A r \in SockRings : r # NoRing => r \in Seq(Nat \ {0}) /\ Len(r) \in Nat /\ Len(r) <= RingCapacity
  BY DEF SockRings
<1>6. \A r \in Seq(Nat \ {0}) : r # NoRing /\ (Len(r) <= RingCapacity => r \in SockRings)
  BY <1>2 DEF SockRings
<1> QED BY <1>1, <1>3, <1>4, <1>5, <1>6

LEMMA SockFields ==
    ASSUME NEW e \in SockRecords
    PROVE  /\ e.open \in BOOLEAN /\ e.peer \in Socks \cup {NoPeer} /\ e.ring \in SockRings
           /\ e.pending \in Nat /\ e.sent \in Nat /\ e.received \in Nat /\ e.tangled \in BOOLEAN
<1> DEFINE P == Socks \cup {NoPeer}
<1>1. e \in [open : BOOLEAN, peer : P, ring : SockRings, pending : Nat,
             sent : Nat, received : Nat, tangled : BOOLEAN]
  BY DEF SockRecords
<1> HIDE DEF P
<1>2. /\ e.open \in BOOLEAN /\ e.peer \in P /\ e.ring \in SockRings
      /\ e.pending \in Nat /\ e.sent \in Nat /\ e.received \in Nat /\ e.tangled \in BOOLEAN
  BY <1>1
<1> QED BY <1>2 DEF P

\* f with other values in some fields.
LEMMA SockUpdated ==
    ASSUME NEW e \in SockRecords
    PROVE  /\ \A x \in BOOLEAN : [e EXCEPT !.open = x] \in SockRecords
           /\ \A x \in Socks \cup {NoPeer} : [e EXCEPT !.peer = x] \in SockRecords
           /\ \A x \in SockRings : [e EXCEPT !.ring = x] \in SockRecords
           /\ \A x \in Nat : /\ [e EXCEPT !.pending = x] \in SockRecords
                             /\ [e EXCEPT !.sent = x] \in SockRecords
                             /\ [e EXCEPT !.received = x] \in SockRecords
           /\ \A x \in BOOLEAN : [e EXCEPT !.tangled = x] \in SockRecords
<1> DEFINE P == Socks \cup {NoPeer}
           R == [open : BOOLEAN, peer : P, ring : SockRings, pending : Nat,
                 sent : Nat, received : Nat, tangled : BOOLEAN]
<1>1. R = SockRecords
  BY DEF SockRecords
<1>2. e \in R
  BY <1>1
<1> HIDE DEF P
<1>3. \A x \in BOOLEAN : [e EXCEPT !.open = x] \in R /\ [e EXCEPT !.tangled = x] \in R
  BY <1>2
<1>4. \A x \in P : [e EXCEPT !.peer = x] \in R
  BY <1>2
<1>5. \A x \in SockRings : [e EXCEPT !.ring = x] \in R
  BY <1>2
<1>6. \A x \in Nat : /\ [e EXCEPT !.pending = x] \in R
                     /\ [e EXCEPT !.sent = x] \in R
                     /\ [e EXCEPT !.received = x] \in R
  BY <1>2
<1> HIDE DEF R
<1> QED BY <1>1, <1>3, <1>4, <1>5, <1>6 DEF P

\* When nobody is connected, cut off, closed or tangled, the same sockets are tied.
SameTies == \A u \in Socks : /\ sock'[u].open = sock[u].open /\ sock'[u].peer = sock[u].peer
                             /\ sock'[u].tangled = sock[u].tangled
LEMMA TiesKept ==
    ASSUME SockTypes, SameTies, Mutual
    PROVE  Mutual' /\ \A u \in Socks : Tied(u)' = Tied(u)
<1>1. \A u \in Socks : sock[u].peer \in Socks \cup {NoPeer}
  BY SockFields DEF SockTypes
<1>2. ASSUME NEW u \in Socks, sock[u].peer # NoPeer
      PROVE  /\ sock[u].peer \in Socks /\ sock'[sock'[u].peer].tangled = sock[sock[u].peer].tangled
             /\ sock'[sock'[u].peer].open = sock[sock[u].peer].open
             /\ sock'[sock'[u].peer].peer = sock[sock[u].peer].peer
  BY <1>1, <1>2 DEF SameTies
<1>3. Mutual'
  BY <1>2 DEF Mutual, SameTies
<1>4. \A u \in Socks : Tied(u)' = Tied(u)
  BY <1>2 DEF Tied, SameTies
<1> QED BY <1>3, <1>4

LEMMA ListenKeeps ==
    ASSUME StreamInv, sock_do_listen PROVE StreamInv'
<1>1. /\ sock' = sock /\ sock_call' = sock_call /\ sock_crashed' = sock_crashed
      /\ sock_listen' = [sock_listen EXCEPT !.max_pending = 1]
  BY DEF sock_do_listen
<1>2. SockTypes' /\ sock_listen'.list = sock_listen.list /\ sock_listen'.acceptor = sock_listen.acceptor
  BY <1>1 DEF StreamInv, SockTypes
<1> QED BY <1>1, <1>2
        DEF StreamInv, Mutual, Ringed, ClosedIdle, Waiting, Streams, Sleepers, Acceptor, Tied

LEMMA AcceptSleepsKeeps ==
    ASSUME StreamInv, accept_sleeps PROVE StreamInv'
<1>1. /\ sock' = sock /\ sock_call' = sock_call /\ sock_crashed' = sock_crashed
      /\ sock_listen' = [sock_listen EXCEPT !.acceptor = "asleep"] /\ sock_listen.list = <<>>
  BY DEF accept_sleeps
<1>2. SockTypes' /\ sock_listen'.list = sock_listen.list
  BY <1>1 DEF StreamInv, SockTypes
<1> QED BY <1>1, <1>2
        DEF StreamInv, Mutual, Ringed, ClosedIdle, Waiting, Streams, Sleepers, Acceptor, Tied

\* A call that returns, or sleeps for what is not there.
CallIn(c, s, x) == [c EXCEPT ![s].in = x]
CallOut(c, s, x) == [c EXCEPT ![s].out = x]
LEMMA OneCall ==
    ASSUME NEW c \in [Socks -> SockCalls], NEW s \in Socks
    PROVE  /\ \A x \in {"idle", "receives"} :
                 /\ CallIn(c, s, x) \in [Socks -> SockCalls]
                 /\ CallIn(c, s, x)[s].in = x
                 /\ CallIn(c, s, x)[s].out = c[s].out
                 /\ \A u \in Socks : u # s => CallIn(c, s, x)[u] = c[u]
           /\ \A x \in {"idle", "sends", "connects"} :
                 /\ CallOut(c, s, x) \in [Socks -> SockCalls]
                 /\ CallOut(c, s, x)[s].out = x
                 /\ CallOut(c, s, x)[s].in = c[s].in
                 /\ \A u \in Socks : u # s => CallOut(c, s, x)[u] = c[u]
<1>1. c[s] \in SockCalls
  OBVIOUS
<1>2. \A x \in {"idle", "receives"} : /\ [c[s] EXCEPT !.in = x] \in SockCalls
                                      /\ [c[s] EXCEPT !.in = x].in = x
                                      /\ [c[s] EXCEPT !.in = x].out = c[s].out
  BY <1>1 DEF SockCalls
<1>3. \A x \in {"idle", "sends", "connects"} : /\ [c[s] EXCEPT !.out = x] \in SockCalls
                                               /\ [c[s] EXCEPT !.out = x].out = x
                                               /\ [c[s] EXCEPT !.out = x].in = c[s].in
  BY <1>1 DEF SockCalls
<1> QED BY <1>2, <1>3 DEF CallIn, CallOut

LEMMA ReturnsKeeps ==
    ASSUME StreamInv, NEW s \in Socks, sock_returns(s) PROVE StreamInv'
<1>1. /\ sock' = sock /\ sock_crashed' = sock_crashed /\ sock_listen' = sock_listen
      /\ \/ sock_call' = CallIn(sock_call, s, "idle")
         \/ sock_call' = CallOut(sock_call, s, "idle")
  BY DEF sock_returns, CallIn, CallOut
<1>2. sock_call \in [Socks -> SockCalls]
  BY DEF StreamInv, SockTypes
<1>3. /\ sock_call' \in [Socks -> SockCalls]
      /\ \A u \in Socks : /\ sock_call'[u].in \in {"idle", sock_call[u].in}
                          /\ sock_call'[u].out \in {"idle", sock_call[u].out}
  <2>1. CASE sock_call' = CallIn(sock_call, s, "idle")
    BY <1>2, <2>1, OneCall
  <2>2. CASE sock_call' = CallOut(sock_call, s, "idle")
    BY <1>2, <2>2, OneCall
  <2> QED BY <1>1, <2>1, <2>2
<1>4. SockTypes'
  BY <1>1, <1>3 DEF StreamInv, SockTypes
<1>5. ClosedIdle' /\ Sleepers'
  BY <1>1, <1>3 DEF StreamInv, ClosedIdle, Sleepers, Tied
<1> QED BY <1>1, <1>4, <1>5
        DEF StreamInv, Mutual, Ringed, Waiting, Streams, Acceptor, Tied

\* A call that finds nothing to do sleeps; what triggered the event before is forgotten.
LEMMA SleepsKeeps ==
    ASSUME StreamInv, NEW s \in Socks, sock' = [sock EXCEPT ![s].pending = 0],
           UNCHANGED <<sock_listen, sock_crashed>>, sock[s].open,
           \/ sock_call' = CallIn(sock_call, s, "receives") /\ sock[s].ring = <<>>
           \/ /\ sock_call' = CallOut(sock_call, s, "sends")
              /\ Len(sock[sock[s].peer].ring) = RingCapacity
    PROVE  StreamInv'
<1>1. sock \in [Socks -> SockRecords] /\ sock_call \in [Socks -> SockCalls]
  BY DEF StreamInv, SockTypes
<1>2. sock[s] \in SockRecords
  BY <1>1
<1>3. [sock[s] EXCEPT !.pending = 0] \in SockRecords
  BY <1>2, SockUpdated
<1>4. sock' \in [Socks -> SockRecords]
  BY <1>1, <1>3
<1>5. \A u \in Socks : /\ sock'[u].open = sock[u].open /\ sock'[u].peer = sock[u].peer
                       /\ sock'[u].ring = sock[u].ring /\ sock'[u].sent = sock[u].sent
                       /\ sock'[u].received = sock[u].received /\ sock'[u].tangled = sock[u].tangled
  BY <1>1
<1>6. sock_call' \in [Socks -> SockCalls] /\ \A u \in Socks : u # s => sock_call'[u] = sock_call[u]
  BY <1>1, OneCall
<1>7. \/ sock_call'[s].in = "receives" /\ sock_call'[s].out = sock_call[s].out /\ sock[s].ring = <<>>
      \/ /\ sock_call'[s].out = "sends" /\ sock_call'[s].in = sock_call[s].in
         /\ Len(sock[sock[s].peer].ring) = RingCapacity
  BY <1>1, OneCall
<1>8. SockTypes'
  BY <1>4, <1>6 DEF StreamInv, SockTypes
<1>9. Mutual' /\ \A u \in Socks : Tied(u)' = Tied(u)
  BY <1>5, TiesKept DEF StreamInv, SameTies
<1>10. Ringed'
  BY <1>5 DEF StreamInv, Ringed
<1>11. ClosedIdle'
  BY <1>5, <1>6 DEF StreamInv, ClosedIdle
<1>12. ASSUME NEW u \in Socks, Tied(u)
       PROVE  /\ sock'[u].peer = sock[u].peer /\ sock[u].peer \in Socks
              /\ sock'[sock[u].peer].sent = sock[sock[u].peer].sent
              /\ sock'[sock[u].peer].ring = sock[sock[u].peer].ring
  <2>1. sock[u].peer \in Socks
    BY <1>1, <1>12, SockFields DEF Tied
  <2> QED BY <1>5, <2>1
<1>13. Streams'
  BY <1>5, <1>9, <1>12 DEF StreamInv, Streams
<1>14. Sleepers'
  <2> SUFFICES ASSUME NEW u \in Socks, Tied(u)
               PROVE  /\ sock_call'[u].in = "receives" => sock'[u].ring = <<>>
                      /\ sock_call'[u].out = "sends" => Len(sock'[sock'[u].peer].ring) = RingCapacity
                      /\ sock_call'[u].out # "connects"
    BY <1>9 DEF Sleepers
  <2>1. /\ sock_call[u].in = "receives" => sock[u].ring = <<>>
        /\ sock_call[u].out = "sends" => Len(sock[sock[u].peer].ring) = RingCapacity
        /\ sock_call[u].out # "connects"
    BY DEF StreamInv, Sleepers
  <2>2. CASE u # s
    BY <1>5, <1>6, <1>12, <2>1, <2>2
  <2>3. CASE u = s
    BY <1>5, <1>7, <1>12, <2>1, <2>3
  <2> QED BY <2>2, <2>3
<1>15. Acceptor'
  BY DEF StreamInv, Acceptor
<1>16. Waiting'
  <2>1. \A i \in DOMAIN sock_listen.list : sock_listen.list[i] \in Socks
    BY DEF StreamInv, SockTypes, Socks
  <2> QED BY <1>5, <2>1 DEF StreamInv, Waiting
<1> QED BY <1>8, <1>9, <1>10, <1>11, <1>13, <1>14, <1>15, <1>16 DEF StreamInv

\* What a call that moved bytes leaves of the calls that sleep: none in the socket that
\* was told, and its own is over.
LEMMA MovedCalls ==
    ASSUME NEW c \in [Socks -> SockCalls], NEW s \in Socks, NEW t
    PROVE  /\ Told(CallIn(c, s, "idle"), t) \in [Socks -> SockCalls]
           /\ Told(CallIn(c, s, "idle"), t)[s].in = "idle"
           /\ Told(CallOut(c, s, "idle"), t) \in [Socks -> SockCalls]
           /\ Told(CallOut(c, s, "idle"), t)[s].out = "idle"
           /\ \A d \in {Told(CallIn(c, s, "idle"), t), Told(CallOut(c, s, "idle"), t)}, u \in Socks :
                 /\ c[u].in = "idle" => d[u].in = "idle"
                 /\ c[u].out = "idle" => d[u].out = "idle"
                 /\ Asleep(d[u].in) => d[u].in = c[u].in /\ u # t
                 /\ Asleep(d[u].out) => d[u].out = c[u].out /\ u # t
<1> DEFINE a == CallIn(c, s, "idle")
           b == CallOut(c, s, "idle")
<1>1. /\ a \in [Socks -> SockCalls] /\ a[s].in = "idle" /\ a[s].out = c[s].out
      /\ \A u \in Socks : u # s => a[u] = c[u]
      /\ b \in [Socks -> SockCalls] /\ b[s].out = "idle" /\ b[s].in = c[s].in
      /\ \A u \in Socks : u # s => b[u] = c[u]
  BY OneCall
<1> HIDE DEF a, b
<1>2. ~Asleep("idle")
  BY DEF Asleep
<1>3. /\ Told(a, t) \in [Socks -> SockCalls] /\ Told(b, t) \in [Socks -> SockCalls]
      /\ Told(a, t)[s].in = "idle" /\ Told(b, t)[s].out = "idle"
  <2>0. a \in [Socks -> SockCalls] /\ b \in [Socks -> SockCalls]
    BY <1>1
  <2>1. /\ Told(a, t) \in [Socks -> SockCalls]
        /\ s # t => Told(a, t)[s] = a[s]
        /\ s = t => (a[s].in = "idle" => Told(a, t)[s].in = "idle")
    BY <2>0, ToldCalls
  <2>2. /\ Told(b, t) \in [Socks -> SockCalls]
        /\ s # t => Told(b, t)[s] = b[s]
        /\ s = t => (b[s].out = "idle" => Told(b, t)[s].out = "idle")
    BY <2>0, ToldCalls
  <2> QED BY <1>1, <2>1, <2>2
<1>4. ASSUME NEW u \in Socks
      PROVE  \A d \in {Told(a, t), Told(b, t)} :
                 /\ c[u].in = "idle" => d[u].in = "idle"
                 /\ c[u].out = "idle" => d[u].out = "idle"
                 /\ Asleep(d[u].in) => d[u].in = c[u].in /\ u # t
                 /\ Asleep(d[u].out) => d[u].out = c[u].out /\ u # t
  <2>1. CASE u = t
    BY <1>1, <2>1, ToldCalls
  <2>2. CASE u # t
    <3>1. Told(a, t)[u] = a[u] /\ Told(b, t)[u] = b[u]
      BY <1>1, <2>2, ToldCalls
    <3> QED BY <1>1, <1>2, <2>2, <3>1
  <2> QED BY <2>1, <2>2
<1> QED BY <1>3, <1>4 DEF a, b

\* A transfer between tied sockets, and what it needs: bytes move, the calls that slept
\* for them are told.
Moved(s) ==
    /\ sock' \in [Socks -> SockRecords] /\ SameTies /\ Streams' /\ sock_listen' = sock_listen
    /\ \A u \in Socks : sock[u].ring = NoRing => /\ sock'[u].ring = NoRing /\ sock'[u].received = sock[u].received
                                                 /\ (sock'[u].sent = sock[u].sent \/ u = s)
    /\ \A u \in Socks : sock[u].ring # NoRing => sock'[u].ring # NoRing
    /\ sock_call' \in [Socks -> SockCalls]
    /\ \A u \in Socks : /\ sock_call[u].in = "idle" => sock_call'[u].in = "idle"
                        /\ sock_call[u].out = "idle" => sock_call'[u].out = "idle"
                        /\ Asleep(sock_call'[u].in) => sock_call'[u].in = sock_call[u].in
                        /\ Asleep(sock_call'[u].out) => sock_call'[u].out = sock_call[u].out
    /\ \A u \in Socks : Tied(u) =>
          /\ sock_call'[u].in = "receives" => sock'[u].ring = sock[u].ring
          /\ sock_call'[u].out = "sends" => sock'[sock[u].peer].ring = sock[sock[u].peer].ring
LEMMA MovedKeeps ==
    ASSUME StreamInv, NEW s \in Socks, Moved(s), sock[s].ring # NoRing,
           ~sock_crashed' => ~sock_crashed
    PROVE  StreamInv'
<1>1. SockTypes'
  BY DEF Moved, StreamInv, SockTypes
<1>2. Mutual' /\ \A u \in Socks : Tied(u)' = Tied(u)
  BY TiesKept DEF Moved, StreamInv
<1>3. Ringed'
  BY DEF Moved, StreamInv, Ringed, SameTies
<1>4. ClosedIdle'
  BY DEF Moved, StreamInv, ClosedIdle, SameTies
<1>5. Streams'
  BY DEF Moved
<1>6. Sleepers'
  <2> SUFFICES ASSUME NEW u \in Socks, Tied(u)
               PROVE  /\ sock_call'[u].in = "receives" => sock'[u].ring = <<>>
                      /\ sock_call'[u].out = "sends" => Len(sock'[sock'[u].peer].ring) = RingCapacity
                      /\ sock_call'[u].out # "connects"
    BY <1>2 DEF Sleepers
  <2>1. /\ sock_call[u].in = "receives" => sock[u].ring = <<>>
        /\ sock_call[u].out = "sends" => Len(sock[sock[u].peer].ring) = RingCapacity
        /\ sock_call[u].out # "connects"
    BY DEF StreamInv, Sleepers
  <2>2. Asleep("receives") /\ Asleep("sends") /\ Asleep("connects")
    BY DEF Asleep
  <2> QED BY <2>1, <2>2 DEF Moved, SameTies
<1>7. Acceptor'
  BY DEF StreamInv, Acceptor, Moved
<1>8. Waiting'
  <2>1. \A i \in DOMAIN sock_listen.list : sock_listen.list[i] \in Socks
    BY DEF StreamInv, SockTypes, Socks
  <2> QED BY <2>1 DEF StreamInv, Waiting, Moved, SameTies
<1> QED BY <1>1, <1>2, <1>3, <1>4, <1>5, <1>6, <1>7, <1>8 DEF StreamInv

\* Who points to a tied socket is its peer.
LEMMA TiedBoth ==
    ASSUME SockTypes, Mutual, NEW u \in Socks, Tied(u)
    PROVE  sock[u].peer \in Socks /\ Tied(sock[u].peer) /\ sock[sock[u].peer].peer = u
<1>1. sock[u].peer \in Socks
  BY SockFields DEF SockTypes, Tied
<1>2. u # NoPeer
  BY LocalSocketAssumption
<1> QED BY <1>1, <1>2 DEF Mutual, Tied

LEMMA RecvKeeps ==
    ASSUME StreamInv, ~sock_crashed, NEW s \in Socks, NEW n \in Chunks, sock_recvmsg(s, n)
    PROVE  StreamInv'
<1>0. sock[s].open /\ sock[s].ring # NoRing /\ sock_listen' = sock_listen
  BY DEF sock_recvmsg
<1>1. CASE sock[s].ring = <<>>
  <2>1. /\ sock_call' = CallIn(sock_call, s, "receives") /\ sock' = [sock EXCEPT ![s].pending = 0]
        /\ UNCHANGED <<sock_listen, sock_crashed>>
    BY <1>1 DEF sock_recvmsg, CallIn
  <2> QED BY <1>0, <1>1, <2>1, SleepsKeeps
<1>2. CASE sock[s].ring # <<>>
  <2> DEFINE ring == sock[s].ring
             count == IF n < Len(ring) THEN n ELSE Len(ring)
             rest == Rest(ring, count)
             got == sock[s].received + count
  <2>1. /\ sock' = [sock EXCEPT ![s].ring = rest, ![s].received = got]
        /\ sock_call' = Told(CallIn(sock_call, s, "idle"), sock[s].peer)
    BY <1>2 DEF sock_recvmsg, Receives, CallIn
  <2>2. sock \in [Socks -> SockRecords] /\ sock_call \in [Socks -> SockCalls]
    BY DEF StreamInv, SockTypes
  <2>3. sock[s] \in SockRecords
    BY <2>2
  <2>4. ring \in Seq(Nat \ {0}) /\ Len(ring) \in Nat /\ Len(ring) <= RingCapacity
    BY <1>0, <2>3, SockFields, RingWell
  <2>5. n \in Nat /\ count \in 0 .. Len(ring)
    BY <2>4, LocalSocketAssumption
  <2> HIDE DEF ring, count
  <2>6. rest \in Seq(Nat \ {0}) /\ Len(rest) = Len(ring) - count
    <3> DEFINE S == Nat \ {0}
    <3>1. ring \in Seq(S)
      BY <2>4
    <3> HIDE DEF S
    <3>2. rest = SubSeq(ring, count + 1, Len(ring)) /\ count + 1 \in 1 .. Len(ring) + 1
      BY <2>4, <2>5 DEF Rest
    <3>3. rest \in Seq(S) /\ Len(rest) = Len(ring) - count
      BY <2>4, <2>5, <3>1, <3>2, SubSeqProperties
    <3> QED BY <3>3 DEF S
  <2>7. rest \in SockRings /\ rest # NoRing /\ got \in Nat
    <3>1. Len(rest) <= RingCapacity
      BY <2>4, <2>5, <2>6, RingWell
    <3>2. sock[s].received \in Nat
      BY <2>3, SockFields
    <3> QED BY <2>4, <2>5, <2>6, <3>1, <3>2, RingWell
  <2> HIDE DEF rest, got
  <2>8. sock' \in [Socks -> SockRecords]
    <3>1. [sock[s] EXCEPT !.ring = rest] \in SockRecords
      BY <2>3, <2>7, SockUpdated
    <3>2. [[sock[s] EXCEPT !.ring = rest] EXCEPT !.received = got] \in SockRecords
      BY <2>7, <3>1, SockUpdated
    <3> QED BY <2>1, <2>2, <3>2
  <2>9. /\ \A u \in Socks : /\ sock'[u].open = sock[u].open /\ sock'[u].peer = sock[u].peer
                            /\ sock'[u].sent = sock[u].sent /\ sock'[u].tangled = sock[u].tangled
        /\ \A u \in Socks : u # s => sock'[u] = sock[u]
        /\ sock'[s].ring = rest /\ sock'[s].received = got
    BY <2>1, <2>2, <2>3 DEF SockRecords
  <2>10. SameTies /\ \A u \in Socks : Tied(u)' = Tied(u)
    BY <2>9, TiesKept DEF SameTies, StreamInv
  <2>11. Streams'
    <3> SUFFICES ASSUME NEW u \in Socks, Tied(u)
                 PROVE  /\ sock'[u].received <= sock'[sock'[u].peer].sent
                        /\ sock'[u].ring = Counted(sock'[u].received,
                                                   sock'[sock'[u].peer].sent - sock'[u].received)
      BY <2>10 DEF Streams
    <3>1. sock[u].peer \in Socks
      BY TiedBoth DEF StreamInv
    <3>2. sock'[sock'[u].peer].sent = sock[sock[u].peer].sent
      BY <2>9, <3>1
    <3>3. /\ sock[u].received <= sock[sock[u].peer].sent
          /\ sock[u].ring = Counted(sock[u].received, sock[sock[u].peer].sent - sock[u].received)
      BY DEF StreamInv, Streams
    <3>4. CASE u # s
      BY <2>9, <3>2, <3>3, <3>4
    <3>5. CASE u = s
      <4> DEFINE m == sock[u].received
                 l == sock[sock[u].peer].sent
      <4>1. m \in Nat /\ l \in Nat /\ m <= l
        BY <2>2, <3>1, <3>3, SockFields
      <4>2. ring = Counted(m, l - m)
        BY <3>3, <3>5 DEF ring
      <4>3. sock'[u].received = m + count /\ sock'[u].ring = rest
        BY <2>9, <3>5 DEF got
      <4> HIDE DEF m, l
      <4>4. Len(ring) = l - m /\ l - m \in Nat
        <5>1. l - m \in Nat
          BY <4>1
        <5> QED BY <4>1, <4>2, <5>1, CountedIs
      <4>5. rest = Counted(m + count, l - m - count)
        BY <2>5, <4>1, <4>2, <4>4, CountedRest DEF rest
      <4>6. m + count <= l /\ l - m - count = l - (m + count)
        BY <2>5, <4>1, <4>4
      <4> QED BY <3>2, <4>3, <4>5, <4>6 DEF l
    <3> QED BY <3>4, <3>5
  <2>12. /\ sock_call' \in [Socks -> SockCalls] /\ sock_call'[s].in = "idle"
         /\ \A u \in Socks : /\ sock_call[u].in = "idle" => sock_call'[u].in = "idle"
                             /\ sock_call[u].out = "idle" => sock_call'[u].out = "idle"
                             /\ Asleep(sock_call'[u].in) => sock_call'[u].in = sock_call[u].in /\ u # sock[s].peer
                             /\ Asleep(sock_call'[u].out) => sock_call'[u].out = sock_call[u].out /\ u # sock[s].peer
    BY <2>1, <2>2, MovedCalls
  <2>13. ASSUME NEW u \in Socks, Tied(u)
         PROVE  /\ sock_call'[u].in = "receives" => sock'[u].ring = sock[u].ring
                /\ sock_call'[u].out = "sends" => sock'[sock[u].peer].ring = sock[sock[u].peer].ring
    <3>1. sock[u].peer \in Socks /\ sock[sock[u].peer].peer = u
      BY <2>13, TiedBoth DEF StreamInv
    <3>2. Asleep("sends")
      BY DEF Asleep
    <3>3. ASSUME sock_call'[u].out = "sends" PROVE sock[u].peer # s
      BY <2>12, <3>1, <3>2, <3>3
    <3> QED BY <2>9, <2>12, <3>1, <3>3
  <2>14. Moved(s)
    BY <1>0, <2>7, <2>8, <2>9, <2>10, <2>11, <2>12, <2>13 DEF Moved
  <2> QED BY <1>0, <2>14, MovedKeeps
<1> QED BY <1>1, <1>2

LEMMA SendKeeps ==
    ASSUME StreamInv, ~sock_crashed, NEW s \in Socks, NEW n \in Chunks, sock_sendmsg(s, n)
    PROVE  StreamInv'
<1> DEFINE t == sock[s].peer
<1>0. sock[s].open /\ sock_listen' = sock_listen
  BY DEF sock_sendmsg
<1>1. CASE t = NoPeer \/ sock[t].ring = NoRing
  <2>1. sock' = sock /\ sock_call' = sock_call /\ sock_crashed'
    BY <1>1 DEF sock_sendmsg
  <2> QED BY <1>0, <2>1
          DEF StreamInv, SockTypes, Mutual, Ringed, ClosedIdle, Waiting, Streams, Sleepers, Acceptor, Tied
<1>2. CASE t # NoPeer /\ sock[t].ring # NoRing /\ Len(sock[t].ring) = RingCapacity
  <2>1. /\ sock_call' = CallOut(sock_call, s, "sends") /\ sock' = [sock EXCEPT ![s].pending = 0]
        /\ UNCHANGED <<sock_listen, sock_crashed>>
    BY <1>2 DEF sock_sendmsg, CallOut
  <2> QED BY <1>0, <1>2, <2>1, SleepsKeeps
<1>3. CASE t # NoPeer /\ sock[t].ring # NoRing /\ Len(sock[t].ring) # RingCapacity
  <2> DEFINE ring == sock[t].ring
             room == RingCapacity - Len(ring)
             count == IF n < room THEN n ELSE room
             m == sock[s].sent
             all == ring \o Counted(m, count)
             sent == m + count
  <2>1. /\ sock' = [sock EXCEPT ![t].ring = all, ![s].sent = sent]
        /\ sock_call' = Told(CallOut(sock_call, s, "idle"), t)
        /\ sock_crashed' = sock_crashed
    <3>1. Sends(s, t, n)
      BY <1>3 DEF sock_sendmsg
    <3>2. sock' = [sock EXCEPT ![t].ring = ring \o [i \in 1 .. count |-> sock[s].sent + i],
                               ![s].sent = sock[s].sent + count]
      BY <3>1 DEF Sends
    <3>3. sock_crashed' = sock_crashed
      BY <1>3 DEF sock_sendmsg
    <3> QED BY <3>1, <3>2, <3>3 DEF Sends, CallOut, Counted
  <2>2. sock \in [Socks -> SockRecords] /\ sock_call \in [Socks -> SockCalls]
    BY DEF StreamInv, SockTypes
  <2>3. sock[s] \in SockRecords /\ t \in Socks /\ sock[t] \in SockRecords /\ m \in Nat
    BY <1>3, <2>2, SockFields
  <2>4. ring \in Seq(Nat \ {0}) /\ Len(ring) \in Nat /\ Len(ring) <= RingCapacity
    BY <1>3, <2>3, SockFields, RingWell
  <2>5. n \in Nat /\ count \in 0 .. RingCapacity - Len(ring) /\ count \in Nat /\ RingCapacity \in Nat
    BY <2>4, LocalSocketAssumption
  <2>0. sock[s].ring # NoRing
    BY <1>0, <1>3 DEF StreamInv, Ringed
  <2> HIDE DEF ring, count, t, m
  <2>6. all \in Seq(Nat \ {0}) /\ Len(all) = Len(ring) + count
    <3> DEFINE S == Nat \ {0}
               c == Counted(m, count)
    <3>1. ring \in Seq(S) /\ c \in Seq(S) /\ Len(c) = count
      BY <2>3, <2>4, <2>5, CountedIs
    <3> HIDE DEF S, c
    <3>3. ring \o c \in Seq(S) /\ Len(ring \o c) = Len(ring) + Len(c)
      BY <3>1
    <3> QED BY <3>1, <3>3 DEF S, c
  <2>7. all \in SockRings /\ all # NoRing /\ sent \in Nat
    <3>1. Len(all) <= RingCapacity
      BY <2>4, <2>5, <2>6
    <3>2. sent \in Nat
      BY <2>3, <2>5
    <3> HIDE DEF all, sent
    <3>3. all \in SockRings /\ all # NoRing
      BY <2>6, <3>1, RingWell
    <3> QED BY <3>2, <3>3
  <2> HIDE DEF all, sent
  <2>8. sock' \in [Socks -> SockRecords]
    <3> DEFINE f == [sock EXCEPT ![t].ring = all]
    <3>1. [sock[t] EXCEPT !.ring = all] \in SockRecords
      BY <2>3, <2>7, SockUpdated
    <3>2. f \in [Socks -> SockRecords]
      BY <2>2, <2>3, <3>1
    <3>3. sock' = [f EXCEPT ![s].sent = sent]
      BY <2>1
    <3> HIDE DEF f
    <3>4. f[s] \in SockRecords
      BY <3>2
    <3>5. [f[s] EXCEPT !.sent = sent] \in SockRecords
      BY <2>7, <3>4, SockUpdated
    <3> QED BY <3>2, <3>3, <3>5
  <2>9. /\ \A u \in Socks : /\ sock'[u].open = sock[u].open /\ sock'[u].peer = sock[u].peer
                            /\ sock'[u].received = sock[u].received /\ sock'[u].tangled = sock[u].tangled
        /\ \A u \in Socks : u # s => sock'[u].sent = sock[u].sent
        /\ \A u \in Socks : u # t => sock'[u].ring = sock[u].ring
        /\ sock'[t].ring = all /\ sock'[s].sent = sent
    BY <2>1, <2>2, <2>3 DEF SockRecords
  <2>10. SameTies /\ \A u \in Socks : Tied(u)' = Tied(u)
    BY <2>9, TiesKept DEF SameTies, StreamInv
  <2>15. ASSUME NEW u \in Socks, Tied(u) PROVE u = t <=> sock[u].peer = s
    <3>1. sock[u].peer \in Socks /\ sock[sock[u].peer].peer = u
      BY <2>15, TiedBoth DEF StreamInv
    <3>2. ASSUME u = t PROVE sock[u].peer = s
      BY <1>0, <1>3, <2>15, <3>2 DEF StreamInv, Mutual, Tied, t
    <3> QED BY <3>1, <3>2 DEF t
  <2>11. Streams'
    <3> SUFFICES ASSUME NEW u \in Socks, Tied(u)
                 PROVE  /\ sock'[u].received <= sock'[sock'[u].peer].sent
                        /\ sock'[u].ring = Counted(sock'[u].received,
                                                   sock'[sock'[u].peer].sent - sock'[u].received)
      BY <2>10 DEF Streams
    <3>1. sock[u].peer \in Socks
      BY TiedBoth DEF StreamInv
    <3>3. /\ sock[u].received <= sock[sock[u].peer].sent
          /\ sock[u].ring = Counted(sock[u].received, sock[sock[u].peer].sent - sock[u].received)
      BY DEF StreamInv, Streams
    <3>4. CASE u # t
      BY <2>9, <2>15, <3>1, <3>3, <3>4
    <3>5. CASE u = t
      <4> DEFINE r == sock[u].received
      <4>0. sock[u].peer = s
        BY <2>15, <3>5
      <4>1. r \in Nat /\ r <= m
        BY <2>2, <3>3, <4>0, SockFields DEF m
      <4>2. ring = Counted(r, m - r)
        BY <3>3, <3>5, <4>0 DEF ring, m
      <4>3. sock'[u].received = r /\ sock'[u].ring = all /\ sock'[sock'[u].peer].sent = m + count
        BY <2>9, <3>5, <4>0 DEF sent
      <4> HIDE DEF r
      <4>4. m - r \in Nat /\ r + (m - r) = m /\ m - r + count = (m + count) - r /\ r <= m + count
        BY <2>3, <2>5, <4>1
      <4>5. all = Counted(r, m - r) \o Counted(r + (m - r), count)
        BY <4>2, <4>4 DEF all
      <4>6. all = Counted(r, m - r + count)
        BY <2>5, <4>1, <4>4, <4>5, CountedMore
      <4>7. all = Counted(r, (m + count) - r) /\ r <= m + count
        BY <4>4, <4>6
      <4> QED BY <4>3, <4>7
    <3> QED BY <3>4, <3>5
  <2>12. /\ sock_call' \in [Socks -> SockCalls] /\ sock_call'[s].out = "idle"
         /\ \A u \in Socks : /\ sock_call[u].in = "idle" => sock_call'[u].in = "idle"
                             /\ sock_call[u].out = "idle" => sock_call'[u].out = "idle"
                             /\ Asleep(sock_call'[u].in) => sock_call'[u].in = sock_call[u].in /\ u # t
                             /\ Asleep(sock_call'[u].out) => sock_call'[u].out = sock_call[u].out /\ u # t
    BY <2>1, <2>2, MovedCalls
  <2>13. ASSUME NEW u \in Socks, Tied(u)
         PROVE  /\ sock_call'[u].in = "receives" => sock'[u].ring = sock[u].ring
                /\ sock_call'[u].out = "sends" => sock'[sock[u].peer].ring = sock[sock[u].peer].ring
    <3>1. sock[u].peer \in Socks /\ sock[sock[u].peer].peer = u /\ Tied(sock[u].peer)
      BY <2>13, TiedBoth DEF StreamInv
    <3>2. Asleep("sends") /\ Asleep("receives")
      BY DEF Asleep
    <3>3. sock[u].peer = t => u = s
      BY <2>15, <3>1
    <3> QED BY <2>9, <2>12, <3>1, <3>2, <3>3
  <2>14. Moved(s)
    BY <1>0, <1>3, <2>7, <2>8, <2>9, <2>10, <2>11, <2>12, <2>13 DEF Moved, ring
  <2> QED BY <2>0, <2>1, <2>14, MovedKeeps
<1> QED BY <1>1, <1>2, <1>3

LEMMA WaitingSocks ==
    ASSUME SockTypes
    PROVE  /\ sock_listen.list \in Seq(SockClients)
           /\ \A i \in DOMAIN sock_listen.list : sock_listen.list[i] \in Socks
<1>1. sock_listen.list \in Seq(SockClients)
  BY DEF SockTypes
<1> QED BY <1>1 DEF Socks

LEMMA ConnectKeeps ==
    ASSUME StreamInv, ~sock_crashed, NEW c \in SockClients, sock_connect(c)
    PROVE  StreamInv'
<1>1. c \in Socks
  BY DEF Socks
<1> DEFINE tangled == sock[c].tangled \/ sock[c].ring # NoRing \/ sock[c].pending > 0
           left == IF sock[c].pending > 0 THEN sock[c].pending - 1 ELSE 0
           list == sock_listen.list
<1>2. /\ sock[c].open /\ sock_call[c].out = "idle" /\ sock_crashed' = Linked(c)
      /\ sock' = [sock EXCEPT ![c].tangled = tangled, ![c].pending = left]
      /\ sock_listen' = [sock_listen EXCEPT !.list = Append(@, c),
                            !.acceptor = IF @ = "asleep" THEN "woken" ELSE @]
      /\ sock_call' \in {sock_call, CallOut(sock_call, c, "connects")}
  BY DEF sock_connect, CallOut
<1>3. sock \in [Socks -> SockRecords] /\ sock_call \in [Socks -> SockCalls] /\ sock[c] \in SockRecords
  BY <1>1 DEF StreamInv, SockTypes
<1>4. tangled \in BOOLEAN /\ left \in Nat
  BY <1>3, SockFields
<1> HIDE DEF left, tangled
<1>5. sock' \in [Socks -> SockRecords]
  <2>1. [sock[c] EXCEPT !.tangled = tangled] \in SockRecords
    BY <1>3, <1>4, SockUpdated
  <2>2. [[sock[c] EXCEPT !.tangled = tangled] EXCEPT !.pending = left] \in SockRecords
    BY <1>4, <2>1, SockUpdated
  <2> QED BY <1>2, <1>3, <2>2
<1>6. /\ \A u \in Socks : /\ sock'[u].open = sock[u].open /\ sock'[u].peer = sock[u].peer
                          /\ sock'[u].ring = sock[u].ring /\ sock'[u].sent = sock[u].sent
                          /\ sock'[u].received = sock[u].received
      /\ \A u \in Socks : u # c => sock'[u].tangled = sock[u].tangled
      /\ sock'[c].tangled = tangled
  BY <1>1, <1>2, <1>3 DEF SockRecords
<1>7. /\ sock_call' \in [Socks -> SockCalls] /\ \A u \in Socks : u # c => sock_call'[u] = sock_call[u]
      /\ sock_call'[c].in = sock_call[c].in
  BY <1>1, <1>2, <1>3, OneCall
<1>8. /\ list \in Seq(SockClients) /\ \A i \in DOMAIN list : list[i] \in Socks
  BY WaitingSocks DEF StreamInv
<1>9. /\ sock_listen'.list = Append(list, c) /\ sock_listen'.acceptor # "asleep"
      /\ sock_listen' \in [max_pending : Nat, list : Seq(SockClients),
                           acceptor : {"idle", "asleep", "woken"}]
  <2>1. sock_listen \in [max_pending : Nat, list : Seq(SockClients),
                         acceptor : {"idle", "asleep", "woken"}]
    BY DEF StreamInv, SockTypes
  <2>2. Append(list, c) \in Seq(SockClients)
    BY <1>8
  <2> HIDE DEF list
  <2>3. sock_listen' = [sock_listen EXCEPT !.list = Append(list, c),
                            !.acceptor = IF sock_listen.acceptor = "asleep" THEN "woken" ELSE sock_listen.acceptor]
    BY <1>2 DEF list
  <2> QED BY <2>1, <2>2, <2>3
<1>10. SockTypes'
  BY <1>5, <1>7, <1>9 DEF SockTypes
\* c itself is not tied any more; the others are tied as they were.
<1>11. ASSUME NEW u \in Socks, Tied(u)' PROVE u # c /\ Tied(u) /\ sock[u].peer # c
  <2>1. sock[u].peer \in Socks
    BY <1>3, <1>6, <1>11, SockFields DEF Tied
  <2>2. Tied(u)
    BY <1>6, <1>11, <2>1 DEF Tied, tangled
  <2>3. sock[u].ring # NoRing
    BY <2>2 DEF StreamInv, Ringed, Tied
  <2>4. u # c
    BY <1>6, <1>11, <2>3 DEF Tied, tangled
  <2>5. sock[sock[u].peer].ring # NoRing
    <3>1. Tied(sock[u].peer)
      BY <2>2, TiedBoth DEF StreamInv
    <3> QED BY <2>1, <3>1 DEF StreamInv, Ringed, Tied
  <2> QED BY <1>6, <1>11, <2>2, <2>4, <2>5 DEF Tied, tangled
<1>12. Mutual'
  <2> SUFFICES ASSUME NEW u \in Socks, sock'[u].open, sock'[u].peer # NoPeer, ~sock'[sock'[u].peer].tangled
               PROVE  sock'[sock'[u].peer].open /\ sock'[sock'[u].peer].peer = u
    BY DEF Mutual
  <2>1. sock[u].peer \in Socks /\ sock'[u].peer = sock[u].peer
    BY <1>3, <1>6, SockFields
  <2>2. ~sock[sock[u].peer].tangled
    BY <1>6, <2>1 DEF tangled
  <2> QED BY <1>6, <2>1, <2>2 DEF StreamInv, Mutual
<1>13. Ringed'
  BY <1>6 DEF StreamInv, Ringed
<1>14. ClosedIdle'
  BY <1>2, <1>6, <1>7 DEF StreamInv, ClosedIdle
<1>15. ASSUME NEW u \in Socks, Tied(u)'
       PROVE  /\ sock'[u].peer = sock[u].peer /\ sock[u].peer \in Socks /\ Tied(u)
              /\ sock'[sock[u].peer].sent = sock[sock[u].peer].sent
              /\ sock'[sock[u].peer].ring = sock[sock[u].peer].ring
              /\ sock_call'[u] = sock_call[u]
  BY <1>6, <1>7, <1>11, <1>15, TiedBoth DEF StreamInv
<1>16. Streams'
  BY <1>6, <1>15 DEF StreamInv, Streams
<1>17. Sleepers'
  BY <1>6, <1>15 DEF StreamInv, Sleepers
<1>18. Acceptor'
  BY <1>9 DEF Acceptor
<1>19. Waiting'
  <2> SUFFICES ASSUME ~Linked(c)
               PROVE  LET l == sock_listen'.list
                      IN  /\ \A i, j \in DOMAIN l : l[i] = l[j] => i = j
                          /\ \A i \in DOMAIN l : ~sock'[l[i]].tangled =>
                                sock'[l[i]].open /\ sock'[l[i]].ring = NoRing
    BY <1>2 DEF Waiting
  <2>1. /\ \A i, j \in DOMAIN list : list[i] = list[j] => i = j
        /\ \A i \in DOMAIN list : ~sock[list[i]].tangled => sock[list[i]].open /\ sock[list[i]].ring = NoRing
    BY DEF StreamInv, Waiting
  <2>2. \A i \in DOMAIN list : list[i] # c
    BY DEF Linked
  <2>3. ~tangled => sock[c].ring = NoRing
    BY DEF tangled
  <2> HIDE DEF list
  <2> DEFINE l == Append(list, c)
  <2>4. /\ DOMAIN list = 1 .. Len(list) /\ Len(list) \in Nat /\ DOMAIN l = 1 .. Len(list) + 1
        /\ l[Len(list) + 1] = c /\ \A i \in 1 .. Len(list) : l[i] = list[i]
    BY <1>8
  <2> HIDE DEF l
  <2>5. \A i, j \in DOMAIN l : l[i] = l[j] => i = j
    BY <2>1, <2>2, <2>4
  <2>6. \A i \in DOMAIN l : ~sock'[l[i]].tangled => sock'[l[i]].open /\ sock'[l[i]].ring = NoRing
    <3> SUFFICES ASSUME NEW i \in DOMAIN l, ~sock'[l[i]].tangled
                 PROVE  sock'[l[i]].open /\ sock'[l[i]].ring = NoRing
      OBVIOUS
    <3>1. CASE i = Len(list) + 1
      <4>1. l[i] = c
        BY <2>4, <3>1
      <4>2. ~tangled
        BY <1>6, <4>1
      <4> QED BY <1>1, <1>2, <1>6, <2>3, <4>1, <4>2
    <3>2. CASE i \in 1 .. Len(list)
      BY <1>6, <1>8, <2>1, <2>2, <2>4, <3>2
    <3> QED BY <2>4, <3>1, <3>2
  <2> QED BY <1>9, <2>5, <2>6 DEF l
<1> QED BY <1>10, <1>12, <1>13, <1>14, <1>16, <1>17, <1>18, <1>19 DEF StreamInv

\* What is new is not tied: nobody open points to it, and it waits nowhere.
LEMMA NewIsAlone ==
    ASSUME StreamInv, ~sock_crashed, NEW a \in Socks, sock[a] = NewSock
    PROVE  /\ ~sock[a].open /\ ~sock[a].tangled /\ sock[a].sent = 0 /\ sock[a].received = 0
           /\ \A u \in Socks : sock[u].open => sock[u].peer # a
           /\ \A i \in DOMAIN sock_listen.list : sock_listen.list[i] # a
           /\ sock_call[a].in = "idle" /\ sock_call[a].out = "idle"
<1>1. ~sock[a].open /\ ~sock[a].tangled /\ sock[a].sent = 0 /\ sock[a].received = 0
  BY DEF NewSock
<1>2. a # NoPeer
  BY LocalSocketAssumption
<1>3. \A u \in Socks : sock[u].open => sock[u].peer # a
  BY <1>1, <1>2 DEF StreamInv, Mutual
<1>4. \A i \in DOMAIN sock_listen.list : sock_listen.list[i] # a
  BY <1>1 DEF StreamInv, Waiting
<1>5. sock_call[a].in = "idle" /\ sock_call[a].out = "idle"
  BY <1>1 DEF StreamInv, ClosedIdle
<1> QED BY <1>1, <1>3, <1>4, <1>5

LEMMA AcceptKeeps ==
    ASSUME StreamInv, ~sock_crashed, NEW a \in SockAccepted, sock_accept(a)
    PROVE  StreamInv'
<1> DEFINE list == sock_listen.list
           c == list[1]
           kept == IF sock[c].ring = NoRing THEN <<>> ELSE sock[c].ring
           wait == IF Listens(c) THEN sock[c].pending ELSE sock[c].pending + 1
<1>1. /\ a \in Socks /\ list # <<>> /\ sock[a] = NewSock /\ sock_crashed' = sock_crashed
      /\ sock_listen' = [sock_listen EXCEPT !.list = Tail(@), !.acceptor = "idle"]
      /\ sock' = [sock EXCEPT
            ![a].open = TRUE, ![a].peer = c, ![a].ring = <<>>, ![a].tangled = sock[c].tangled,
            ![c].peer = a, ![c].ring = IF @ = NoRing THEN <<>> ELSE @,
            ![c].pending = IF Listens(c) THEN @ ELSE @ + 1]
      /\ sock_call' = Told(sock_call, c)
  BY DEF sock_accept, Socks
<1>2. list \in Seq(SockClients) /\ \A i \in DOMAIN list : list[i] \in Socks
  BY WaitingSocks DEF StreamInv
<1>3. c \in Socks /\ 1 \in DOMAIN list /\ Tail(list) \in Seq(SockClients)
  <2>1. list # <<>>
    BY <1>1
  <2> HIDE DEF list
  <2>2. 1 \in DOMAIN list /\ Tail(list) \in Seq(SockClients)
    BY <1>2, <2>1
  <2> QED BY <1>2, <2>2
<1>4. /\ ~sock[a].open /\ ~sock[a].tangled /\ sock[a].sent = 0 /\ sock[a].received = 0
      /\ \A u \in Socks : sock[u].open => sock[u].peer # a
      /\ \A i \in DOMAIN list : list[i] # a
      /\ sock_call[a].in = "idle" /\ sock_call[a].out = "idle"
  BY <1>1, NewIsAlone
<1>5. a # c
  BY <1>3, <1>4
<1>6. sock \in [Socks -> SockRecords] /\ sock_call \in [Socks -> SockCalls]
      /\ sock[a] \in SockRecords /\ sock[c] \in SockRecords
  BY <1>1, <1>3 DEF StreamInv, SockTypes
<1>7. ~sock[c].tangled => sock[c].open /\ sock[c].ring = NoRing
  BY <1>3 DEF StreamInv, Waiting
<1>8. \A i \in DOMAIN list : list[i] = c => i = 1
  BY <1>3 DEF StreamInv, Waiting
<1>9. /\ sock_listen'.list = Tail(list) /\ sock_listen'.acceptor = "idle"
      /\ sock_listen' \in [max_pending : Nat, list : Seq(SockClients),
                           acceptor : {"idle", "asleep", "woken"}]
  <2>1. sock_listen \in [max_pending : Nat, list : Seq(SockClients),
                         acceptor : {"idle", "asleep", "woken"}]
    BY DEF StreamInv, SockTypes
  <2>2. sock_listen' = [sock_listen EXCEPT !.list = Tail(list), !.acceptor = "idle"]
    BY <1>1
  <2> DEFINE l == Tail(list)
  <2> HIDE DEF l
  <2>3. sock_listen' = [sock_listen EXCEPT !.list = l, !.acceptor = "idle"] /\ l \in Seq(SockClients)
    BY <1>3, <2>2 DEF l
  <2>4. /\ sock_listen'.list = l /\ sock_listen'.acceptor = "idle"
        /\ sock_listen' \in [max_pending : Nat, list : Seq(SockClients),
                             acceptor : {"idle", "asleep", "woken"}]
    BY <2>1, <2>3
  <2> QED BY <2>4 DEF l
<1>10. kept \in SockRings /\ kept # NoRing /\ (sock[c].ring = NoRing => kept = <<>>) /\ wait \in Nat
  BY <1>6, SockFields, RingWell
<1> HIDE DEF c, kept, wait, list
<1>11. sock' = [sock EXCEPT
            ![a].open = TRUE, ![a].peer = c, ![a].ring = <<>>, ![a].tangled = sock[c].tangled,
            ![c].peer = a, ![c].ring = kept, ![c].pending = wait]
  BY <1>1, <1>3, <1>5, <1>6 DEF kept, wait
<1>12. /\ DOMAIN sock' = Socks /\ \A u \in Socks : u # a /\ u # c => sock'[u] = sock[u]
       /\ sock'[a] = [[[[sock[a] EXCEPT !.open = TRUE] EXCEPT !.peer = c] EXCEPT !.ring = <<>>]
                         EXCEPT !.tangled = sock[c].tangled]
       /\ sock'[c] = [[[sock[c] EXCEPT !.peer = a] EXCEPT !.ring = kept] EXCEPT !.pending = wait]
  BY <1>1, <1>3, <1>5, <1>6, <1>11
<1>13. sock'[a] \in SockRecords
  <2> DEFINE e == [sock[a] EXCEPT !.open = TRUE]
             f == [e EXCEPT !.peer = c]
             g == [f EXCEPT !.ring = <<>>]
             h == [g EXCEPT !.tangled = sock[c].tangled]
  <2>1. e \in SockRecords
    BY <1>6, SockUpdated
  <2> HIDE DEF e
  <2>2. f \in SockRecords
    BY <1>3, <2>1, SockUpdated
  <2> HIDE DEF f
  <2>3. g \in SockRecords
    BY <2>2, RingWell, SockUpdated
  <2> HIDE DEF g
  <2>4. sock[c].tangled \in BOOLEAN
    BY <1>6, SockFields
  <2>5. h \in SockRecords
    BY <2>3, <2>4, SockUpdated
  <2> QED BY <1>12, <2>5 DEF e, f, g
<1>14. sock'[c] \in SockRecords
  <2> DEFINE e == [sock[c] EXCEPT !.peer = a]
             f == [e EXCEPT !.ring = kept]
             g == [f EXCEPT !.pending = wait]
  <2>1. e \in SockRecords
    BY <1>1, <1>6, SockUpdated
  <2> HIDE DEF e
  <2>2. f \in SockRecords
    BY <1>10, <2>1, SockUpdated
  <2> HIDE DEF f
  <2>3. g \in SockRecords
    BY <1>10, <2>2, SockUpdated
  <2> QED BY <1>12, <2>3 DEF e, f
<1>15. sock' \in [Socks -> SockRecords]
  BY <1>6, <1>11, <1>12, <1>13, <1>14
<1>16. /\ sock'[a].open /\ sock'[a].peer = c /\ sock'[a].ring = <<>> /\ sock'[a].sent = 0
       /\ sock'[a].received = 0 /\ sock'[a].tangled = sock[c].tangled
  BY <1>4, <1>6, <1>12 DEF SockRecords
<1>17. /\ sock'[c].open = sock[c].open /\ sock'[c].peer = a /\ sock'[c].ring = kept
       /\ sock'[c].sent = sock[c].sent /\ sock'[c].received = sock[c].received
       /\ sock'[c].tangled = sock[c].tangled
  BY <1>6, <1>12 DEF SockRecords
<1>18. /\ sock_call' \in [Socks -> SockCalls] /\ \A u \in Socks : u # c => sock_call'[u] = sock_call[u]
       /\ ~Asleep(sock_call'[c].in) /\ ~Asleep(sock_call'[c].out)
       /\ sock_call[c].in = "idle" => sock_call'[c].in = "idle"
       /\ sock_call[c].out = "idle" => sock_call'[c].out = "idle"
  BY <1>1, <1>3, <1>6, ToldCalls
<1>19. SockTypes'
  BY <1>9, <1>15, <1>18 DEF SockTypes
\* A socket that was never connected has no peer, and nobody open points to it.
<1>20. ASSUME ~sock[c].tangled
       PROVE  /\ sock[c].peer = NoPeer /\ sock[c].sent = 0 /\ sock[c].received = 0
              /\ \A u \in Socks : sock[u].open => sock[u].peer # c
  <2>1. sock[c].peer = NoPeer /\ sock[c].sent = 0 /\ sock[c].received = 0
    BY <1>3, <1>7, <1>20 DEF StreamInv, Ringed
  <2>2. c # NoPeer /\ \A u \in Socks : u # NoPeer
    BY <1>3, LocalSocketAssumption
  <2> QED BY <1>20, <2>1, <2>2 DEF StreamInv, Mutual
<1>21. a # NoPeer /\ c # NoPeer
  BY <1>1, <1>3, LocalSocketAssumption
<1>22. Mutual'
  <2> SUFFICES ASSUME NEW u \in Socks, sock'[u].open, sock'[u].peer # NoPeer, ~sock'[sock'[u].peer].tangled
               PROVE  sock'[sock'[u].peer].open /\ sock'[sock'[u].peer].peer = u
    BY DEF Mutual
  <2>1. CASE u = a
    BY <1>7, <1>16, <1>17, <2>1
  <2>2. CASE u = c
    BY <1>16, <1>17, <2>2
  <2>3. CASE u # a /\ u # c
    <3>1. sock'[u] = sock[u] /\ sock[u].peer \in Socks
      BY <1>6, <1>12, <2>3, SockFields
    <3>2. sock[u].peer # a
      BY <1>4, <3>1
    <3>3. sock[u].peer # c
      BY <1>17, <1>20, <3>1
    <3> QED BY <1>12, <3>1, <3>2, <3>3 DEF StreamInv, Mutual
  <2> QED BY <2>1, <2>2, <2>3
<1>23. Ringed'
  <2> SUFFICES ASSUME NEW u \in Socks, sock'[u].open
               PROVE  /\ sock'[u].peer # NoPeer => sock'[u].ring # NoRing
                      /\ sock'[u].ring = NoRing => sock'[u].sent = 0 /\ sock'[u].received = 0
    BY DEF Ringed
  <2>1. CASE u \in {a, c}
    BY <1>10, <1>16, <1>17, <2>1, RingWell
  <2>2. CASE u \notin {a, c}
    BY <1>12, <2>2 DEF StreamInv, Ringed
  <2> QED BY <2>1, <2>2
<1>24. ClosedIdle'
  <2> SUFFICES ASSUME NEW u \in Socks, ~sock'[u].open
               PROVE  sock_call'[u].in = "idle" /\ sock_call'[u].out = "idle"
    BY DEF ClosedIdle
  <2>1. u # a /\ ~sock[u].open
    BY <1>12, <1>16, <1>17
  <2>2. sock_call[u].in = "idle" /\ sock_call[u].out = "idle"
    BY <2>1 DEF StreamInv, ClosedIdle
  <2> QED BY <1>18, <2>2
<1>25. ASSUME NEW u \in Socks, Tied(u)', u # a, u # c
       PROVE  /\ sock'[u] = sock[u] /\ sock'[sock[u].peer] = sock[sock[u].peer] /\ Tied(u)
              /\ sock_call'[u] = sock_call[u]
  <2>1. sock'[u] = sock[u] /\ sock[u].peer \in Socks
    BY <1>6, <1>12, <1>25, SockFields DEF Tied
  <2>2. sock[u].open /\ sock[u].peer # a /\ ~sock'[sock[u].peer].tangled
    BY <1>4, <1>25, <2>1 DEF Tied
  <2>3. sock[u].peer # c
    BY <1>17, <1>20, <2>2
  <2>4. sock'[sock[u].peer] = sock[sock[u].peer]
    BY <1>12, <2>1, <2>2, <2>3
  <2> QED BY <1>18, <1>25, <2>1, <2>4 DEF Tied
<1>26. ASSUME NEW u \in Socks, u \in {a, c}, Tied(u)'
       PROVE  ~sock[c].tangled /\ sock[c].ring = NoRing
  BY <1>7, <1>16, <1>17, <1>26 DEF Tied
<1>27. Counted(0, 0) = <<>>
  BY DEF Counted
<1>28. Streams'
  <2> SUFFICES ASSUME NEW u \in Socks, Tied(u)'
               PROVE  /\ sock'[u].received <= sock'[sock'[u].peer].sent
                      /\ sock'[u].ring = Counted(sock'[u].received,
                                                 sock'[sock'[u].peer].sent - sock'[u].received)
    BY DEF Streams
  <2>1. CASE u = a
    <3>1. sock'[u].received = 0 /\ sock'[sock'[u].peer].sent = 0 /\ sock'[u].ring = <<>>
      BY <1>16, <1>17, <1>20, <1>26, <2>1
    <3> QED BY <1>27, <3>1
  <2>2. CASE u = c
    <3>1. sock'[u].received = 0 /\ sock'[sock'[u].peer].sent = 0 /\ sock'[u].ring = <<>>
      BY <1>10, <1>16, <1>17, <1>20, <1>26, <2>2
    <3> QED BY <1>27, <3>1
  <2>3. CASE u # a /\ u # c
    BY <1>25, <2>3 DEF StreamInv, Streams
  <2> QED BY <2>1, <2>2, <2>3
<1>29. Sleepers'
  <2> SUFFICES ASSUME NEW u \in Socks, Tied(u)'
               PROVE  /\ sock_call'[u].in = "receives" => sock'[u].ring = <<>>
                      /\ sock_call'[u].out = "sends" => Len(sock'[sock'[u].peer].ring) = RingCapacity
                      /\ sock_call'[u].out # "connects"
    BY DEF Sleepers
  <2>1. CASE u = a
    BY <1>4, <1>5, <1>18, <2>1
  <2>2. CASE u = c
    BY <1>18, <2>2 DEF Asleep
  <2>3. CASE u # a /\ u # c
    BY <1>25, <2>3 DEF StreamInv, Sleepers
  <2> QED BY <2>1, <2>2, <2>3
<1>30. Acceptor'
  BY <1>9 DEF Acceptor
<1>31. Waiting'
  <2> DEFINE l == Tail(list)
  <2>1. /\ \A i, j \in DOMAIN list : list[i] = list[j] => i = j
        /\ \A i \in DOMAIN list : ~sock[list[i]].tangled => sock[list[i]].open /\ sock[list[i]].ring = NoRing
    BY DEF StreamInv, Waiting, list
  <2>2. \A i \in DOMAIN l : i + 1 \in DOMAIN list /\ l[i] = list[i + 1] /\ i \in Nat /\ i # 0
    BY <1>1, <1>2 DEF list
  <2> HIDE DEF l
  <2>3. \A i, j \in DOMAIN l : l[i] = l[j] => i = j
    <3> SUFFICES ASSUME NEW i \in DOMAIN l, NEW j \in DOMAIN l, l[i] = l[j] PROVE i = j
      OBVIOUS
    <3>1. i + 1 = j + 1
      BY <2>1, <2>2
    <3> QED BY <2>2, <3>1
  <2>4. \A i \in DOMAIN l : sock'[l[i]] = sock[l[i]] /\ \E j \in DOMAIN list : l[i] = list[j]
    <3> SUFFICES ASSUME NEW i \in DOMAIN l
                 PROVE  sock'[l[i]] = sock[l[i]] /\ \E j \in DOMAIN list : l[i] = list[j]
      OBVIOUS
    <3>1. i + 1 \in DOMAIN list /\ l[i] = list[i + 1] /\ i + 1 # 1
      BY <2>2
    <3>2. l[i] # a /\ l[i] # c /\ l[i] \in Socks
      BY <1>2, <1>4, <1>8, <3>1
    <3> QED BY <1>12, <3>1, <3>2
  <2>5. \A i \in DOMAIN l : ~sock'[l[i]].tangled => sock'[l[i]].open /\ sock'[l[i]].ring = NoRing
    BY <2>1, <2>4
  <2> QED BY <1>9, <2>3, <2>5 DEF Waiting, l
<1> QED BY <1>19, <1>22, <1>23, <1>24, <1>28, <1>29, <1>30, <1>31 DEF StreamInv

LEMMA SocketpairKeeps ==
    ASSUME StreamInv, ~sock_crashed, NEW s \in SockAccepted, NEW t \in SockAccepted,
           sock_socketpair(s, t)
    PROVE  StreamInv'
<1>1. /\ s \in Socks /\ t \in Socks /\ s # t /\ sock[s] = NewSock /\ sock[t] = NewSock
      /\ sock' = [sock EXCEPT ![s].open = TRUE, ![s].peer = t, ![s].ring = <<>>,
                              ![t].open = TRUE, ![t].peer = s, ![t].ring = <<>>]
      /\ sock_call' = sock_call /\ sock_listen' = sock_listen /\ sock_crashed' = sock_crashed
  BY DEF sock_socketpair, Socks
<1>2. \A a \in {s, t} :
         /\ ~sock[a].open /\ ~sock[a].tangled /\ sock[a].sent = 0 /\ sock[a].received = 0
         /\ \A u \in Socks : sock[u].open => sock[u].peer # a
         /\ \A i \in DOMAIN sock_listen.list : sock_listen.list[i] # a
         /\ sock_call[a].in = "idle" /\ sock_call[a].out = "idle"
  BY <1>1, NewIsAlone
<1>3. sock \in [Socks -> SockRecords] /\ sock_call \in [Socks -> SockCalls]
      /\ sock[s] \in SockRecords /\ sock[t] \in SockRecords
  BY <1>1 DEF StreamInv, SockTypes
<1>4. /\ DOMAIN sock' = Socks /\ \A u \in Socks : u # s /\ u # t => sock'[u] = sock[u]
      /\ sock'[s] = [[[sock[s] EXCEPT !.open = TRUE] EXCEPT !.peer = t] EXCEPT !.ring = <<>>]
      /\ sock'[t] = [[[sock[t] EXCEPT !.open = TRUE] EXCEPT !.peer = s] EXCEPT !.ring = <<>>]
  BY <1>1, <1>3
<1>5. ASSUME NEW e \in SockRecords, NEW p \in Socks
      PROVE  [[[e EXCEPT !.open = TRUE] EXCEPT !.peer = p] EXCEPT !.ring = <<>>] \in SockRecords
  <2> DEFINE f == [e EXCEPT !.open = TRUE]
             g == [f EXCEPT !.peer = p]
  <2>1. f \in SockRecords
    BY SockUpdated
  <2> HIDE DEF f
  <2>2. g \in SockRecords
    BY <2>1, SockUpdated
  <2> HIDE DEF g
  <2>3. [g EXCEPT !.ring = <<>>] \in SockRecords
    BY <2>2, SockUpdated, RingWell
  <2> QED BY <2>3 DEF f, g
<1>6. sock' \in [Socks -> SockRecords]
  <2>1. sock'[s] \in SockRecords /\ sock'[t] \in SockRecords
    BY <1>1, <1>3, <1>4, <1>5
  <2> QED BY <1>1, <1>3, <1>4, <2>1
<1>7. /\ sock'[s].open /\ sock'[s].peer = t /\ sock'[s].ring = <<>> /\ sock'[s].sent = 0
      /\ sock'[s].received = 0 /\ ~sock'[s].tangled
      /\ sock'[t].open /\ sock'[t].peer = s /\ sock'[t].ring = <<>> /\ sock'[t].sent = 0
      /\ sock'[t].received = 0 /\ ~sock'[t].tangled
  BY <1>2, <1>3, <1>4 DEF SockRecords
<1>8. SockTypes'
  BY <1>1, <1>3, <1>6 DEF StreamInv, SockTypes
<1>9. ASSUME NEW u \in Socks, sock'[u].open, sock'[u].peer # NoPeer, u \notin {s, t}
      PROVE  /\ sock'[u] = sock[u] /\ sock[u].peer \in Socks
             /\ sock'[sock[u].peer] = sock[sock[u].peer]
  <2>1. sock'[u] = sock[u]
    BY <1>4, <1>9
  <2>2. sock[u].peer \in Socks
    BY <1>3, <1>9, <2>1, SockFields
  <2> QED BY <1>2, <1>4, <1>9, <2>1, <2>2
<1>10. Mutual'
  <2> SUFFICES ASSUME NEW u \in Socks, sock'[u].open, sock'[u].peer # NoPeer, ~sock'[sock'[u].peer].tangled
               PROVE  sock'[sock'[u].peer].open /\ sock'[sock'[u].peer].peer = u
    BY DEF Mutual
  <2>1. CASE u \in {s, t}
    BY <1>7, <2>1
  <2>2. CASE u \notin {s, t}
    BY <1>9, <2>2 DEF StreamInv, Mutual
  <2> QED BY <2>1, <2>2
<1>11. Ringed'
  <2> SUFFICES ASSUME NEW u \in Socks, sock'[u].open
               PROVE  /\ sock'[u].peer # NoPeer => sock'[u].ring # NoRing
                      /\ sock'[u].ring = NoRing => sock'[u].sent = 0 /\ sock'[u].received = 0
    BY DEF Ringed
  <2>1. CASE u \in {s, t}
    BY <1>7, <2>1, RingWell
  <2>2. CASE u \notin {s, t}
    BY <1>4, <2>2 DEF StreamInv, Ringed
  <2> QED BY <2>1, <2>2
<1>12. ClosedIdle'
  BY <1>1, <1>4, <1>7 DEF StreamInv, ClosedIdle
<1>13. ASSUME NEW u \in Socks, Tied(u)', u \notin {s, t}
       PROVE  sock'[u] = sock[u] /\ sock'[sock[u].peer] = sock[sock[u].peer] /\ Tied(u)
  <2>1. sock'[u].open /\ sock'[u].peer # NoPeer
    BY <1>13 DEF Tied
  <2> QED BY <1>9, <1>13, <2>1 DEF Tied
<1>14. Counted(0, 0) = <<>>
  BY DEF Counted
<1>15. Streams'
  <2> SUFFICES ASSUME NEW u \in Socks, Tied(u)'
               PROVE  /\ sock'[u].received <= sock'[sock'[u].peer].sent
                      /\ sock'[u].ring = Counted(sock'[u].received,
                                                 sock'[sock'[u].peer].sent - sock'[u].received)
    BY DEF Streams
  <2>1. CASE u \in {s, t}
    <3>1. sock'[u].received = 0 /\ sock'[sock'[u].peer].sent = 0 /\ sock'[u].ring = <<>>
      BY <1>7, <2>1
    <3> QED BY <1>14, <3>1
  <2>2. CASE u \notin {s, t}
    BY <1>13, <2>2 DEF StreamInv, Streams
  <2> QED BY <2>1, <2>2
<1>16. Sleepers'
  <2> SUFFICES ASSUME NEW u \in Socks, Tied(u)'
               PROVE  /\ sock_call'[u].in = "receives" => sock'[u].ring = <<>>
                      /\ sock_call'[u].out = "sends" => Len(sock'[sock'[u].peer].ring) = RingCapacity
                      /\ sock_call'[u].out # "connects"
    BY DEF Sleepers
  <2>1. CASE u \in {s, t}
    BY <1>1, <1>2, <2>1
  <2>2. CASE u \notin {s, t}
    <3>1. sock'[u] = sock[u] /\ sock'[sock[u].peer] = sock[sock[u].peer] /\ Tied(u)
      BY <1>13, <2>2
    <3>2. /\ sock_call[u].in = "receives" => sock[u].ring = <<>>
          /\ sock_call[u].out = "sends" => Len(sock[sock[u].peer].ring) = RingCapacity
          /\ sock_call[u].out # "connects"
      BY <3>1 DEF StreamInv, Sleepers
    <3> QED BY <1>1, <3>1, <3>2
  <2> QED BY <2>1, <2>2
<1>17. Acceptor'
  BY <1>1 DEF StreamInv, Acceptor
<1>18. Waiting'
  <2>1. \A i \in DOMAIN sock_listen.list : sock'[sock_listen.list[i]] = sock[sock_listen.list[i]]
    BY <1>2, <1>4, WaitingSocks DEF StreamInv
  <2> DEFINE l == sock_listen.list
  <2>2. /\ \A i, j \in DOMAIN l : l[i] = l[j] => i = j
        /\ \A i \in DOMAIN l : ~sock[l[i]].tangled => sock[l[i]].open /\ sock[l[i]].ring = NoRing
    BY DEF StreamInv, Waiting
  <2> HIDE DEF l
  <2>3. \A i \in DOMAIN l : ~sock'[l[i]].tangled => sock'[l[i]].open /\ sock'[l[i]].ring = NoRing
    BY <2>1, <2>2 DEF l
  <2>4. sock_listen'.list = l
    BY <1>1 DEF l
  <2> QED BY <2>2, <2>3, <2>4 DEF Waiting
<1> QED BY <1>8, <1>10, <1>11, <1>12, <1>15, <1>16, <1>17, <1>18 DEF StreamInv

LEMMA CloseKeeps ==
    ASSUME StreamInv, ~sock_crashed, NEW s \in Socks, sock_close(s)
    PROVE  StreamInv'
<1> DEFINE t == sock[s].peer
           cut == PeerCut(s)
           tangled == cut[s].tangled \/ Linked(s)
<1>1. /\ sock[s].open /\ sock_call[s].in = "idle" /\ sock_call[s].out = "idle"
      /\ sock' = [cut EXCEPT ![s].open = FALSE, ![s].ring = NoRing, ![s].tangled = tangled]
      /\ sock_call' = sock_call /\ sock_listen' = sock_listen /\ sock_crashed' = sock_crashed
  BY DEF sock_close
<1>2. sock \in [Socks -> SockRecords] /\ sock[s] \in SockRecords /\ t \in Socks \cup {NoPeer}
  <2>1. sock \in [Socks -> SockRecords] /\ sock[s] \in SockRecords
    BY DEF StreamInv, SockTypes
  <2> QED BY <2>1, SockFields
<1>3. /\ cut \in [Socks -> SockRecords]
      /\ \A u \in Socks : u # t => cut[u] = sock[u]
      /\ \A u \in Socks : u = t => cut[u] = [sock[u] EXCEPT !.peer = NoPeer]
  <2>1. CASE t = NoPeer
    <3>1. cut = sock
      BY <2>1 DEF PeerCut
    <3> QED BY <1>2, <2>1, <3>1, LocalSocketAssumption
  <2>2. CASE t \in Socks /\ t # NoPeer
    <3>1. cut = [sock EXCEPT ![t].peer = NoPeer]
      BY <2>2 DEF PeerCut
    <3>2. [sock[t] EXCEPT !.peer = NoPeer] \in SockRecords
      BY <1>2, <2>2, SockUpdated
    <3> QED BY <1>2, <2>2, <3>1, <3>2
  <2> QED BY <1>2, <2>1, <2>2
<1>4. \A u \in Socks : /\ cut[u].open = sock[u].open /\ cut[u].ring = sock[u].ring
                       /\ cut[u].sent = sock[u].sent /\ cut[u].received = sock[u].received
                       /\ cut[u].tangled = sock[u].tangled
                       /\ cut[u].peer = IF u = t THEN NoPeer ELSE sock[u].peer
  BY <1>2, <1>3 DEF SockRecords
<1>5. cut[s] \in SockRecords /\ tangled \in BOOLEAN
  BY <1>3
<1> HIDE DEF cut, tangled, t
<1>6. /\ DOMAIN sock' = Socks /\ \A u \in Socks : u # s => sock'[u] = cut[u]
      /\ sock'[s] = [[[cut[s] EXCEPT !.open = FALSE] EXCEPT !.ring = NoRing] EXCEPT !.tangled = tangled]
  BY <1>1, <1>3
<1>7. sock'[s] \in SockRecords
  <2> DEFINE e == [cut[s] EXCEPT !.open = FALSE]
             f == [e EXCEPT !.ring = NoRing]
             g == [f EXCEPT !.tangled = tangled]
  <2>1. e \in SockRecords
    BY <1>5, SockUpdated
  <2> HIDE DEF e
  <2>2. NoRing \in SockRings
    BY DEF SockRings
  <2>3. f \in SockRecords
    BY <2>1, <2>2, SockUpdated
  <2> HIDE DEF f
  <2>4. g \in SockRecords
    BY <1>5, <2>3, SockUpdated
  <2> QED BY <1>6, <2>4 DEF e, f
<1>8. sock' \in [Socks -> SockRecords]
  BY <1>1, <1>3, <1>6, <1>7
<1>9. ~sock'[s].open /\ sock'[s].tangled = tangled
  BY <1>5, <1>6 DEF SockRecords
<1>10. \A u \in Socks : u # s =>
          /\ sock'[u].open = sock[u].open /\ sock'[u].ring = sock[u].ring
          /\ sock'[u].sent = sock[u].sent /\ sock'[u].received = sock[u].received
          /\ sock'[u].tangled = sock[u].tangled
          /\ sock'[u].peer = IF u = t THEN NoPeer ELSE sock[u].peer
  BY <1>4, <1>6
<1>11. tangled = (sock[s].tangled \/ Linked(s))
  BY <1>4 DEF tangled
<1>12. SockTypes'
  BY <1>1, <1>8 DEF StreamInv, SockTypes
\* Whom an open socket still points to after the close was not cut off.
<1>13. ASSUME NEW u \in Socks, sock'[u].open, sock'[u].peer # NoPeer, ~sock'[sock'[u].peer].tangled
       PROVE  /\ u # s /\ u # t /\ sock'[u].peer = sock[u].peer /\ sock[u].peer \in Socks
              /\ sock[u].peer # s /\ sock[u].peer # t /\ ~sock[sock[u].peer].tangled
  <2>1. u # s /\ u # t /\ sock'[u].peer = sock[u].peer /\ sock[u].open
    BY <1>9, <1>10, <1>13
  <2>2. sock[u].peer \in Socks
    BY <1>2, <1>13, <2>1, SockFields
  <2>3. sock[u].peer # s
    <3>1. ASSUME sock[u].peer = s PROVE FALSE
      <4>1. ~sock[s].tangled
        BY <1>9, <1>11, <1>13, <2>1, <3>1
      <4> QED BY <1>13, <2>1, <3>1, <4>1 DEF StreamInv, Mutual, t
    <3> QED BY <3>1
  <2>4. ~sock[sock[u].peer].tangled
    BY <1>10, <1>13, <2>1, <2>2, <2>3
  <2>5. sock[u].peer # t
    <3>1. ASSUME sock[u].peer = t PROVE FALSE
      <4>1. sock[t].peer = s /\ sock[t].peer = u
        BY <1>1, <1>13, <2>1, <2>2, <2>4, <3>1 DEF StreamInv, Mutual, t
      <4> QED BY <2>1, <4>1
    <3> QED BY <3>1
  <2> QED BY <2>1, <2>2, <2>3, <2>4, <2>5
<1>14. Mutual'
  <2> SUFFICES ASSUME NEW u \in Socks, sock'[u].open, sock'[u].peer # NoPeer, ~sock'[sock'[u].peer].tangled
               PROVE  sock'[sock'[u].peer].open /\ sock'[sock'[u].peer].peer = u
    BY DEF Mutual
  <2>1. /\ u # s /\ u # t /\ sock'[u].peer = sock[u].peer /\ sock[u].peer \in Socks
        /\ sock[u].peer # s /\ sock[u].peer # t /\ ~sock[sock[u].peer].tangled
    BY <1>13
  <2>2. sock[sock[u].peer].open /\ sock[sock[u].peer].peer = u
    BY <1>10, <2>1 DEF StreamInv, Mutual
  <2> QED BY <1>10, <2>1, <2>2
<1>15. Ringed'
  BY <1>9, <1>10 DEF StreamInv, Ringed
<1>16. ClosedIdle'
  BY <1>1, <1>10 DEF StreamInv, ClosedIdle
<1>17. ASSUME NEW u \in Socks, Tied(u)'
       PROVE  /\ u # s /\ sock'[u].peer = sock[u].peer /\ Tied(u)
              /\ sock'[sock[u].peer].sent = sock[sock[u].peer].sent
              /\ sock'[sock[u].peer].ring = sock[sock[u].peer].ring
  <2>1. sock'[u].open /\ sock'[u].peer # NoPeer /\ ~sock'[sock'[u].peer].tangled /\ ~sock'[u].tangled
    BY <1>17 DEF Tied
  <2>2. /\ u # s /\ u # t /\ sock'[u].peer = sock[u].peer /\ sock[u].peer \in Socks
        /\ sock[u].peer # s /\ sock[u].peer # t /\ ~sock[sock[u].peer].tangled
    BY <1>13, <2>1
  <2> QED BY <1>10, <2>1, <2>2 DEF Tied
<1>18. Streams'
  BY <1>10, <1>17 DEF StreamInv, Streams
<1>19. Sleepers'
  <2> SUFFICES ASSUME NEW u \in Socks, Tied(u)'
               PROVE  /\ sock_call'[u].in = "receives" => sock'[u].ring = <<>>
                      /\ sock_call'[u].out = "sends" => Len(sock'[sock'[u].peer].ring) = RingCapacity
                      /\ sock_call'[u].out # "connects"
    BY DEF Sleepers
  <2>1. /\ sock'[u].ring = sock[u].ring /\ sock'[u].peer = sock[u].peer /\ Tied(u)
        /\ sock'[sock[u].peer].ring = sock[sock[u].peer].ring
    BY <1>10, <1>17
  <2>2. /\ sock_call[u].in = "receives" => sock[u].ring = <<>>
        /\ sock_call[u].out = "sends" => Len(sock[sock[u].peer].ring) = RingCapacity
        /\ sock_call[u].out # "connects"
    BY <2>1 DEF StreamInv, Sleepers
  <2> QED BY <1>1, <2>1, <2>2
<1>20. Acceptor'
  BY <1>1 DEF StreamInv, Acceptor
<1>21. Waiting'
  <2>1. \A i \in DOMAIN sock_listen.list : sock_listen.list[i] \in Socks
    BY WaitingSocks DEF StreamInv
  <2>2. ASSUME NEW i \in DOMAIN sock_listen.list, ~sock'[sock_listen.list[i]].tangled
        PROVE  sock'[sock_listen.list[i]].open /\ sock'[sock_listen.list[i]].ring = NoRing
    <3>1. sock_listen.list[i] # s
      BY <1>9, <1>11, <2>2 DEF Linked
    <3> QED BY <1>10, <2>1, <2>2, <3>1 DEF StreamInv, Waiting
  <2> QED BY <1>1, <2>2 DEF StreamInv, Waiting
<1> QED BY <1>12, <1>14, <1>15, <1>16, <1>18, <1>19, <1>20, <1>21 DEF StreamInv

LEMMA StreamStays ==
    ASSUME StreamInv, UNCHANGED stream_vars PROVE StreamInv'
BY DEF stream_vars, StreamInv, SockTypes, Mutual, Ringed, ClosedIdle, Waiting, Streams, Sleepers,
       Acceptor, Tied

LEMMA StreamNextKeeps ==
    ASSUME StreamInv, StreamNext PROVE StreamInv'
<1>1. ~sock_crashed
  BY DEF StreamNext
<1>2. CASE sock_do_listen
  BY <1>2, ListenKeeps
<1>3. CASE \E c \in SockClients : sock_connect(c)
  BY <1>1, <1>3, ConnectKeeps
<1>4. CASE \E a \in SockAccepted : sock_accept(a)
  BY <1>1, <1>4, AcceptKeeps
<1>5. CASE accept_sleeps
  BY <1>5, AcceptSleepsKeeps
<1>6. CASE \E s, t \in SockAccepted : sock_socketpair(s, t)
  BY <1>1, <1>6, SocketpairKeeps
<1>7. CASE \E s \in Socks : \/ \E n \in Chunks : sock_recvmsg(s, n) \/ sock_sendmsg(s, n)
                            \/ sock_returns(s) \/ sock_close(s)
  <2>1. PICK s \in Socks : \/ \E n \in Chunks : sock_recvmsg(s, n) \/ sock_sendmsg(s, n)
                           \/ sock_returns(s) \/ sock_close(s)
    BY <1>7
  <2>2. CASE \E n \in Chunks : sock_recvmsg(s, n)
    BY <1>1, <2>2, RecvKeeps
  <2>3. CASE \E n \in Chunks : sock_sendmsg(s, n)
    BY <1>1, <2>3, SendKeeps
  <2>4. CASE sock_returns(s)
    BY <2>4, ReturnsKeeps
  <2>5. CASE sock_close(s)
    BY <1>1, <2>5, CloseKeeps
  <2> QED BY <2>1, <2>2, <2>3, <2>4, <2>5
<1> QED BY <1>2, <1>3, <1>4, <1>5, <1>6, <1>7 DEF StreamNext

\* Datagrams: every datagram that waits was sent by somebody the history names, so that
\* with one sender its receipt tells the right one.
DgCalls == [in : {"idle", "receives", "received"}, out : {"idle", "sends", "sent"}, target : DgSockets]
DgTypes ==
    /\ dg_call \in [DgSockets -> DgCalls] /\ dg_sent \in [DgSockets -> Nat]
    /\ dg_sock \in [DgSockets -> Seq(DgSockets \X Nat)]
    /\ dg_from \in [DgSockets -> SUBSET DgSockets]
Named == \A t \in DgSockets : \A i \in DOMAIN dg_sock[t] : dg_sock[t][i][1] \in dg_from[t]
DgInv == DgTypes /\ Named /\ DgStranded

LEMMA DgInitInv ==
    ASSUME LocalSocketInit PROVE DgInv
<1>1. \A d \in DgSockets : DOMAIN dg_sock[d] = {}
  BY DEF LocalSocketInit
<1>2. dg_call \in [DgSockets -> DgCalls]
  BY DEF LocalSocketInit, DgCalls
<1>3. dg_sock \in [DgSockets -> Seq(DgSockets \X Nat)]
  BY DEF LocalSocketInit
<1>4. dg_sent \in [DgSockets -> Nat] /\ dg_from \in [DgSockets -> SUBSET DgSockets]
  BY DEF LocalSocketInit
<1>5. Named
  BY <1>1 DEF Named
<1>6. DgStranded
  <2>1. \A d \in DgSockets : dg_call[d].out = "idle"
    BY DEF LocalSocketInit
  <2> QED BY <2>1 DEF DgStranded
<1> QED BY <1>2, <1>3, <1>4, <1>5, <1>6 DEF DgInv, DgTypes

\* The trigger of a datagram socket's event: t's sleepers wake up, the rest stays.
LEMMA DgTold ==
    ASSUME NEW calls \in [DgSockets -> DgCalls], NEW t \in DgSockets
    PROVE  /\ Told(calls, t) \in [DgSockets -> DgCalls]
           /\ \A d \in DgSockets : d # t => Told(calls, t)[d] = calls[d]
           /\ Told(calls, t)[t].target = calls[t].target /\ Told(calls, t)[t].out # "sends"
           /\ calls[t].in = "idle" => Told(calls, t)[t].in = "idle"
           /\ calls[t].out = "idle" => Told(calls, t)[t].out = "idle"
<1> DEFINE new == Told(calls, t)[t]
<1>1. Told(calls, t) = [calls EXCEPT ![t].in = Up(@), ![t].out = Up(@)] /\ calls[t] \in DgCalls
  BY DEF Told
<1>2. /\ new = [[calls[t] EXCEPT !.in = Up(calls[t].in)] EXCEPT !.out = Up(calls[t].out)]
      /\ \A d \in DgSockets : d # t => Told(calls, t)[d] = calls[d]
      /\ DOMAIN Told(calls, t) = DgSockets
  BY <1>1
<1>3. Up(calls[t].in) \in {"idle", "received"} /\ (calls[t].in = "idle" => Up(calls[t].in) = "idle")
  BY <1>1 DEF DgCalls, Up
<1>4. Up(calls[t].out) \in {"idle", "sent"} /\ (calls[t].out = "idle" => Up(calls[t].out) = "idle")
  BY <1>1 DEF DgCalls, Up
<1>5. /\ new \in DgCalls /\ new.in = Up(calls[t].in) /\ new.out = Up(calls[t].out)
      /\ new.target = calls[t].target
  BY <1>1, <1>2, <1>3, <1>4 DEF DgCalls
<1>6. Told(calls, t) \in [DgSockets -> DgCalls]
  <2> SUFFICES ASSUME NEW d \in DgSockets PROVE Told(calls, t)[d] \in DgCalls
    BY <1>1
  <2> QED BY <1>2, <1>5
<1> QED BY <1>2, <1>3, <1>4, <1>5, <1>6

LEMMA DgOneCall ==
    ASSUME NEW c \in [DgSockets -> DgCalls], NEW d \in DgSockets
    PROVE  /\ \A x \in {"idle", "receives"} :
                 /\ CallIn(c, d, x) \in [DgSockets -> DgCalls]
                 /\ \A u \in DgSockets : /\ CallIn(c, d, x)[u].out = c[u].out
                                         /\ CallIn(c, d, x)[u].target = c[u].target
           /\ CallOut(c, d, "idle") \in [DgSockets -> DgCalls]
           /\ CallOut(c, d, "idle")[d].out = "idle"
           /\ \A u \in DgSockets : u # d => CallOut(c, d, "idle")[u] = c[u]
<1>1. c[d] \in DgCalls
  OBVIOUS
<1>2. \A x \in {"idle", "receives"} : /\ [c[d] EXCEPT !.in = x] \in DgCalls
                                      /\ [c[d] EXCEPT !.in = x].out = c[d].out
                                      /\ [c[d] EXCEPT !.in = x].target = c[d].target
  BY <1>1 DEF DgCalls
<1>3. [c[d] EXCEPT !.out = "idle"] \in DgCalls /\ [c[d] EXCEPT !.out = "idle"].out = "idle"
  BY <1>1 DEF DgCalls
<1> QED BY <1>2, <1>3 DEF CallIn, CallOut

LEMMA DgRecvKeeps ==
    ASSUME DgInv, NEW d \in DgSockets, dg_recvmsg(d) PROVE DgInv'
<1>1. /\ dg_call \in [DgSockets -> DgCalls] /\ dg_sent \in [DgSockets -> Nat]
      /\ dg_sock \in [DgSockets -> Seq(DgSockets \X Nat)]
      /\ dg_from \in [DgSockets -> SUBSET DgSockets]
  BY DEF DgInv, DgTypes
<1>2. dg_sent' = dg_sent /\ dg_from' = dg_from
  BY DEF dg_recvmsg
<1>3. CASE dg_sock[d] = <<>>
  <2>1. dg_call' = CallIn(dg_call, d, "receives") /\ dg_sock' = dg_sock
    BY <1>3 DEF dg_recvmsg, CallIn
  <2>2. /\ dg_call' \in [DgSockets -> DgCalls]
        /\ \A u \in DgSockets : dg_call'[u].out = dg_call[u].out /\ dg_call'[u].target = dg_call[u].target
    <3>1. "receives" \in {"idle", "receives"}
      OBVIOUS
    <3> DEFINE c == CallIn(dg_call, d, "receives")
    <3>2. /\ c \in [DgSockets -> DgCalls]
          /\ \A u \in DgSockets : c[u].out = dg_call[u].out /\ c[u].target = dg_call[u].target
      BY <1>1, <3>1, DgOneCall, Zenon
    <3> QED BY <2>1, <3>2
  <2>3. DgTypes' /\ Named'
    BY <1>1, <1>2, <2>1, <2>2 DEF DgInv, DgTypes, Named
  <2>4. DgStranded'
    BY <1>2, <2>1, <2>2 DEF DgInv, DgStranded
  <2> QED BY <2>3, <2>4 DEF DgInv
<1>4. CASE dg_sock[d] # <<>>
  <2> DEFINE q == dg_sock[d]
             from == Head(q)[1]
             S == DgSockets \X Nat
  <2>1. dg_sock' = [dg_sock EXCEPT ![d] = Tail(q)] /\ dg_call' = Told(CallIn(dg_call, d, "idle"), from)
    BY <1>4 DEF dg_recvmsg, dg_take, CallIn
  <2>2. q \in Seq(S) /\ q # <<>> /\ dg_sock \in [DgSockets -> Seq(S)]
    BY <1>1, <1>4
  <2>3. \A i \in DOMAIN q : q[i][1] \in dg_from[d]
    BY DEF DgInv, Named
  <2> HIDE DEF q, S
  <2>4. /\ Tail(q) \in Seq(S) /\ 1 \in DOMAIN q /\ Head(q) = q[1]
        /\ \A i \in DOMAIN Tail(q) : i + 1 \in DOMAIN q /\ Tail(q)[i] = q[i + 1]
    BY <2>2
  <2>5. from \in dg_from[d] /\ from \in DgSockets
    BY <1>1, <2>3, <2>4
  <2>6. /\ dg_sock' \in [DgSockets -> Seq(S)] /\ dg_sock'[d] = Tail(q)
        /\ \A u \in DgSockets : u # d => dg_sock'[u] = dg_sock[u]
    BY <2>1, <2>2, <2>4
  <2> HIDE DEF from
  <2>7. /\ dg_call' \in [DgSockets -> DgCalls]
        /\ \A u \in DgSockets : dg_call'[u].out = "sends" =>
              u # from /\ dg_call[u].out = "sends" /\ dg_call'[u].target = dg_call[u].target
    <3> DEFINE c == CallIn(dg_call, d, "idle")
    <3>1. /\ c \in [DgSockets -> DgCalls]
          /\ \A u \in DgSockets : c[u].out = dg_call[u].out /\ c[u].target = dg_call[u].target
      BY <1>1, DgOneCall
    <3> HIDE DEF c
    <3>2. dg_call' = Told(c, from)
      BY <2>1 DEF c
    <3> QED BY <2>5, <3>1, <3>2, DgTold
  <2>8. DgTypes'
    BY <1>1, <1>2, <2>6, <2>7 DEF DgTypes, S
  <2>9. Named'
    <3> SUFFICES ASSUME NEW u \in DgSockets, NEW i \in DOMAIN dg_sock'[u]
                 PROVE  dg_sock'[u][i][1] \in dg_from[u]
      BY <1>2 DEF Named
    <3>1. CASE u = d
      BY <2>3, <2>4, <2>6, <3>1
    <3>2. CASE u # d
      BY <2>6, <3>2 DEF DgInv, Named
    <3> QED BY <3>1, <3>2
  <2>10. DgStranded'
    <3> SUFFICES ASSUME NEW u \in DgSockets, dg_call'[u].out = "sends",
                        dg_from[dg_call'[u].target] = {u}
                 PROVE  Len(dg_sock'[dg_call'[u].target]) = DgCapacity
      BY <1>2 DEF DgStranded
    <3>1. u # from /\ dg_call[u].out = "sends" /\ dg_call'[u].target = dg_call[u].target
      BY <2>7
    <3>2. dg_call[u].target \in DgSockets
      BY <1>1 DEF DgCalls
    <3>3. dg_call[u].target # d
      BY <2>5, <3>1
    <3> QED BY <2>6, <3>1, <3>2, <3>3 DEF DgInv, DgStranded
  <2> QED BY <2>8, <2>9, <2>10 DEF DgInv
<1> QED BY <1>3, <1>4

LEMMA DgSendKeeps ==
    ASSUME DgInv, NEW d \in DgSockets, NEW t \in DgSockets, dg_sendmsg(d, t) PROVE DgInv'
<1>1. /\ dg_call \in [DgSockets -> DgCalls] /\ dg_sent \in [DgSockets -> Nat]
      /\ dg_sock \in [DgSockets -> Seq(DgSockets \X Nat)]
      /\ dg_from \in [DgSockets -> SUBSET DgSockets]
  BY DEF DgInv, DgTypes
<1>2. CASE Len(dg_sock[t]) = DgCapacity
  <2>1. /\ dg_call' = [dg_call EXCEPT ![d].out = "sends", ![d].target = t]
        /\ dg_sock' = dg_sock /\ dg_sent' = dg_sent /\ dg_from' = dg_from
    BY <1>2 DEF dg_sendmsg
  <2>2. /\ dg_call'[d] = [[dg_call[d] EXCEPT !.out = "sends"] EXCEPT !.target = t]
        /\ \A u \in DgSockets : u # d => dg_call'[u] = dg_call[u]
        /\ dg_call[d] \in DgCalls
    BY <1>1, <2>1
  <2>3. dg_call'[d] \in DgCalls /\ dg_call'[d].target = t
    BY <2>2 DEF DgCalls
  <2>4. dg_call' \in [DgSockets -> DgCalls]
    <3> SUFFICES ASSUME NEW u \in DgSockets PROVE dg_call'[u] \in DgCalls
      BY <1>1, <2>1
    <3> QED BY <1>1, <2>2, <2>3
  <2>5. DgTypes' /\ Named'
    BY <1>1, <2>1, <2>4 DEF DgInv, DgTypes, Named
  <2>6. DgStranded'
    BY <1>2, <2>1, <2>2, <2>3 DEF DgInv, DgStranded
  <2> QED BY <2>5, <2>6 DEF DgInv
<1>3. CASE Len(dg_sock[t]) # DgCapacity
  <2> DEFINE q == dg_sock[t]
             e == <<d, dg_sent[d] + 1>>
             S == DgSockets \X Nat
  <2>1. /\ dg_sock' = [dg_sock EXCEPT ![t] = Append(q, e)]
        /\ dg_sent' = [dg_sent EXCEPT ![d] = @ + 1] /\ dg_from' = [dg_from EXCEPT ![t] = @ \cup {d}]
        /\ dg_call' = Told(CallOut(dg_call, d, "idle"), t)
    BY <1>3 DEF dg_sendmsg, CallOut
  <2>2. q \in Seq(S) /\ dg_sock \in [DgSockets -> Seq(S)] /\ e \in S /\ e[1] = d
    BY <1>1
  <2>3. \A i \in DOMAIN q : q[i][1] \in dg_from[t]
    BY DEF DgInv, Named
  <2> HIDE DEF q, S, e
  <2>4. /\ Append(q, e) \in Seq(S)
        /\ \A i \in DOMAIN Append(q, e) :
              (i \in DOMAIN q /\ Append(q, e)[i] = q[i]) \/ Append(q, e)[i] = e
    BY <2>2
  <2>5. /\ dg_sock' \in [DgSockets -> Seq(S)] /\ dg_sock'[t] = Append(q, e)
        /\ \A u \in DgSockets : u # t => dg_sock'[u] = dg_sock[u]
    BY <2>1, <2>2, <2>4
  <2>6. /\ dg_sent' \in [DgSockets -> Nat] /\ dg_from' \in [DgSockets -> SUBSET DgSockets]
        /\ dg_from'[t] = dg_from[t] \cup {d} /\ \A u \in DgSockets : u # t => dg_from'[u] = dg_from[u]
    BY <1>1, <2>1
  <2>7. /\ dg_call' \in [DgSockets -> DgCalls]
        /\ \A u \in DgSockets : dg_call'[u].out = "sends" =>
              u # d /\ dg_call[u].out = "sends" /\ dg_call'[u].target = dg_call[u].target
    <3> DEFINE c == CallOut(dg_call, d, "idle")
    <3>1. /\ c \in [DgSockets -> DgCalls] /\ c[d].out = "idle"
          /\ \A u \in DgSockets : u # d => c[u] = dg_call[u]
      BY <1>1, DgOneCall
    <3> HIDE DEF c
    <3>2. dg_call' = Told(c, t)
      BY <2>1 DEF c
    <3> QED BY <3>1, <3>2, DgTold
  <2>8. DgTypes'
    BY <2>5, <2>6, <2>7 DEF DgTypes, S
  <2>9. Named'
    <3> SUFFICES ASSUME NEW u \in DgSockets, NEW i \in DOMAIN dg_sock'[u]
                 PROVE  dg_sock'[u][i][1] \in dg_from'[u]
      BY DEF Named
    <3>1. CASE u = t
      BY <2>2, <2>3, <2>4, <2>5, <2>6, <3>1
    <3>2. CASE u # t
      BY <2>5, <2>6, <3>2 DEF DgInv, Named
    <3> QED BY <3>1, <3>2
  <2>10. DgStranded'
    <3> SUFFICES ASSUME NEW u \in DgSockets, dg_call'[u].out = "sends",
                        dg_from'[dg_call'[u].target] = {u}
                 PROVE  Len(dg_sock'[dg_call'[u].target]) = DgCapacity
      BY DEF DgStranded
    <3>1. u # d /\ dg_call[u].out = "sends" /\ dg_call'[u].target = dg_call[u].target
      BY <2>7
    <3>2. dg_call[u].target \in DgSockets
      BY <1>1 DEF DgCalls
    <3>3. dg_call[u].target # t
      BY <2>6, <3>1
    <3> QED BY <2>5, <2>6, <3>1, <3>2, <3>3 DEF DgInv, DgStranded
  <2> QED BY <2>8, <2>9, <2>10 DEF DgInv
<1> QED BY <1>2, <1>3

\* What the two invariants say is what local sockets promise.
LEMMA SocketInvSafe ==
    ASSUME StreamInv, DgInv PROVE SocketSafe
<1>1. SockPeers
  BY DEF StreamInv, Mutual, SockPeers, Clean
<1>2. ASSUME NEW s \in Socks, Clean(s), sock[s].peer # NoPeer PROVE Tied(s)
  BY <1>2 DEF Clean, Tied
<1>3. SockStream
  BY <1>2 DEF StreamInv, Streams, SockStream, Counted
<1>4. SockStranded
  BY <1>2 DEF StreamInv, Sleepers, Acceptor, SockStranded
<1> QED BY <1>1, <1>3, <1>4 DEF DgInv, SocketSafe

\* Local sockets (stream.cpp, datagram.cpp), for any number of sockets and any ring: the two
\* ends of a connection point to each other, the bytes in a ring are those sent and not yet
\* received, in order, and nobody sleeps for what is there; a datagram sender that is alone
\* with its target sleeps only while the target is full.
THEOREM SocketsSafe == LocalSocketSpec => []SocketSafe
<1>1. LocalSocketInit => StreamInv /\ DgInv
  BY StreamInitInv, DgInitInv
<1>2. ASSUME StreamInv, DgInv, [LocalSocketNext]_socket_vars PROVE StreamInv' /\ DgInv'
  <2>1. ASSUME UNCHANGED dg_vars PROVE DgInv'
    BY <1>2, <2>1 DEF dg_vars, DgInv, DgTypes, Named, DgStranded
  <2>2. CASE StreamNext
    <3>1. UNCHANGED dg_vars
      <4>1. ASSUME NEW s \in Socks, NEW n \in Chunks, sock_recvmsg(s, n) \/ sock_sendmsg(s, n)
            PROVE  UNCHANGED dg_vars
        BY <4>1 DEF sock_recvmsg, sock_sendmsg
      <4>2. ASSUME NEW s \in Socks, sock_returns(s) \/ sock_close(s) PROVE UNCHANGED dg_vars
        BY <4>2 DEF sock_returns, sock_close
      <4>3. ASSUME NEW a \in SockAccepted, NEW b \in SockAccepted,
                   sock_accept(a) \/ sock_socketpair(a, b)
            PROVE  UNCHANGED dg_vars
        BY <4>3, Zenon DEF sock_accept, sock_socketpair
      <4>4. ASSUME NEW c \in SockClients, sock_connect(c) PROVE UNCHANGED dg_vars
        BY <4>4 DEF sock_connect
      <4>5. ASSUME sock_do_listen \/ accept_sleeps PROVE UNCHANGED dg_vars
        BY <4>5 DEF sock_do_listen, accept_sleeps
      <4> QED BY <2>2, <4>1, <4>2, <4>3, <4>4, <4>5 DEF StreamNext
    <3> QED BY <1>2, <2>1, <2>2, <3>1, StreamNextKeeps
  <2>3. CASE DatagramNext
    <3>1. UNCHANGED stream_vars
      BY <2>3 DEF DatagramNext, dg_recvmsg, dg_sendmsg
    <3>2. DgInv'
      BY <1>2, <2>3, DgRecvKeeps, DgSendKeeps DEF DatagramNext
    <3> QED BY <1>2, <3>1, <3>2, StreamStays
  <2>4. CASE UNCHANGED socket_vars
    <3>1. UNCHANGED stream_vars /\ UNCHANGED dg_vars
      BY <2>4 DEF socket_vars, stream_vars, dg_vars
    <3> QED BY <1>2, <2>1, <3>1, StreamStays
  <2> QED BY <1>2, <2>2, <2>3, <2>4 DEF LocalSocketNext
<1>3. StreamInv /\ DgInv => SocketSafe
  BY SocketInvSafe
<1> QED BY <1>1, <1>2, <1>3, PTL DEF LocalSocketSpec
=============================================================================
