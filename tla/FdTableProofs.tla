--------------------------- MODULE FdTableProofs ----------------------------
(***************************************************************************)
(* The hint first_free_fdnum is sound for any number of processes,         *)
(* descriptions and descriptors, and so open returns the lowest number.    *)
(* The reference count of a description is the number of its descriptors.  *)
(***************************************************************************)
EXTENDS FdTable, FiniteSetTheorems, WellFoundedInduction, TLAPS

\* A non-empty set of natural numbers has a least element, the one that the
\* CHOOSE of Allocated and of close_all takes.
LEMMA LeastElement ==
    ASSUME NEW S \in SUBSET Nat, S # {}
    PROVE  LET m == CHOOSE x \in S : \A y \in S : x <= y
           IN  m \in S /\ \A y \in S : m <= y
  <1> DEFINE Less == {pair \in Nat \X Nat : pair[1] < pair[2]}
  <1>1. IsWellFoundedOn(Less, Nat)
    BY NatLessThanWellFounded, Zenon DEF OpToRel
  <1>2. \E x \in S : \A y \in S : ~(<<y, x>> \in Less)
    <2> HIDE DEF Less
    <2> QED BY <1>1, WFMin
  <1>3. \E x \in S : \A y \in S : x <= y
    <2>1. \A x, y \in Nat : y < x => <<y, x>> \in Less
      OBVIOUS
    <2>2. \A x, y \in Nat : x <= y \/ y < x
      OBVIOUS
    <2> HIDE DEF Less
    <2> QED BY <1>2, <2>1, <2>2
  <1> QED
    BY <1>3

\* What allocate_fdnum returns: an empty descriptor of the table or the first
\* number after it, never below the start of the search, and no empty one in
\* between.
LEMMA AllocatedFd ==
    ASSUME FdInv, NEW p \in Procs, NEW min \in Nat, SearchStart(p, min) \in Nat
    PROVE  /\ Allocated(p, min) \in 0 .. MaxFds
           /\ Allocated(p, min) <= size[p]
           /\ Allocated(p, min) \in Fds => ~IsOpen(p, Allocated(p, min))
           /\ \A g \in Fds : SearchStart(p, min) <= g /\ g < Allocated(p, min) => IsOpen(p, g)
  <1> DEFINE C == Candidates(p, min)
  <1>1. C \in SUBSET Nat /\ C \subseteq Fds
    BY FdAssumption DEF Candidates, Fds
  <1>2. CASE C = {}
    <2>1. Allocated(p, min) = size[p]
      BY <1>2 DEF Allocated
    <2>2. \A g \in Fds : SearchStart(p, min) <= g /\ g < size[p] => IsOpen(p, g)
      BY <1>2 DEF Candidates
    <2> QED
      BY <2>1, <2>2, FdAssumption DEF FdInv, HintSound, Fds
  <1>3. CASE C # {}
    <2> DEFINE a == CHOOSE fd \in C : \A g \in C : fd <= g
    <2>1. a \in C /\ \A g \in C : a <= g
      <3> HIDE DEF C
      <3> QED BY <1>1, <1>3, LeastElement
    <2>2. Allocated(p, min) = a
      BY <1>3 DEF Allocated
    <2>3. a \in Fds /\ a < size[p] /\ ~IsOpen(p, a)
      BY <2>1 DEF Candidates
    <2>4. ASSUME NEW g \in Fds, SearchStart(p, min) <= g, g < a
          PROVE  IsOpen(p, g)
      <3>1. g < size[p]
        BY <2>3, <2>4, FdAssumption DEF FdInv, Fds
      <3>2. g \notin C
        BY <2>1, <2>3, <2>4, FdAssumption DEF Fds
      <3> QED
        BY <3>1, <3>2, <2>4 DEF Candidates
    <2> QED
      BY <2>2, <2>3, <2>4, FdAssumption DEF FdInv, Fds
  <1> QED
    BY <1>2, <1>3

\* The hint that allocate_fdnum leaves: still inside the table, and below it
\* only open descriptors and the new one.
LEMMA NewHintSound ==
    ASSUME FdInv, NEW p \in alive, NEW min \in Nat
    PROVE  LET a == Allocated(p, min)
           IN  /\ NewHint(p, min) \in 0 .. MaxFds \/ a = MaxFds
               /\ NewHint(p, min) <= (IF a = size[p] THEN size[p] + 1 ELSE size[p])
               /\ \A g \in Fds : g < NewHint(p, min) => g = a \/ IsOpen(p, g)
               /\ min < first_free[p] => \A g \in Fds : g < a => IsOpen(p, g)
  <1> DEFINE a == Allocated(p, min)
  <1>1. p \in Procs /\ first_free[p] \in Nat /\ size[p] \in Nat /\ first_free[p] <= size[p]
        /\ size[p] <= MaxFds /\ MaxFds \in Nat
    BY FdAssumption DEF FdInv, HintSound
  <1>2. SearchStart(p, min) \in Nat
    BY <1>1 DEF SearchStart
  <1>3. /\ a \in 0 .. MaxFds /\ a <= size[p]
        /\ \A g \in Fds : SearchStart(p, min) <= g /\ g < a => IsOpen(p, g)
    BY <1>1, <1>2, AllocatedFd
  <1>4. \A g \in Fds : g \in Nat /\ (g < first_free[p] => IsOpen(p, g))
    BY FdAssumption DEF FdInv, HintSound, Fds
  <1>5. CASE min < first_free[p]
    <2>1. SearchStart(p, min) = first_free[p]
      BY <1>5 DEF SearchStart
    <2>2. \A g \in Fds : g < a => IsOpen(p, g)
      <3> HIDE DEF a
      <3> QED BY <2>1, <1>1, <1>3, <1>4
    <2>3. NewHint(p, min) = IF Candidates(p, min) = {} THEN size[p] ELSE a + 1
      BY <1>1, <1>5 DEF NewHint
    <2>4. Candidates(p, min) = {} => a = size[p]
      BY DEF Allocated
    <2>5. Candidates(p, min) # {} => a < size[p]
      <3>1. ASSUME Candidates(p, min) # {}
            PROVE  a \in Candidates(p, min)
        <4> DEFINE C == Candidates(p, min)
        <4>1. C \in SUBSET Nat
          BY FdAssumption DEF Candidates, Fds
        <4>2. a = CHOOSE fd \in C : \A g \in C : fd <= g
          BY <3>1 DEF Allocated
        <4> HIDE DEF C, a
        <4>3. C # {}
          BY <3>1 DEF C
        <4>4. a \in C
          BY <4>1, <4>2, <4>3, LeastElement
        <4> QED BY <4>4 DEF C
      <3> QED BY <3>1 DEF Candidates
    <2> HIDE DEF a
    <2>6. CASE Candidates(p, min) = {}
      BY <1>1, <1>3, <2>2, <2>3, <2>4, <2>6, <1>4 DEF a
    <2>7. CASE Candidates(p, min) # {}
      BY <1>1, <1>3, <2>2, <2>3, <2>5, <2>7, <1>4 DEF a
    <2> QED BY <2>6, <2>7
  <1>6. CASE ~(min < first_free[p])
    <2>1. NewHint(p, min) = first_free[p]
      BY <1>1, <1>6 DEF NewHint
    <2> QED BY <2>1, <1>1, <1>3, <1>4, <1>6
  <1> QED BY <1>5, <1>6

\* open, dup and fcntl(F_DUPFD) keep the hint sound.
LEMMA InstallKeepsInv ==
    ASSUME FdInv, NEW p \in alive, NEW min \in Nat, NEW d \in Descriptions,
           NEW flags \in BOOLEAN, install(p, min, d, flags), alive' = alive
    PROVE  FdInv'
  <1> DEFINE a == Allocated(p, min)
             h == NewHint(p, min)
  <1>1. p \in Procs /\ size[p] \in 0 .. MaxFds /\ first_free[p] \in Nat /\ MaxFds \in Nat
    BY FdAssumption DEF FdInv
  <1>2. SearchStart(p, min) \in Nat
    BY <1>1 DEF SearchStart
  <1>3. a \in 0 .. MaxFds /\ a <= size[p] /\ a < MaxFds
    BY <1>1, <1>2, AllocatedFd DEF install
  <1>4. a \in Fds
    BY <1>1, <1>3 DEF Fds
  <1>5. /\ h \in 0 .. MaxFds
        /\ h <= (IF a = size[p] THEN size[p] + 1 ELSE size[p])
        /\ \A g \in Fds : g < h => g = a \/ IsOpen(p, g)
    BY <1>1, <1>3, NewHintSound
  <1>6. /\ first_free' = [first_free EXCEPT ![p] = h]
        /\ size' = [size EXCEPT ![p] = IF a = @ THEN @ + 1 ELSE @]
        /\ desc' = [desc EXCEPT ![p] = [@ EXCEPT ![a] = d]]
        /\ cloexec' = [cloexec EXCEPT ![p] = IF flags THEN @ \cup {a} ELSE @ \ {a}]
    BY DEF install
  <1> HIDE DEF a, h
  <1>7. /\ size' \in [Procs -> 0 .. MaxFds]
        /\ first_free' \in [Procs -> 0 .. MaxFds]
        /\ desc' \in [Procs -> [Fds -> Descriptions \cup {Free}]]
        /\ cloexec' \in [Procs -> SUBSET Fds]
        /\ alive' \subseteq Procs
    BY <1>1, <1>3, <1>4, <1>5, <1>6 DEF FdInv
  <1>8. HintSound'
    <2> SUFFICES ASSUME NEW q \in Procs
                 PROVE  /\ first_free'[q] <= size'[q]
                        /\ \A fd \in Fds : q \in alive /\ fd < first_free'[q] => desc'[q][fd] # Free
                        /\ \A fd \in Fds : fd >= size'[q] => desc'[q][fd] = Free
                        /\ \A fd \in cloexec'[q] : desc'[q][fd] # Free
      BY DEF HintSound, IsOpen
    <2>1. CASE q # p
      BY <2>1, <1>6 DEF FdInv, HintSound, IsOpen
    <2>2. CASE q = p
      <3>1. /\ first_free'[p] = h
            /\ size'[p] = IF a = size[p] THEN size[p] + 1 ELSE size[p]
            /\ cloexec'[p] \subseteq cloexec[p] \cup {a}
            /\ desc'[p][a] = d
            /\ \A fd \in Fds : fd # a => desc'[p][fd] = desc[p][fd]
        BY <1>1, <1>4, <1>6 DEF FdInv
      <3>2. d # Free
        BY FdAssumption
      <3>3. \A fd \in Fds : fd \in Nat
        BY FdAssumption DEF Fds
      <3>4. ASSUME NEW fd \in Fds, fd >= size'[p]
            PROVE  desc'[p][fd] = Free
        <4>1. size[p] \in Nat /\ \A g \in Fds : g >= size[p] => desc[p][g] = Free
          BY <1>1 DEF FdInv, HintSound, IsOpen
        <4>2. fd \in Nat /\ a \in Nat /\ a <= size[p]
          BY <3>3, <1>1, <1>3 DEF FdInv
        <4>3. fd # a /\ fd >= size[p]
          BY <3>1, <3>4, <4>1, <4>2
        <4> QED
          BY <3>1, <4>1, <4>3
      <3>5. \A fd \in cloexec'[p] : desc'[p][fd] # Free
        BY <3>1, <3>2, <1>1 DEF FdInv, HintSound, IsOpen
      <3>6. \A fd \in Fds : fd < first_free'[p] => desc'[p][fd] # Free
        BY <3>1, <3>2, <1>5 DEF IsOpen
      <3>7. first_free'[p] <= size'[p]
        BY <3>1, <1>5
      <3> QED BY <2>2, <3>4, <3>5, <3>6, <3>7
    <2> QED BY <2>1, <2>2
  <1> QED BY <1>7, <1>8 DEF FdInv

\* close, close_range, execve and exit keep the hint sound.
LEMMA CloseKeepsInv ==
    ASSUME FdInv, NEW p \in Procs, NEW S \in SUBSET Fds, close_all(p, S),
           size' = size, alive' \subseteq alive
    PROVE  FdInv'
  <1> DEFINE T == S \cup {first_free[p]}
             m == CHOOSE x \in T : \A g \in T : x <= g
  <1>1. T \in SUBSET Nat /\ T # {}
    <2>1. first_free[p] \in Nat
      BY FdAssumption DEF FdInv
    <2>2. S \subseteq Nat
      BY FdAssumption DEF Fds
    <2> QED BY <2>1, <2>2
  <1>2. m \in T /\ \A g \in T : m <= g
    <2> HIDE DEF T
    <2> QED BY <1>1, LeastElement
  <1>3. /\ first_free' = [first_free EXCEPT ![p] = m]
        /\ desc' = [desc EXCEPT ![p] = [fd \in Fds |-> IF fd \in S THEN Free ELSE @[fd]]]
        /\ cloexec' = [cloexec EXCEPT ![p] = @ \ S]
    BY DEF close_all
  <1>4. m \in Nat /\ m <= first_free[p] /\ \A g \in S : m <= g
    BY <1>1, <1>2
  <1> HIDE DEF T, m
  <1>5. /\ size' \in [Procs -> 0 .. MaxFds]
        /\ first_free' \in [Procs -> 0 .. MaxFds]
        /\ desc' \in [Procs -> [Fds -> Descriptions \cup {Free}]]
        /\ cloexec' \in [Procs -> SUBSET Fds]
        /\ alive' \subseteq Procs
    BY <1>3, <1>4, FdAssumption DEF FdInv
  <1>6. HintSound'
    <2> SUFFICES ASSUME NEW q \in Procs
                 PROVE  /\ first_free'[q] <= size'[q]
                        /\ \A fd \in Fds : q \in alive' /\ fd < first_free'[q] => desc'[q][fd] # Free
                        /\ \A fd \in Fds : fd >= size'[q] => desc'[q][fd] = Free
                        /\ \A fd \in cloexec'[q] : desc'[q][fd] # Free
      BY DEF HintSound, IsOpen
    <2>1. CASE q # p
      BY <2>1, <1>3 DEF FdInv, HintSound, IsOpen
    <2>2. CASE q = p
      <3>1. /\ first_free'[p] = m
            /\ cloexec'[p] = cloexec[p] \ S
            /\ \A fd \in Fds : desc'[p][fd] = IF fd \in S THEN Free ELSE desc[p][fd]
        BY <1>3 DEF FdInv
      <3>2. \A fd \in Fds : fd \in Nat
        BY FdAssumption DEF Fds
      <3>3. first_free[p] \in Nat /\ size[p] \in Nat /\ cloexec[p] \subseteq Fds
        BY FdAssumption DEF FdInv
      <3>4. first_free'[p] <= size'[p]
        BY <3>1, <3>3, <1>4 DEF FdInv, HintSound
      <3>5. \A fd \in Fds : p \in alive' /\ fd < first_free'[p] => desc'[p][fd] # Free
        BY <3>1, <3>2, <3>3, <1>4 DEF FdInv, HintSound, IsOpen
      <3>6. \A fd \in Fds : fd >= size'[p] => desc'[p][fd] = Free
        BY <3>1 DEF FdInv, HintSound, IsOpen
      <3>7. \A fd \in cloexec'[p] : desc'[p][fd] # Free
        BY <3>1, <3>3 DEF FdInv, HintSound, IsOpen
      <3> QED BY <2>2, <3>4, <3>5, <3>6, <3>7
    <2> QED BY <2>1, <2>2
  <1> QED BY <1>5, <1>6 DEF FdInv

LEMMA InvInit == Init => FdInv
  <1> SUFFICES ASSUME Init PROVE FdInv
    OBVIOUS
  <1> USE FdAssumption
  <1>1. size \in [Procs -> 0 .. MaxFds] /\ first_free = size /\ alive \subseteq Procs
        /\ cloexec = [p \in Procs |-> {}]
    BY DEF Init
  <1>2. PICK std \in [0 .. StdFds - 1 -> Descriptions] :
           desc = [p \in Procs |-> [fd \in Fds |->
                     IF p = Init_process /\ fd < StdFds THEN std[fd] ELSE Free]]
    BY DEF Init
  <1>3. \A fd \in Fds : fd < StdFds => std[fd] \in Descriptions
    BY <1>2 DEF Fds
  <1>4. desc \in [Procs -> [Fds -> Descriptions \cup {Free}]]
    BY <1>2, <1>3
  <1>5. \A p \in Procs, fd \in Fds :
           IsOpen(p, fd) <=> (p = Init_process /\ fd < StdFds)
    BY <1>2, <1>3 DEF IsOpen
  <1>6. size = [p \in Procs |-> IF p = Init_process THEN StdFds ELSE 0]
    BY DEF Init
  <1>7. HintSound
    BY <1>1, <1>5, <1>6 DEF HintSound, Fds
  <1> QED BY <1>1, <1>4, <1>7 DEF FdInv

\* dup2 and dup3 keep the hint sound: the descriptor they close is refilled.
LEMMA Dup3KeepsInv ==
    ASSUME FdInv, NEW p \in Procs, NEW old \in Fds, NEW new \in Fds,
           NEW flags \in BOOLEAN, dup3(p, old, new, flags)
    PROVE  FdInv'
  <1> DEFINE d == desc[p][old]
             s == IF new >= size[p] THEN new + 1 ELSE size[p]
             h == IF IsOpen(p, new) /\ new < first_free[p] THEN new ELSE first_free[p]
  <1>1. /\ size' = [size EXCEPT ![p] = s]
        /\ first_free' = [first_free EXCEPT ![p] = h]
        /\ desc' = [desc EXCEPT ![p] = [@ EXCEPT ![new] = d]]
        /\ cloexec' = [cloexec EXCEPT ![p] = IF flags THEN @ \cup {new} ELSE @ \ {new}]
        /\ alive' = alive
    BY DEF dup3, FdInv
  <1>2. d \in Descriptions
    BY DEF dup3, FdInv, IsOpen
  <1>3. new \in Nat /\ new < MaxFds /\ size[p] \in Nat /\ first_free[p] \in Nat
        /\ size[p] <= MaxFds /\ first_free[p] <= size[p] /\ MaxFds \in Nat
    BY FdAssumption DEF Fds, FdInv, HintSound
  <1>4. s \in 0 .. MaxFds /\ h \in 0 .. MaxFds /\ h <= s
    BY <1>3
  <1>5. h <= first_free[p] /\ size[p] <= s /\ new < s
    BY <1>3
  <1> HIDE DEF d, s, h
  <1>6. /\ size' \in [Procs -> 0 .. MaxFds]
        /\ first_free' \in [Procs -> 0 .. MaxFds]
        /\ desc' \in [Procs -> [Fds -> Descriptions \cup {Free}]]
        /\ cloexec' \in [Procs -> SUBSET Fds]
        /\ alive' \subseteq Procs
    BY <1>1, <1>2, <1>4 DEF FdInv
  <1>7. HintSound'
    <2> SUFFICES ASSUME NEW q \in Procs
                 PROVE  /\ first_free'[q] <= size'[q]
                        /\ \A fd \in Fds : q \in alive /\ fd < first_free'[q] => desc'[q][fd] # Free
                        /\ \A fd \in Fds : fd >= size'[q] => desc'[q][fd] = Free
                        /\ \A fd \in cloexec'[q] : desc'[q][fd] # Free
      BY <1>1 DEF HintSound, IsOpen
    <2>1. CASE q # p
      BY <2>1, <1>1 DEF FdInv, HintSound, IsOpen
    <2>2. CASE q = p
      <3>1. /\ first_free'[p] = h /\ size'[p] = s
            /\ cloexec'[p] \subseteq cloexec[p] \cup {new}
            /\ desc'[p][new] = d
            /\ \A fd \in Fds : fd # new => desc'[p][fd] = desc[p][fd]
        BY <1>1 DEF FdInv
      <3>2. d # Free
        BY <1>2, FdAssumption
      <3>3. \A fd \in Fds : fd \in Nat
        BY FdAssumption DEF Fds
      <3>4. \A fd \in Fds : p \in alive /\ fd < h => desc'[p][fd] # Free
        BY <3>1, <3>2, <3>3, <1>3, <1>4, <1>5 DEF FdInv, HintSound, IsOpen
      <3>5. \A fd \in Fds : fd >= s => desc'[p][fd] = Free
        <4>1. \A fd \in Fds : fd >= size[p] => desc[p][fd] = Free
          BY DEF FdInv, HintSound, IsOpen
        <4>2. \A fd \in Fds : fd >= s => fd # new /\ fd >= size[p]
          BY <3>3, <1>3, <1>4, <1>5
        <4> QED BY <3>1, <4>1, <4>2
      <3>6. \A fd \in cloexec'[p] : desc'[p][fd] # Free
        BY <3>1, <3>2 DEF FdInv, HintSound, IsOpen
      <3> QED BY <2>2, <3>1, <3>4, <3>5, <3>6, <1>4
    <2> QED BY <2>1, <2>2
  <1> QED BY <1>6, <1>7 DEF FdInv

LEMMA InvStep == FdInv /\ [Next]_vars => FdInv'
  <1> SUFFICES ASSUME FdInv, [Next]_vars PROVE FdInv'
    OBVIOUS
  <1>0. alive \subseteq Procs /\ 0 \in Nat /\ \A fd \in 0 .. MaxFds : fd \in Nat
    BY FdAssumption DEF FdInv
  <1>1. ASSUME NEW p \in Procs, NEW d \in Descriptions, NEW flags \in BOOLEAN, openat(p, d, flags)
        PROVE  FdInv'
    BY <1>0, <1>1, InstallKeepsInv DEF openat
  <1>2. ASSUME NEW p \in Procs, NEW fd \in Fds, NEW min \in 0 .. MaxFds,
               NEW flags \in BOOLEAN, dupfd(p, fd, min, flags)
        PROVE  FdInv'
    <2>1. desc[p][fd] \in Descriptions
      BY <1>2 DEF dupfd, FdInv, IsOpen
    <2> QED BY <1>0, <1>2, <2>1, InstallKeepsInv DEF dupfd
  <1>3. ASSUME NEW p \in Procs, NEW fd \in Fds, NEW flags \in BOOLEAN, set_flags(p, fd, flags)
        PROVE  FdInv'
    BY <1>3 DEF set_flags, FdInv, HintSound, IsOpen
  <1>4. ASSUME NEW p \in Procs, NEW fd \in Fds, close(p, fd)
        PROVE  FdInv'
    BY <1>4, CloseKeepsInv DEF close
  <1>5. ASSUME NEW p \in Procs, NEW first \in Fds, NEW last \in Fds, close_range(p, first, last)
        PROVE  FdInv'
    <2>1. OpenIn(p, first, last) \in SUBSET Fds
      BY DEF OpenIn
    <2> QED BY <1>5, <2>1, CloseKeepsInv DEF close_range
  <1>6. ASSUME NEW p \in Procs, NEW first \in Fds, NEW last \in Fds,
               close_range_cloexec(p, first, last)
        PROVE  FdInv'
    BY <1>6 DEF close_range_cloexec, OpenIn, FdInv, HintSound, IsOpen
  <1>7. ASSUME NEW p \in Procs, NEW old \in Fds, NEW new \in Fds, NEW flags \in BOOLEAN,
               dup3(p, old, new, flags)
        PROVE  FdInv'
    BY <1>7, Dup3KeepsInv
  <1>8. ASSUME NEW p \in Procs, NEW child \in Procs, fork(p, child)
        PROVE  FdInv'
    BY <1>8 DEF fork, FdInv, HintSound, IsOpen
  <1>9. ASSUME NEW p \in Procs, execve(p)
        PROVE  FdInv'
    <2>1. cloexec[p] \in SUBSET Fds
      BY DEF FdInv
    <2> QED BY <1>9, <2>1, CloseKeepsInv DEF execve
  <1>10. ASSUME NEW p \in Procs, zombify(p)
         PROVE  FdInv'
    <2>1. OpenIn(p, 0, MaxFds - 1) \in SUBSET Fds
      BY DEF OpenIn
    <2> QED BY <1>10, <2>1, CloseKeepsInv DEF zombify
  <1>11. CASE UNCHANGED vars
    BY <1>11 DEF vars, FdInv, HintSound, IsOpen
  <1> QED
    BY <1>1, <1>2, <1>3, <1>4, <1>5, <1>6, <1>7, <1>8, <1>9, <1>10, <1>11 DEF Next

\* The hint first_free_fdnum never skips an empty descriptor, and no flag
\* FD_CLOEXEC is left on an empty one, so that execve closes only descriptors
\* that are open.
THEOREM HintSafe == Spec => []HintSound
  <1>1. FdInv => HintSound
    BY DEF FdInv
  <1> QED
    BY InvInit, InvStep, <1>1, PTL DEF Spec

\* Every call that opens a file returns the lowest free number: the search of
\* allocate_fdnum from the hint finds what a search from 0 would.
THEOREM OpenTakesLowest == Spec => LowestFree
  <1>1. ASSUME FdInv, [Next]_vars, NEW p \in Procs, NEW d \in Descriptions,
               NEW flags \in BOOLEAN, NEW fd \in Fds,
               openat(p, d, flags), desc'[p][fd] # desc[p][fd]
        PROVE  \A g \in Fds : g < fd => IsOpen(p, g)
    <2> DEFINE a == Allocated(p, 0)
    <2>1. p \in alive /\ desc' = [desc EXCEPT ![p] = [@ EXCEPT ![a] = d]]
      BY <1>1 DEF openat, install
    <2>2. fd = a
      <3> HIDE DEF a
      <3> QED BY <1>1, <2>1 DEF FdInv
    <2>3. CASE 0 < first_free[p]
      BY <1>1, <2>1, <2>2, <2>3, NewHintSound
    <2>4. CASE ~(0 < first_free[p])
      <3>1. SearchStart(p, 0) = 0
        BY <1>1, <2>1, <2>4, FdAssumption DEF SearchStart, FdInv
      <3>2. \A g \in Fds : SearchStart(p, 0) <= g /\ g < a => IsOpen(p, g)
        BY <1>1, <3>1, AllocatedFd
      <3> QED BY <3>1, <3>2, <2>2, FdAssumption DEF Fds
    <2> QED BY <2>3, <2>4
  <1>2. FdInv /\ [Next]_vars =>
           [\A p \in Procs, fd \in Fds :
              /\ desc'[p][fd] # desc[p][fd]
              /\ \E d \in Descriptions, flags \in BOOLEAN : openat(p, d, flags)
              => \A g \in Fds : g < fd => IsOpen(p, g)]_vars
    BY <1>1
  <1> QED
    BY InvInit, InvStep, <1>2, PTL DEF Spec, LowestFree
-----------------------------------------------------------------------------
\* The descriptors, of whichever process, that refer to d.
Handles(d) == {h \in Procs \X Fds : desc[h[1]][h[2]] = d}

\* A process that does not exist holds nothing: zombify closed every descriptor.
DeadHoldNothing == \A p \in Procs \ alive : \A fd \in Fds : desc[p][fd] = Free

RefInv ==
    /\ FdInv
    /\ ref \in [Descriptions -> Nat]
    /\ References
    /\ DeadHoldNothing

LEMMA FdsFinite == IsFiniteSet(Fds) /\ IsFiniteSet(Procs \X Fds)
  <1>1. 0 \in Int /\ MaxFds - 1 \in Int
    BY FdAssumption
  <1>2. IsFiniteSet(Fds)
    BY <1>1, FS_Interval DEF Fds
  <1> QED BY <1>2, ProcsAssumption, FS_Product

LEMMA HandlesFinite ==
    ASSUME NEW d
    PROVE  IsFiniteSet(Handles(d)) /\ Cardinality(Handles(d)) \in Nat
  <1>1. Handles(d) \in SUBSET (Procs \X Fds)
    BY DEF Handles
  <1>2. IsFiniteSet(Handles(d))
    BY <1>1, FdsFinite, FS_Subset
  <1> QED BY <1>2, FS_CardinalityType

\* The descriptors in S of one process are as many as their numbers.
LEMMA RowCount ==
    ASSUME NEW p, NEW S \in SUBSET Fds
    PROVE  /\ IsFiniteSet({p} \X S)
           /\ Cardinality({p} \X S) = Cardinality(S)
           /\ Cardinality(S) \in Nat
  <1>1. IsFiniteSet(S) /\ IsFiniteSet({p}) /\ Cardinality({p}) = 1
    BY FdsFinite, FS_Subset, FS_Singleton
  <1>2. Cardinality(S) \in Nat
    BY <1>1, FS_CardinalityType
  <1>3. IsFiniteSet({p} \X S) /\ Cardinality({p} \X S) = Cardinality({p}) * Cardinality(S)
    BY <1>1, FS_Product
  <1> QED BY <1>1, <1>2, <1>3

\* One descriptor that was empty refers to d now.
LEMMA HandleAdded ==
    ASSUME NEW p \in Procs, NEW fd \in Fds, NEW d \in Descriptions, FdInv,
           desc[p][fd] = Free,
           desc' = [desc EXCEPT ![p] = [@ EXCEPT ![fd] = d]]
    PROVE  \A x \in Descriptions :
              Cardinality(Handles(x)') = Cardinality(Handles(x)) + (IF x = d THEN 1 ELSE 0)
  <1> TAKE x \in Descriptions
  <1>1. x # Free
    BY FdAssumption
  <1>2. \A q \in Procs, g \in Fds :
           desc'[q][g] = IF q = p /\ g = fd THEN d ELSE desc[q][g]
    BY DEF FdInv
  <1>3. CASE x = d
    <2>1. Handles(x)' = Handles(x) \cup {<<p, fd>>}
      BY <1>2, <1>3 DEF Handles
    <2>2. <<p, fd>> \notin Handles(x)
      BY <1>1 DEF Handles
    <2> QED BY <1>3, <2>1, <2>2, HandlesFinite, FS_AddElement
  <1>4. CASE x # d
    <2>1. Handles(x)' = Handles(x)
      BY <1>1, <1>2, <1>4 DEF Handles
    <2> QED BY <1>4, <2>1, HandlesFinite
  <1> QED BY <1>3, <1>4

\* open, dup and fcntl(F_DUPFD) fill a descriptor that was empty.
LEMMA InstallAdds ==
    ASSUME FdInv, NEW p \in alive, NEW min \in Nat, NEW d \in Descriptions,
           NEW flags \in BOOLEAN, install(p, min, d, flags)
    PROVE  /\ \A x \in Descriptions :
                 Cardinality(Handles(x)') = Cardinality(Handles(x)) + (IF x = d THEN 1 ELSE 0)
           /\ \A q \in Procs : q # p => desc'[q] = desc[q]
  <1> DEFINE a == Allocated(p, min)
  <1>1. p \in Procs /\ first_free[p] \in Nat /\ size[p] \in Nat /\ a < MaxFds
    BY FdAssumption DEF FdInv, install
  <1>2. SearchStart(p, min) \in Nat
    BY <1>1 DEF SearchStart
  <1>3. a \in Fds
    BY <1>1, <1>2, AllocatedFd, FdAssumption DEF Fds
  <1>4. desc[p][a] = Free
    BY <1>1, <1>2, <1>3, AllocatedFd DEF IsOpen
  <1>5. desc' = [desc EXCEPT ![p] = [@ EXCEPT ![a] = d]]
    BY DEF install
  <1> HIDE DEF a
  <1>6. \A q \in Procs : q # p => desc'[q] = desc[q]
    BY <1>5 DEF FdInv
  <1> QED BY <1>1, <1>3, <1>4, <1>5, <1>6, HandleAdded

LEMMA OpenReferences ==
    ASSUME RefInv, NEW p \in Procs, NEW d \in Descriptions, NEW flags \in BOOLEAN,
           openat(p, d, flags)
    PROVE  References' /\ DeadHoldNothing' /\ ref' \in [Descriptions -> Nat]
  <1>1. p \in alive /\ 0 \in Nat /\ ref[d] = 0 /\ install(p, 0, d, flags) /\ FdInv
        /\ ref' = [ref EXCEPT ![d] = 1] /\ alive' = alive
    BY DEF openat, RefInv
  <1>2. /\ \A x \in Descriptions :
               Cardinality(Handles(x)') = Cardinality(Handles(x)) + (IF x = d THEN 1 ELSE 0)
        /\ \A q \in Procs : q # p => desc'[q] = desc[q]
    BY <1>1, InstallAdds
  <1>3. \A x \in Descriptions : ref[x] = Cardinality(Handles(x)) /\ ref[x] \in Nat
    BY DEF RefInv, References, Handles
  <1>4. \A x \in Descriptions : ref'[x] = Cardinality(Handles(x)')
    BY <1>1, <1>2, <1>3 DEF RefInv
  <1>5. References'
    BY <1>4 DEF References, Handles
  <1>6. DeadHoldNothing'
    BY <1>1, <1>2 DEF RefInv, DeadHoldNothing
  <1> QED BY <1>1, <1>5, <1>6 DEF RefInv

LEMMA DupReferences ==
    ASSUME RefInv, NEW p \in Procs, NEW fd \in Fds, NEW min \in 0 .. MaxFds,
           NEW flags \in BOOLEAN, dupfd(p, fd, min, flags)
    PROVE  References' /\ DeadHoldNothing' /\ ref' \in [Descriptions -> Nat]
  <1> DEFINE d == desc[p][fd]
  <1>1. p \in alive /\ min \in Nat /\ install(p, min, d, flags) /\ FdInv
        /\ ref' = [ref EXCEPT ![d] = @ + 1] /\ alive' = alive
    BY FdAssumption DEF dupfd, RefInv
  <1>2. d \in Descriptions
    BY DEF dupfd, RefInv, FdInv, IsOpen
  <1> HIDE DEF d
  <1>3. /\ \A x \in Descriptions :
               Cardinality(Handles(x)') = Cardinality(Handles(x)) + (IF x = d THEN 1 ELSE 0)
        /\ \A q \in Procs : q # p => desc'[q] = desc[q]
    BY <1>1, <1>2, InstallAdds
  <1>4. \A x \in Descriptions : ref[x] = Cardinality(Handles(x)) /\ ref[x] \in Nat
    BY DEF RefInv, References, Handles
  <1>5. \A x \in Descriptions : ref'[x] = Cardinality(Handles(x)')
    BY <1>1, <1>2, <1>3, <1>4 DEF RefInv
  <1>6. References'
    BY <1>5 DEF References, Handles
  <1>7. DeadHoldNothing'
    BY <1>1, <1>3 DEF RefInv, DeadHoldNothing
  <1> QED BY <1>1, <1>2, <1>6, <1>7 DEF RefInv

\* close, close_range, execve and exit give up one reference for each
\* descriptor they empty.
LEMMA CloseReferences ==
    ASSUME RefInv, NEW p \in Procs, NEW S \in SUBSET Fds, close_all(p, S)
    PROVE  References' /\ ref' \in [Descriptions -> Nat]
  <1>1. \A q \in Procs, g \in Fds :
           desc'[q][g] = IF q = p /\ g \in S THEN Free ELSE desc[q][g]
    BY DEF close_all, RefInv, FdInv
  <1>2. ASSUME NEW d \in Descriptions
        PROVE  ref'[d] = Cardinality(Handles(d)') /\ ref'[d] \in Nat
    <2> DEFINE gone == {fd \in S : desc[p][fd] = d}
    <2>1. d # Free /\ gone \in SUBSET Fds
      BY FdAssumption
    <2>2. Handles(d)' = Handles(d) \ ({p} \X gone)
      BY <1>1, <2>1 DEF Handles
    <2>3. Handles(d) \cap ({p} \X gone) = {p} \X gone
      BY <2>1 DEF Handles
    <2>4. Cardinality({p} \X gone) = Cardinality(gone)
      BY <2>1, RowCount
    <2>5. IsFiniteSet(Handles(d)')
          /\ Cardinality(Handles(d)') = Cardinality(Handles(d)) - Cardinality(gone)
      <3> DEFINE row == {p} \X gone
                 H == Handles(d)
      <3> HIDE DEF gone, row, H
      <3>1. IsFiniteSet(H) /\ H \cap row = row
        BY <2>3, HandlesFinite DEF row, H
      <3>2. IsFiniteSet(H \ row) /\ Cardinality(H \ row) = Cardinality(H) - Cardinality(H \cap row)
        BY <3>1, FS_Difference
      <3> QED BY <2>2, <2>4, <3>1, <3>2 DEF row, H
    <2>6. ref'[d] = ref[d] - Cardinality(gone)
      BY DEF close_all, Held
    <2>7. ref[d] = Cardinality(Handles(d))
      BY DEF RefInv, References, Handles
    <2> QED BY <2>5, <2>6, <2>7, FS_CardinalityType
  <1>3. ref' \in [Descriptions -> Nat]
    <2>1. ref' = [d \in Descriptions |-> ref[d] - Held(p, S, d)]
      BY DEF close_all
    <2> QED BY <1>2, <2>1
  <1> QED BY <1>2, <1>3 DEF References, Handles

\* dup3 takes a reference for the new descriptor and gives up the one that it
\* replaces, even when both are to the same description.
LEMMA Dup3References ==
    ASSUME RefInv, NEW p \in Procs, NEW old \in Fds, NEW new \in Fds,
           NEW flags \in BOOLEAN, dup3(p, old, new, flags)
    PROVE  References' /\ DeadHoldNothing' /\ ref' \in [Descriptions -> Nat]
  <1> DEFINE c == desc[p][old]
             r == desc[p][new]
             h == <<p, new>>
  <1>1. p \in alive /\ c \in Descriptions /\ alive' = alive
        /\ desc' = [desc EXCEPT ![p] = [@ EXCEPT ![new] = c]]
    BY DEF dup3, RefInv, FdInv, IsOpen
  <1>2. \A q \in Procs, g \in Fds :
           desc'[q][g] = IF q = p /\ g = new THEN c ELSE desc[q][g]
    BY <1>1 DEF RefInv, FdInv
  <1>3. ASSUME NEW d \in Descriptions
        PROVE  ref'[d] = Cardinality(Handles(d)') /\ ref'[d] \in Nat
    <2>1. ref'[d] = ref[d] + (IF d = c THEN 1 ELSE 0) - (IF d = r THEN 1 ELSE 0)
      BY DEF dup3
    <2>2. ref[d] = Cardinality(Handles(d)) /\ ref[d] \in Nat
      BY DEF RefInv, References, Handles
    <2>3. h \in Handles(d) <=> d = r
      BY DEF Handles
    <2> DEFINE rest == Handles(d) \ {h}
    <2>4. IsFiniteSet(rest) /\ Cardinality(rest) = ref[d] - (IF d = r THEN 1 ELSE 0)
      <3>1. IsFiniteSet(Handles(d))
        BY HandlesFinite
      <3>2. /\ IsFiniteSet(rest)
            /\ Cardinality(rest) = IF h \in Handles(d) THEN Cardinality(Handles(d)) - 1
                                   ELSE Cardinality(Handles(d))
        BY <3>1, FS_RemoveElement
      <3> HIDE DEF rest, h, r
      <3> QED
        BY <2>2, <2>3, <3>2
    <2>5. Handles(d)' = IF d = c THEN rest \cup {h} ELSE rest
      BY <1>2 DEF Handles
    <2>6. Cardinality(rest) \in Nat /\ h \notin rest
      BY <2>4, FS_CardinalityType
    <2> HIDE DEF rest, h, c, r
    <2>7. Cardinality(rest \cup {h}) = Cardinality(rest) + 1
      BY <2>4, <2>6, FS_AddElement
    <2> QED BY <2>1, <2>2, <2>4, <2>5, <2>6, <2>7
  <1>4. ref' \in [Descriptions -> Nat]
    <2>1. ref' = [d \in Descriptions |-> ref[d] + (IF d = c THEN 1 ELSE 0)
                                                - (IF d = r THEN 1 ELSE 0)]
      BY DEF dup3
    <2> HIDE DEF c, r
    <2> QED BY <1>3, <2>1
  <1>5. DeadHoldNothing'
    BY <1>1, <1>2 DEF RefInv, DeadHoldNothing
  <1> QED BY <1>3, <1>4, <1>5 DEF References, Handles

\* fork doubles the references of the parent: the child starts empty.
LEMMA ForkReferences ==
    ASSUME RefInv, NEW p \in Procs, NEW child \in Procs, fork(p, child)
    PROVE  References' /\ DeadHoldNothing' /\ ref' \in [Descriptions -> Nat]
  <1>1. p \in alive /\ child \notin alive /\ alive' = alive \cup {child} /\ p # child
    BY DEF fork
  <1>2. \A q \in Procs, g \in Fds :
           desc'[q][g] = IF q = child THEN desc[p][g] ELSE desc[q][g]
    BY DEF fork, RefInv, FdInv
  <1>3. \A g \in Fds : desc[child][g] = Free
    BY <1>1 DEF RefInv, DeadHoldNothing
  <1>4. ASSUME NEW d \in Descriptions
        PROVE  ref'[d] = Cardinality(Handles(d)') /\ ref'[d] \in Nat
    <2> DEFINE new == {fd \in Fds : desc[p][fd] = d}
    <2>1. d # Free /\ new \in SUBSET Fds
      BY FdAssumption
    <2>2. Handles(d)' = Handles(d) \cup ({child} \X new)
      BY <1>2, <1>3, <2>1 DEF Handles
    <2>3. Handles(d) \cap ({child} \X new) = {}
      BY <1>3, <2>1 DEF Handles
    <2>4. IsFiniteSet({child} \X new) /\ Cardinality({child} \X new) = Cardinality(new)
          /\ Cardinality(new) \in Nat
      <3> HIDE DEF new
      <3> QED BY <2>1, RowCount
    <2>5. Cardinality(Handles(d)') = Cardinality(Handles(d)) + Cardinality(new)
      <3> HIDE DEF new
      <3>1. Cardinality(Handles(d)') = Cardinality(Handles(d)) + Cardinality({child} \X new)
                                       - Cardinality({})
        BY <2>2, <2>3, <2>4, HandlesFinite, FS_Union
      <3> QED BY <2>4, <3>1, HandlesFinite, FS_EmptySet
    <2>6. ref'[d] = ref[d] + Cardinality(new)
      BY DEF fork, Held
    <2>7. ref[d] = Cardinality(Handles(d)) /\ ref[d] \in Nat
      BY DEF RefInv, References, Handles
    <2> QED BY <2>4, <2>5, <2>6, <2>7
  <1>5. ref' \in [Descriptions -> Nat]
    <2>1. ref' = [d \in Descriptions |-> ref[d] + Held(p, Fds, d)]
      BY DEF fork
    <2> QED BY <1>4, <2>1
  <1>6. DeadHoldNothing'
    BY <1>1, <1>2 DEF RefInv, DeadHoldNothing
  <1> QED BY <1>4, <1>5, <1>6 DEF References, Handles

LEMMA RefInit == Init => RefInv
  <1> SUFFICES ASSUME Init PROVE RefInv
    OBVIOUS
  <1>1. PICK std \in [0 .. StdFds - 1 -> Descriptions] :
            /\ \A i, j \in DOMAIN std : std[i] = std[j] => i = j
            /\ desc = [p \in Procs |-> [fd \in Fds |->
                         IF p = Init_process /\ fd < StdFds THEN std[fd] ELSE Free]]
            /\ ref = [d \in Descriptions |-> IF \E i \in DOMAIN std : std[i] = d THEN 1 ELSE 0]
    BY DEF Init
  <1>2. Init_process \in Procs /\ StdFds \in Nat /\ \A i \in 0 .. StdFds - 1 : i \in Fds /\ i < StdFds
    BY FdAssumption DEF Fds
  <1>3. \A fd \in Fds : fd < StdFds => fd \in 0 .. StdFds - 1
    BY <1>2, FdAssumption DEF Fds
  <1>4. ASSUME NEW d \in Descriptions
        PROVE  ref[d] = Cardinality(Handles(d))
    <2>1. \A q \in Procs, g \in Fds :
             desc[q][g] = d <=> q = Init_process /\ g \in 0 .. StdFds - 1 /\ std[g] = d
      <3>1. d # Free
        BY FdAssumption
      <3>2. ASSUME NEW q \in Procs, NEW g \in Fds
            PROVE  desc[q][g] = IF q = Init_process /\ g < StdFds THEN std[g] ELSE Free
        BY <1>1
      <3>3. ASSUME NEW g \in 0 .. StdFds - 1
            PROVE  g < StdFds
        BY <1>2
      <3> QED BY <1>3, <3>1, <3>2, <3>3
    <2>2. CASE \E i \in 0 .. StdFds - 1 : std[i] = d
      <3>1. PICK i \in 0 .. StdFds - 1 : std[i] = d
        BY <2>2
      <3>2. \A g \in 0 .. StdFds - 1 : std[g] = d => g = i
        BY <1>1, <3>1
      <3>3. Handles(d) = {<<Init_process, i>>}
        BY <1>2, <2>1, <3>1, <3>2 DEF Handles
      <3>4. ref[d] = 1
        BY <1>1, <3>1
      <3> QED BY <3>3, <3>4, FS_Singleton
    <2>3. CASE ~ \E i \in 0 .. StdFds - 1 : std[i] = d
      <3>1. Handles(d) = {}
        BY <2>1, <2>3 DEF Handles
      <3>2. ref[d] = 0
        BY <1>1, <2>3
      <3> QED BY <3>1, <3>2, FS_EmptySet
    <2> QED BY <2>2, <2>3
  <1>5. DeadHoldNothing
    BY <1>1 DEF Init, DeadHoldNothing
  <1>6. References
    BY <1>4 DEF References, Handles
  <1> QED BY <1>1, <1>5, <1>6, InvInit DEF RefInv

\* The part of RefInv that FdInv does not state.
RefRest == References /\ DeadHoldNothing /\ ref \in [Descriptions -> Nat]

LEMMA RefStep == RefInv /\ [Next]_vars => RefInv'
  <1> SUFFICES ASSUME RefInv, [Next]_vars PROVE RefInv'
    OBVIOUS
  <1>0. FdInv'
    BY InvStep DEF RefInv
  <1>1. ASSUME NEW p \in Procs, NEW d \in Descriptions, NEW flags \in BOOLEAN, openat(p, d, flags)
        PROVE  RefRest'
    BY <1>1, OpenReferences DEF RefRest
  <1>2. ASSUME NEW p \in Procs, NEW fd \in Fds, NEW min \in 0 .. MaxFds,
               NEW flags \in BOOLEAN, dupfd(p, fd, min, flags)
        PROVE  RefRest'
    BY <1>2, DupReferences DEF RefRest
  <1>3. ASSUME desc' = desc, ref' = ref, alive' = alive
        PROVE  RefRest'
    BY <1>3 DEF RefInv, References, DeadHoldNothing, RefRest
  <1>4. ASSUME NEW p \in Procs, NEW S \in SUBSET Fds, close_all(p, S), alive' = alive
        PROVE  RefRest'
    <2>1. \A q \in Procs, g \in Fds : desc[q][g] = Free => desc'[q][g] = Free
      BY <1>4 DEF close_all, RefInv, FdInv
    <2>2. DeadHoldNothing'
      BY <1>4, <2>1 DEF RefInv, DeadHoldNothing
    <2> QED BY <1>4, <2>2, CloseReferences DEF RefRest
  <1>5. ASSUME NEW p \in Procs, NEW old \in Fds, NEW new \in Fds, NEW flags \in BOOLEAN,
               dup3(p, old, new, flags)
        PROVE  RefRest'
    BY <1>5, Dup3References DEF RefRest
  <1>6. ASSUME NEW p \in Procs, NEW child \in Procs, fork(p, child)
        PROVE  RefRest'
    BY <1>6, ForkReferences DEF RefRest
  <1>7. ASSUME NEW p \in Procs, zombify(p)
        PROVE  RefRest'
    <2> DEFINE S == OpenIn(p, 0, MaxFds - 1)
    <2>1. S \in SUBSET Fds /\ close_all(p, S) /\ alive' = alive \ {p}
      BY <1>7 DEF OpenIn, zombify
    <2>2. \A g \in Fds : desc'[p][g] = IF g \in S THEN Free ELSE desc[p][g]
      BY <2>1 DEF close_all, RefInv, FdInv
    <2>3. \A q \in Procs : q # p => desc'[q] = desc[q]
      BY <2>1 DEF close_all, RefInv, FdInv
    <2>4. \A g \in Fds : g \notin S => desc[p][g] = Free
      BY FdAssumption DEF OpenIn, RefInv, FdInv, HintSound, IsOpen, Fds
    <2> HIDE DEF S
    <2>5. DeadHoldNothing'
      BY <2>1, <2>2, <2>3, <2>4 DEF RefInv, DeadHoldNothing
    <2> QED BY <2>1, <2>5, CloseReferences DEF RefRest
  <1>8. ASSUME NEW p \in Procs, NEW fd \in Fds, close(p, fd)
        PROVE  RefRest'
    BY <1>4, <1>8 DEF close
  <1>9. ASSUME NEW p \in Procs, NEW first \in Fds, NEW last \in Fds, close_range(p, first, last)
        PROVE  RefRest'
    <2>1. OpenIn(p, first, last) \in SUBSET Fds
      BY DEF OpenIn
    <2> QED BY <1>4, <1>9, <2>1 DEF close_range
  <1>10. ASSUME NEW p \in Procs, execve(p)
         PROVE  RefRest'
    <2>1. cloexec[p] \in SUBSET Fds
      BY DEF RefInv, FdInv
    <2> QED BY <1>4, <1>10, <2>1 DEF execve
  <1>11. ASSUME UNCHANGED vars
         PROVE  RefRest'
    BY <1>3, <1>11 DEF vars
  <1>12. ASSUME NEW p \in Procs, NEW fd \in Fds, NEW flags \in BOOLEAN, set_flags(p, fd, flags)
         PROVE  RefRest'
    BY <1>3, <1>12 DEF set_flags
  <1>13. ASSUME NEW p \in Procs, NEW first \in Fds, NEW last \in Fds,
                close_range_cloexec(p, first, last)
         PROVE  RefRest'
    BY <1>3, <1>13 DEF close_range_cloexec
  <1>14. RefRest'
    BY <1>1, <1>2, <1>5, <1>6, <1>7, <1>8, <1>9, <1>10, <1>11, <1>12, <1>13 DEF Next
  <1> QED BY <1>0, <1>14 DEF RefInv, RefRest

\* A description has as many references as there are descriptors that refer to
\* it, over all processes: no close, dup3, fork, execve or exit, in any order,
\* frees one that is in use or keeps one that is not.
THEOREM DescriptionsCounted == Spec => []References
  <1>1. RefInv => References
    BY DEF RefInv
  <1> QED
    BY RefInit, RefStep, <1>1, PTL DEF Spec
=============================================================================
