----------------------------- MODULE MCEventList ----------------------------
(***************************************************************************)
(* Instances of EventList: waits for one event, as in read, write, accept  *)
(* and nanosleep, and waits for two, as in poll and futex with a timeout.  *)
(***************************************************************************)
EXTENDS EventList, TLC

OneEvent == {<<e>> : e \in Events}
TwoEvents == OneEvent \cup {w \in Events \X Events : w[1] # w[2]}

ListSymmetry == Permutations(Threads)
=============================================================================
