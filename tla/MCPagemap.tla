----------------------------- MODULE MCPagemap ------------------------------
(***************************************************************************)
(* An instance of Pagemap.  The frames are named after the page they are   *)
(* first used for, so that states that differ only in which frame was free *)
(* are not told apart; one more frame per space serves execve, which needs *)
(* a stack page while the old one is in use.                               *)
(***************************************************************************)
EXTENDS Pagemap

MCFrames == Spaces \X Pages \X {1} \cup Spaces \X {StackTop} \X {2}

MCKinds == {<<"ANONYMOUS", "rw">>, <<"FILE", "r">>, <<"DIRECT", "rw">>}

MCPool ==
    [s \in Spaces |-> [va \in Pages |->
        {f \in Frames : f[1] = s /\ f[2] = va}]]
=============================================================================
