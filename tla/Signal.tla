------------------------------- MODULE Signal -------------------------------
(***************************************************************************)
(* Signal handlers of one thread (userland/signal.cpp, the end of a system *)
(* call in cpu/syscall/syscall.cpp): actions, masks, the frames that       *)
(* dispatch pushes and sigreturn pops, the mask of ppoll and epoll_pwait,  *)
(* system calls that are started again.                                    *)
(*                                                                         *)
(* A frame is what to_ucontext saves: the mask and where to go on.  A      *)
(* frame on the alternate stack starts at its top, also when a handler     *)
(* runs there already: it then overwrites the live frame (sig_overwritten).*)
(***************************************************************************)
EXTENDS Naturals, Sequences, FiniteSets

CONSTANTS SigNumbers,      \* a set of numbers
          SigActions,   \* what rt_sigaction may install: handler, flags, mask
          SigMasks,     \* the masks programs set
          MaxFrames

Actions == [handler : {"default", "ignore", "handler"},
            flags : SUBSET {"nodefer", "onstack", "restart", "resethand"}, mask : SUBSET SigNumbers]
ASSUME SigAssumption ==
    /\ SigNumbers \subseteq Nat /\ MaxFrames \in Nat
    /\ SigActions \subseteq Actions /\ SigMasks \subseteq (SUBSET SigNumbers)

VARIABLES sig_mask, sig_pending, sig_action,
          sig_frames,   \* the live frames, the innermost last
          sig_alt,      \* signal_alt_stack: off, on, or busy (SS_ONSTACK)
          sig_pc,       \* user, polling, eintr (just back from a call), again, dead
          sig_poll,     \* <<>> or <<poll_saved_signal_mask>>
          sig_user_mask, sig_opened, sig_overwritten   \* history

signal_vars == <<sig_mask, sig_pending, sig_action, sig_frames, sig_alt, sig_pc, sig_poll,
                 sig_user_mask, sig_opened, sig_overwritten>>

DefaultAction == [handler |-> "default", flags |-> {}, mask |-> {}]
SignalInit ==
    /\ sig_mask = {} /\ sig_pending = {} /\ sig_action = [s \in SigNumbers |-> DefaultAction]
    /\ sig_frames = <<>> /\ sig_alt = "off" /\ sig_pc = "user" /\ sig_poll = <<>>
    /\ sig_user_mask = {} /\ sig_opened = FALSE /\ sig_overwritten = FALSE

accepted_signals == sig_pending \ sig_mask
FirstAccepted == CHOOSE s \in accepted_signals : \A t \in accepted_signals : s <= t

sig_send(s) ==
    /\ sig_pc # "dead" /\ s \notin sig_pending
    /\ sig_pending' = sig_pending \cup {s}
    /\ UNCHANGED <<sig_mask, sig_action, sig_frames, sig_alt, sig_pc, sig_poll,
                   sig_user_mask, sig_opened, sig_overwritten>>

rt_sigaction(s, action) ==
    /\ sig_pc = "user"
    /\ sig_action' = [sig_action EXCEPT ![s] = action]
    /\ UNCHANGED <<sig_mask, sig_pending, sig_frames, sig_alt, sig_pc, sig_poll,
                   sig_user_mask, sig_opened, sig_overwritten>>

\* SIG_BLOCK, SIG_UNBLOCK and SIG_SETMASK.
rt_sigprocmask(mask) ==
    /\ sig_pc = "user"
    /\ sig_mask' = mask
    /\ sig_user_mask' = IF sig_frames = <<>> THEN mask ELSE sig_user_mask
    /\ sig_opened' = (sig_opened \/ (sig_frames # <<>> /\ ~(sig_mask \subseteq mask)))
    /\ UNCHANGED <<sig_pending, sig_action, sig_frames, sig_alt, sig_pc, sig_poll, sig_overwritten>>

sigaltstack(alt) ==
    /\ sig_pc = "user"
    /\ sig_alt' = alt
    /\ UNCHANGED <<sig_mask, sig_pending, sig_action, sig_frames, sig_pc, sig_poll,
                   sig_user_mask, sig_opened, sig_overwritten>>

\* ppoll and epoll_pwait put another mask in place while they sleep.
sig_ppoll(mask) ==
    /\ sig_pc = "user"
    /\ sig_poll' = <<sig_mask>> /\ sig_mask' = mask /\ sig_pc' = "polling"
    /\ UNCHANGED <<sig_pending, sig_action, sig_frames, sig_alt, sig_user_mask, sig_opened,
                   sig_overwritten>>
\* The call ends, by a signal or not.  The saved mask is back before signals are
\* looked at: one that only the poll let through has to wait.
syscall_handler_end ==
    /\ sig_pc = "polling"
    /\ sig_pc' = IF accepted_signals # {} THEN "eintr" ELSE "user"
    /\ sig_mask' = sig_poll[1] /\ sig_poll' = <<>>
    /\ UNCHANGED <<sig_pending, sig_action, sig_frames, sig_alt, sig_user_mask, sig_opened,
                   sig_overwritten>>
\* The program goes on after -EINTR, or makes the call again.
sig_goes_on ==
    /\ sig_pc \in {"eintr", "again"}
    /\ sig_pc' = "user"
    /\ UNCHANGED <<sig_mask, sig_pending, sig_action, sig_frames, sig_alt, sig_poll,
                   sig_user_mask, sig_opened, sig_overwritten>>
-----------------------------------------------------------------------------
HandlerMask(s) ==
    sig_mask \cup sig_action[s].mask \cup (IF "nodefer" \in sig_action[s].flags THEN {} ELSE {s})

ResumeAt(s) == IF "restart" \in sig_action[s].flags /\ sig_pc = "eintr" THEN "again" ELSE sig_pc

dispatch_handler(s) ==
    LET on_alt == "onstack" \in sig_action[s].flags /\ sig_alt # "off" IN
    /\ Len(sig_frames) < MaxFrames
    /\ sig_frames' = Append(sig_frames, [signal |-> s, mask |-> sig_mask, alt |-> on_alt,
                                         resume |-> ResumeAt(s),
                                         deferred |-> "nodefer" \notin sig_action[s].flags])
    /\ sig_overwritten' = (sig_overwritten \/ (on_alt /\ \E i \in DOMAIN sig_frames : sig_frames[i].alt))
    /\ sig_alt' = IF on_alt THEN "busy" ELSE sig_alt
    /\ sig_mask' = HandlerMask(s)
    /\ sig_action' = IF "resethand" \in sig_action[s].flags
                     THEN [sig_action EXCEPT ![s].handler = "default"] ELSE sig_action
    /\ sig_pc' = "user"

\* In scheduler_isr, on the way to user mode.  Without SA_RESTART an ignored
\* signal leaves the -EINTR it caused.
dispatch_pending_signal ==
    /\ sig_pc \in {"user", "eintr", "again"} /\ accepted_signals # {}
    /\ sig_pending' = sig_pending \ {FirstAccepted}
    /\ IF sig_action[FirstAccepted].handler = "handler"
       THEN dispatch_handler(FirstAccepted)
       ELSE /\ sig_pc' = IF sig_action[FirstAccepted].handler = "default" THEN "dead"
                         ELSE ResumeAt(FirstAccepted)
            /\ UNCHANGED <<sig_mask, sig_action, sig_frames, sig_alt, sig_overwritten>>
    /\ UNCHANGED <<sig_poll, sig_user_mask, sig_opened>>

\* Mutant: the frame's mask is only taken off by the signal.
return_from_signal_partly ==
    LET frame == sig_frames[Len(sig_frames)] IN
    /\ sig_pc = "user" /\ sig_frames # <<>>
    /\ sig_mask' = sig_mask \ {frame.signal}
    /\ sig_frames' = SubSeq(sig_frames, 1, Len(sig_frames) - 1)
    /\ sig_alt' = IF sig_alt = "busy" THEN "on" ELSE sig_alt
    /\ sig_pc' = frame.resume /\ sig_poll' = <<>>
    /\ sig_opened' = (sig_opened /\ Len(sig_frames) > 1)
    /\ UNCHANGED <<sig_pending, sig_action, sig_user_mask, sig_overwritten>>
\* rt_sigreturn and return_from_signal; SS_ONSTACK goes with any return.
return_from_signal ==
    LET frame == sig_frames[Len(sig_frames)] IN
    /\ sig_pc = "user" /\ sig_frames # <<>>
    /\ sig_mask' = IF sig_poll = <<>> THEN frame.mask ELSE sig_poll[1]
    /\ sig_frames' = SubSeq(sig_frames, 1, Len(sig_frames) - 1)
    /\ sig_alt' = IF sig_alt = "busy" THEN "on" ELSE sig_alt
    /\ sig_pc' = frame.resume /\ sig_poll' = <<>>
    /\ sig_opened' = (sig_opened /\ Len(sig_frames) > 1)
    /\ UNCHANGED <<sig_pending, sig_action, sig_user_mask, sig_overwritten>>

\* After a live frame has been overwritten anything may happen.
SignalNext ==
    /\ ~sig_overwritten
    /\ \/ \E s \in SigNumbers :
             \/ sig_send(s)
             \/ \E action \in SigActions : rt_sigaction(s, action)
       \/ \E mask \in SigMasks :
             \/ rt_sigprocmask(mask)
             \/ sig_ppoll(mask)
       \/ \E alt \in {"off", "on"} : sigaltstack(alt)
       \/ syscall_handler_end
       \/ sig_goes_on
       \/ dispatch_pending_signal
       \/ return_from_signal

SignalSpec == SignalInit /\ [][SignalNext]_signal_vars
-----------------------------------------------------------------------------
\* Outside of handlers and polls the thread has the mask it set last, after any
\* nesting of handlers, whatever they did to the mask and where they were
\* interrupted.
SigMaskRestored ==
    sig_frames = <<>> /\ sig_pc # "polling" => sig_mask = sig_user_mask

\* A signal that its action defers does not interrupt its own handler unless
\* some handler has unblocked signals itself.
SigNotReentered ==
    ~sig_opened => \A i, j \in DOMAIN sig_frames :
        i < j /\ sig_frames[i].deferred => sig_frames[i].signal # sig_frames[j].signal

\* Delivery of signals: masks come back, handlers are entered once.
SignalSafe == SigMaskRestored /\ SigNotReentered
=============================================================================
