--------------------------------- MODULE Tty ---------------------------------
(***************************************************************************)
(* Terminals (dev/tty): the line discipline and the controlling terminal   *)
(* of a session (tty.hpp, tty.cpp), pseudo terminals (pty.cpp) and the     *)
(* console (console.cpp).                                                  *)
(*                                                                         *)
(* Characters are "a" (any other), "nl", "cr" and "intr" (VINTR).  A       *)
(* process is named by its group.  The foreground group of a new terminal  *)
(* is not set; a signal character that finds it so ends the run.           *)
(***************************************************************************)
EXTENDS Naturals

LOCAL INSTANCE Sequences

CONSTANTS PtyCapacity, PtyBuffers,      \* size of a ring; what is written at once
          Termios,                      \* sets of flags TCSETS may give
          TtyGroups, SessionOf, Leads,  \* groups, their sessions, the leaders' groups
          NoGroup,
          ConsoleCapacity, Keys         \* the characters a key makes

\* The characters: those of buffers and keys, and those the line discipline makes.
TtyChars == {"nl", "cr"} \cup UNION {{b[i] : i \in DOMAIN b} : b \in PtyBuffers \cup Keys}

ASSUME TtyAssumption ==
    /\ {PtyCapacity, ConsoleCapacity} \subseteq Nat \ {0}
    /\ PtyBuffers \subseteq Seq(TtyChars)
    /\ \A k \in Keys : k \in Seq(TtyChars) /\ Len(k) <= ConsoleCapacity
    /\ Leads \subseteq TtyGroups /\ DOMAIN SessionOf = TtyGroups /\ NoGroup \notin TtyGroups

PtyEnds == {"master", "slave"}
Peer(e) == IF e = "master" THEN "slave" ELSE "master"

VARIABLES pty,         \* end -> its ring_buffer and the calls that sleep in it
          packet_mode, \* of the master
          pty_due,     \* history: what the end is still to read of what was accepted
          pty_cut,     \* history: a newline was written by half to this end
          tty,         \* the terminal: flags, foreground group, session
          tty_crashed,
          console,     \* the console's input_buffer and its reader
          typed        \* history: the last characters made by keys

tty_vars == <<pty, packet_mode, pty_due, pty_cut, tty, tty_crashed, console, typed>>
pty_vars == <<pty, packet_mode, pty_due, pty_cut>>
console_vars == <<console, typed>>

TtyInit ==
    /\ pty = [e \in PtyEnds |-> [ring |-> <<>>, in |-> "idle", out |-> <<>>, up |-> FALSE]]
    /\ packet_mode = FALSE
    /\ pty_due = [e \in PtyEnds |-> <<>>]
    /\ pty_cut = [e \in PtyEnds |-> FALSE]
    /\ tty = [flags |-> {"ICRNL", "ONLCR", "ISIG"}, fg |-> NoGroup, session |-> 0,
              foreign |-> FALSE]
    /\ tty_crashed = FALSE
    /\ console = [buffer |-> <<>>, reader |-> "idle"]
    /\ typed = <<>>
-----------------------------------------------------------------------------
process_output_char(c) == IF c = "nl" /\ "ONLCR" \in tty.flags THEN <<"cr", "nl">> ELSE <<c>>

\* A return that becomes a newline is put, and then the return as well.
Raises(c) == c = "intr" /\ "ISIG" \in tty.flags
process_input_char(c) ==
    IF c = "cr" /\ "IGNCR" \in tty.flags THEN <<>>
    ELSE (CASE c = "cr" /\ "ICRNL" \in tty.flags -> <<"nl">>
            [] c = "nl" /\ "INLCR" \in tty.flags -> <<"cr">>
            [] OTHER -> <<>>)
         \o (IF Raises(c) THEN <<>> ELSE <<c>>)
Processed(e, c) == IF e = "slave" THEN process_output_char(c) ELSE process_input_char(c)

RingCounted(st, fits) == IF fits THEN st.count + 1 ELSE st.count
\* The loop of write over its buffer: it ends at the first character of whose
\* output something did not fit; what did fit of it stays in the ring.
Put(e, st, c) ==
    LET out == Processed(e, c)
        room == PtyCapacity - Len(st.ring)
        fits == Len(out) <= room
    IN  IF st.end THEN st
        ELSE [ring |-> st.ring \o SubSeq(out, 1, IF fits THEN Len(out) ELSE room),
              count |-> RingCounted(st, fits), end |-> ~fits,
              cut |-> ~fits /\ room > 0,
              raised |-> st.raised \/ (e = "master" /\ Raises(c))]
Written(e, buffer) ==
    LET st[i \in 0 .. Len(buffer)] ==
            IF i = 0 THEN [ring |-> pty[Peer(e)].ring, count |-> 0, end |-> FALSE,
                           cut |-> FALSE, raised |-> FALSE]
            ELSE Put(e, st[i - 1], buffer[i])
    IN  st[Len(buffer)]
\* What the first n characters of a buffer become.
CharsTaken(e, buffer, n) ==
    LET out[i \in 0 .. Len(buffer)] ==
            IF i = 0 THEN <<>> ELSE out[i - 1] \o Processed(e, buffer[i])
    IN  out[n]

\* pty_event.trigger: a sleeping reader or writer of the end wakes up.
TtyTriggers(p, e) == [p EXCEPT ![e].in = IF @ = "asleep" THEN "woken" ELSE @,
                            ![e].up = (p[e].out # <<>>)]

pty_write(e, buffer) ==
    LET w == Written(e, buffer) IN
    /\ pty[e].out = <<>> \/ (pty[e].up /\ buffer = pty[e].out)
    /\ IF Len(pty[Peer(e)].ring) = PtyCapacity
       THEN /\ pty' = [pty EXCEPT ![e].out = buffer, ![e].up = FALSE]
            /\ UNCHANGED <<pty_due, pty_cut, tty_crashed>>
       ELSE /\ pty' = TtyTriggers([pty EXCEPT ![Peer(e)].ring = w.ring,
                                           ![e].out = <<>>, ![e].up = FALSE], Peer(e))
            /\ pty_cut' = [pty_cut EXCEPT ![Peer(e)] = @ \/ w.cut]
            /\ pty_due' = [pty_due EXCEPT ![Peer(e)] =
                              IF pty_cut'[Peer(e)] THEN <<>>
                              ELSE @ \o CharsTaken(e, buffer, w.count)]
            /\ tty_crashed' = (w.raised /\ tty.fg = NoGroup)
    /\ UNCHANGED <<packet_mode, tty, console_vars>>

\* Mutant: the end that reads is told, and not the writer at the other end.
Told_self(p, e) == TtyTriggers(p, e)
Told_peer(p, e) == TtyTriggers(p, Peer(e))
\* In packet mode one byte of the master's buffer is the header.
pty_read(e, n) ==
    LET ring == pty[e].ring
        want == IF e = "master" /\ packet_mode THEN n - 1 ELSE n
        count == IF want < Len(ring) THEN want ELSE Len(ring)
    IN
    /\ pty[e].in \in {"idle", "woken"}
    /\ IF ring = <<>>
       THEN pty' = [pty EXCEPT ![e].in = "asleep"] /\ UNCHANGED pty_due
       ELSE /\ pty' = Told_peer([pty EXCEPT ![e].ring = SubSeq(@, count + 1, Len(@)),
                                            ![e].in = "idle"], e)
            /\ pty_due' = [pty_due EXCEPT ![e] =
                              IF count < Len(@) THEN SubSeq(@, count + 1, Len(@)) ELSE <<>>]
    /\ UNCHANGED <<packet_mode, pty_cut, tty, tty_crashed, console_vars>>

pty_interrupted(e) ==
    /\ \/ pty[e].in = "asleep" /\ pty' = [pty EXCEPT ![e].in = "idle"]
       \/ pty[e].out # <<>> /\ ~pty[e].up /\ pty' = [pty EXCEPT ![e].out = <<>>]
    /\ UNCHANGED <<packet_mode, pty_due, pty_cut, tty, tty_crashed, console_vars>>
pty_ioctl_packet ==
    /\ packet_mode' = ~packet_mode
    /\ UNCHANGED <<pty, pty_due, pty_cut, tty, tty_crashed, console_vars>>

tcsets(flags) ==
    /\ flags # tty.flags
    /\ tty' = [tty EXCEPT !.flags = flags]
    /\ UNCHANGED <<pty_vars, tty_crashed, console_vars>>

PtyNext ==
    /\ ~tty_crashed
    /\ \/ \E e \in PtyEnds : \/ \E b \in PtyBuffers : pty_write(e, b)
                          \/ \E n \in 1 .. PtyCapacity : pty_read(e, n)
                          \/ pty_interrupted(e)
       \/ pty_ioctl_packet
       \/ \E f \in Termios : tcsets(f)
-----------------------------------------------------------------------------
\* Opening the master without O_NOCTTY, and TIOCSCTTY: by a session leader.
set_controlling_terminal(g) ==
    /\ g \in Leads
    /\ tty' = [tty EXCEPT !.session = SessionOf[g], !.fg = g, !.foreign = FALSE]
    /\ UNCHANGED <<pty_vars, tty_crashed, console_vars>>

MayPut(g, target) == SessionOf[target] = SessionOf[g]
\* TIOCSPGRP by a process of g: its session need not be the terminal's.
tiocspgrp(g, target) ==
    /\ MayPut(g, target)
    /\ tty' = [tty EXCEPT !.fg = target, !.foreign = SessionOf[g] # tty.session]
    /\ UNCHANGED <<pty_vars, tty_crashed, console_vars>>

SessionNext ==
    /\ ~tty_crashed
    /\ \E g \in TtyGroups : \/ set_controlling_terminal(g)
                            \/ \E h \in TtyGroups : tiocspgrp(g, h)
-----------------------------------------------------------------------------
\* As many of the oldest characters go as the new ones are.
write_truncate(buffer, chars) ==
    LET free == ConsoleCapacity - Len(buffer) IN
    (IF free < Len(chars)
     THEN SubSeq(buffer, (IF Len(chars) < Len(buffer) THEN Len(chars) ELSE Len(buffer)) + 1, Len(buffer))
     ELSE buffer) \o chars

\* flush_events of the keyboard: the console's callback, then the event.
console_key(chars) ==
    LET all == typed \o chars IN
    /\ console' = [buffer |-> write_truncate(console.buffer, chars),
                   reader |-> IF console.reader = "asleep" THEN "woken" ELSE console.reader]
    /\ typed' = SubSeq(all, IF Len(all) > ConsoleCapacity THEN Len(all) - ConsoleCapacity + 1 ELSE 1,
                       Len(all))
    /\ UNCHANGED <<pty_vars, tty, tty_crashed>>
console_read(n) ==
    /\ console.reader \in {"idle", "woken"}
    /\ console' = IF console.buffer = <<>> THEN [console EXCEPT !.reader = "asleep"]
                  ELSE [buffer |-> SubSeq(console.buffer, n + 1, Len(console.buffer)),
                        reader |-> "idle"]
    /\ UNCHANGED <<typed, pty_vars, tty, tty_crashed>>
ConsoleNext == \/ \E k \in Keys : console_key(k)
               \/ \E n \in 1 .. ConsoleCapacity : console_read(n)

TtySpec == TtyInit /\ [][PtyNext \/ SessionNext \/ ConsoleNext]_tty_vars
-----------------------------------------------------------------------------
\* What waits in a ring is what was accepted by write and not read yet, after
\* the line discipline of its time, through partial writes, packet reads and
\* changes of the flags; unless the ring became full between the two
\* characters of a newline, of which the first is then written twice.
PtyStream == \A e \in PtyEnds : ~tty_crashed /\ ~pty_cut[e] => pty[e].ring = pty_due[e]

\* Nobody sleeps for what is there: a reader for characters, a writer for room,
\* the console's reader for keys.
TtyStranded ==
    /\ \A e \in PtyEnds :
          /\ pty[e].in = "asleep" => pty[e].ring = <<>>
          /\ pty[e].out # <<>> /\ ~pty[e].up => Len(pty[Peer(e)].ring) = PtyCapacity
    /\ console.reader = "asleep" => console.buffer = <<>>

\* The foreground group belongs to the session that the terminal controls, and
\* so does whoever gets its signals; unless a process of another session, which
\* TIOCSPGRP does not refuse, has set it.
TtyForeground ==
    tty.fg # NoGroup /\ ~tty.foreign => SessionOf[tty.fg] = tty.session

\* The console keeps the latest keys: its buffer ends with the last typed.
ConsoleLatest ==
    Len(console.buffer) <= Len(typed)
        /\ console.buffer = SubSeq(typed, Len(typed) - Len(console.buffer) + 1, Len(typed))

\* Terminals: characters arrive once, sleepers are woken, signals go to the session
\* of the terminal, the console keeps the latest keys.
TtySafe == PtyStream /\ TtyStranded /\ TtyForeground /\ ConsoleLatest
=============================================================================
