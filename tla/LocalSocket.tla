----------------------------- MODULE LocalSocket -----------------------------
(***************************************************************************)
(* Local sockets (userland/socket/local/stream.cpp, datagram.cpp and       *)
(* userland/socket/socket.cpp): listen, connect, accept, the transfer of a *)
(* byte stream with one reader and one writer on each end, close; and      *)
(* datagrams between sockets that have a name.                             *)
(*                                                                         *)
(* A system call runs with interrupts disabled up to its sleep.  Every     *)
(* socket has one event for all its sleepers.  Bytes are numbered by their *)
(* sender.  Uses of a peer that is gone after a sleep, and of a list link  *)
(* that is in the list already, end the run with sock_crashed.             *)
(***************************************************************************)
EXTENDS Naturals, FiniteSets, FiniteSetsExt

LOCAL INSTANCE Sequences

CONSTANTS SockClients, SockAccepted,   \* sockets that connect; that accept makes
          RingCapacity, Chunks,        \* bytes a ring holds; sizes of transfers
          MaxSent,                     \* bytes sent in all
          DgSockets, DgCapacity, MaxDatagrams

Socks == SockClients \cup SockAccepted
NoPeer == "none"

ASSUME LocalSocketAssumption ==
    /\ {RingCapacity, MaxSent, DgCapacity, MaxDatagrams} \subseteq Nat \ {0}
    /\ Chunks \subseteq Nat \ {0} /\ NoPeer \notin Socks

NoRing == <<0>>

VARIABLES sock,         \* socket -> its state
          sock_call,    \* socket -> the calls that sleep in it, by direction
          sock_listen,  \* the listening socket: max_pending, the pending list, acceptor
          sock_crashed,
          dg_sock, dg_call, dg_sent,
          dg_from       \* history: who has ever sent to a socket

socket_vars == <<sock, sock_call, sock_listen, sock_crashed, dg_sock, dg_call, dg_sent, dg_from>>
stream_vars == <<sock, sock_call, sock_listen, sock_crashed>>
dg_vars == <<dg_sock, dg_call, dg_sent, dg_from>>

\* pending: triggers of the event that found no listener; tangled (history):
\* connected again (the ring of the first connection is kept), or closed, while
\* the last connect was not over.
NewSock == [open |-> FALSE, peer |-> NoPeer, ring |-> NoRing, pending |-> 0,
            sent |-> 0, received |-> 0, tangled |-> FALSE]
LocalSocketInit ==
    /\ sock = [s \in Socks |-> [NewSock EXCEPT !.open = s \in SockClients]]
    /\ sock_call = [s \in Socks |-> [in |-> "idle", out |-> "idle"]]
    /\ sock_listen = [max_pending |-> 0, list |-> <<>>, acceptor |-> "idle"]
    /\ sock_crashed = FALSE
    /\ dg_sock = [d \in DgSockets |-> <<>>]
    /\ dg_call = [d \in DgSockets |-> [in |-> "idle", out |-> "idle", target |-> d]]
    /\ dg_sent = [d \in DgSockets |-> 0]
    /\ dg_from = [d \in DgSockets |-> {}]

Asleep(call) == call \in {"connects", "receives", "sends"}
Up(call) == CASE call = "connects" -> "connected" [] call = "receives" -> "received"
              [] call = "sends" -> "sent" [] OTHER -> call
\* socket_event.trigger of s: all that sleep in it wake up.
Told(calls, s) == IF s \notin DOMAIN calls THEN calls
                  ELSE [calls EXCEPT ![s].in = Up(@), ![s].out = Up(@)]
Listens(s) == Asleep(sock_call[s].in) \/ Asleep(sock_call[s].out)
-----------------------------------------------------------------------------
sock_do_listen ==
    /\ sock_listen.max_pending = 0
    /\ sock_listen' = [sock_listen EXCEPT !.max_pending = 1]
    /\ UNCHANGED <<sock, sock_call, sock_crashed, dg_vars>>

Linked(c) == \E i \in DOMAIN sock_listen.list : sock_listen.list[i] = c

\* num_pending is never counted: only a socket that does not listen refuses.  A
\* trigger that came early lets connect return before it is accepted.
sock_connect(c) ==
    /\ sock[c].open /\ sock_call[c].out = "idle" /\ sock_listen.max_pending > 0
    /\ sock_crashed' = Linked(c)
    /\ sock_listen' = [sock_listen EXCEPT !.list = Append(@, c),
                          !.acceptor = IF @ = "asleep" THEN "woken" ELSE @]
    /\ sock' = [sock EXCEPT ![c].tangled = @ \/ sock[c].ring # NoRing \/ sock[c].pending > 0,
                            ![c].pending = IF @ > 0 THEN @ - 1 ELSE 0]
    /\ sock_call' = IF sock[c].pending > 0 THEN sock_call
                    ELSE [sock_call EXCEPT ![c].out = "connects"]
    /\ UNCHANGED dg_vars

\* accept makes the connection and wakes connect, or leaves the trigger pending.
sock_accept(a) ==
    LET c == sock_listen.list[1] IN
    /\ sock_listen.acceptor \in {"idle", "woken"} /\ sock_listen.list # <<>>
    /\ sock[a] = NewSock
    /\ sock_listen' = [sock_listen EXCEPT !.list = Tail(@), !.acceptor = "idle"]
    /\ sock' = [sock EXCEPT
          ![a].open = TRUE, ![a].peer = c, ![a].ring = <<>>, ![a].tangled = sock[c].tangled,
          ![c].peer = a, ![c].ring = IF @ = NoRing THEN <<>> ELSE @,
          ![c].pending = IF Listens(c) THEN @ ELSE @ + 1]
    /\ sock_call' = Told(sock_call, c)
    /\ UNCHANGED <<sock_crashed, dg_vars>>
accept_sleeps ==
    /\ sock_listen.acceptor \in {"idle", "woken"} /\ sock_listen.list = <<>>
    /\ sock_listen' = [sock_listen EXCEPT !.acceptor = "asleep"]
    /\ UNCHANGED <<sock, sock_call, sock_crashed, dg_vars>>

sock_socketpair(s, t) ==
    /\ s # t /\ \A u \in {s, t} : sock[u] = NewSock
    /\ sock' = [sock EXCEPT ![s].open = TRUE, ![s].peer = t, ![s].ring = <<>>,
                            ![t].open = TRUE, ![t].peer = s, ![t].ring = <<>>]
    /\ UNCHANGED <<sock_call, sock_listen, sock_crashed, dg_vars>>
-----------------------------------------------------------------------------
Rest(ring, n) == SubSeq(ring, n + 1, Len(ring))

\* Mutant: the reader wakes up its own side.
Receives_self(s, n) ==
    LET count == IF n < Len(sock[s].ring) THEN n ELSE Len(sock[s].ring) IN
    /\ sock_crashed' = (sock[s].peer = NoPeer)
    /\ sock' = [sock EXCEPT ![s].ring = Rest(@, count), ![s].received = @ + count]
    /\ sock_call' = Told([sock_call EXCEPT ![s].in = "idle"], s)
\* The bytes are taken out; the peer is told: by then it may be gone.
Receives(s, n) ==
    LET count == IF n < Len(sock[s].ring) THEN n ELSE Len(sock[s].ring) IN
    /\ sock_crashed' = (sock[s].peer = NoPeer)
    /\ sock' = [sock EXCEPT ![s].ring = Rest(@, count), ![s].received = @ + count]
    /\ sock_call' = Told([sock_call EXCEPT ![s].in = "idle"], sock[s].peer)

sock_recvmsg(s, n) ==
    /\ sock[s].open /\ sock[s].ring # NoRing
    /\ \/ sock_call[s].in = "idle" /\ sock[s].peer # NoPeer
       \/ sock_call[s].in = "received"
    /\ IF sock[s].ring = <<>>
       THEN /\ sock_call' = [sock_call EXCEPT ![s].in = "receives"]
            /\ sock' = [sock EXCEPT ![s].pending = 0]
            /\ UNCHANGED sock_crashed
       ELSE Receives(s, n)
    /\ UNCHANGED <<sock_listen, dg_vars>>

Sends(s, t, n) ==
    LET room == RingCapacity - Len(sock[t].ring)
        count == IF n < room THEN n ELSE room
    IN  /\ sock' = [sock EXCEPT ![t].ring = @ \o [i \in 1 .. count |-> sock[s].sent + i],
                                ![s].sent = @ + count]
        /\ sock_call' = Told([sock_call EXCEPT ![s].out = "idle"], t)

SumSent == FoldSet(LAMBDA u, sum : sock[u].sent + sum, 0, Socks)
sock_sendmsg(s, n) ==
    LET t == sock[s].peer IN
    /\ sock[s].open /\ SumSent < MaxSent
    /\ \/ sock_call[s].out = "idle" /\ t # NoPeer /\ sock[t].ring # NoRing
       \/ sock_call[s].out = "sent"
    /\ IF t = NoPeer \/ sock[t].ring = NoRing
       THEN sock_crashed' = TRUE /\ UNCHANGED <<sock, sock_call>>
       ELSE /\ IF Len(sock[t].ring) = RingCapacity
               THEN /\ sock_call' = [sock_call EXCEPT ![s].out = "sends"]
                    /\ sock' = [sock EXCEPT ![s].pending = 0]
               ELSE Sends(s, t, n)
            /\ UNCHANGED sock_crashed
    /\ UNCHANGED <<sock_listen, dg_vars>>

\* A call that was woken returns; one that a signal ends does, too.
sock_returns(s) ==
    /\ \/ /\ sock_call[s].out = "connected"
          /\ sock_call' = [sock_call EXCEPT ![s].out = "idle"]
          /\ UNCHANGED sock
       \/ /\ sock_call[s].in = "receives"
          /\ sock_call' = [sock_call EXCEPT ![s].in = "idle"]
          /\ UNCHANGED sock
       \/ /\ sock_call[s].out \in {"sends", "connects"}
          /\ sock_call' = [sock_call EXCEPT ![s].out = "idle"]
          /\ UNCHANGED sock
    /\ UNCHANGED <<sock_listen, sock_crashed, dg_vars>>

PeerCut(s) == IF sock[s].peer = NoPeer THEN sock
              ELSE [sock EXCEPT ![sock[s].peer].peer = NoPeer]
\* close takes the ring and cuts the peer off; nobody is woken up, and a place
\* in the pending list is kept.
sock_close(s) ==
    /\ sock[s].open /\ sock_call[s] = [in |-> "idle", out |-> "idle"]
    /\ sock' = [PeerCut(s) EXCEPT ![s].open = FALSE, ![s].ring = NoRing,
                                  ![s].tangled = @ \/ Linked(s)]
    /\ UNCHANGED <<sock_call, sock_listen, sock_crashed, dg_vars>>

StreamNext ==
    /\ ~sock_crashed
    /\ \/ sock_do_listen
       \/ \E c \in SockClients : sock_connect(c)
       \/ \E a \in SockAccepted : sock_accept(a)
       \/ accept_sleeps
       \/ \E s, t \in SockAccepted : sock_socketpair(s, t)
       \/ \E s \in Socks :
             \/ \E n \in Chunks : sock_recvmsg(s, n) \/ sock_sendmsg(s, n)
             \/ sock_returns(s)
             \/ sock_close(s)
-----------------------------------------------------------------------------
\* Datagram sockets: whole datagrams <<sender, number>>; a sender that sleeps
\* waits for its own event, which a receiver of one of its datagrams triggers.
dg_take(d) ==
    LET from == Head(dg_sock[d])[1] IN
    /\ dg_sock' = [dg_sock EXCEPT ![d] = Tail(@)]
    /\ dg_call' = Told([dg_call EXCEPT ![d].in = "idle"], from)
dg_recvmsg(d) ==
    /\ dg_call[d].in \in {"idle", "received"}
    /\ IF dg_sock[d] = <<>>
       THEN dg_call' = [dg_call EXCEPT ![d].in = "receives"] /\ UNCHANGED dg_sock
       ELSE dg_take(d)
    /\ UNCHANGED <<stream_vars, dg_sent, dg_from>>
dg_sendmsg(d, t) ==
    /\ dg_sent[d] < MaxDatagrams
    /\ \/ dg_call[d].out = "idle"
       \/ dg_call[d].out = "sent" /\ dg_call[d].target = t
    /\ IF Len(dg_sock[t]) = DgCapacity
       THEN /\ dg_call' = [dg_call EXCEPT ![d].out = "sends", ![d].target = t]
            /\ UNCHANGED <<dg_sock, dg_sent, dg_from>>
       ELSE /\ dg_sock' = [dg_sock EXCEPT ![t] = Append(@, <<d, dg_sent[d] + 1>>)]
            /\ dg_sent' = [dg_sent EXCEPT ![d] = @ + 1]
            /\ dg_from' = [dg_from EXCEPT ![t] = @ \cup {d}]
            /\ dg_call' = Told([dg_call EXCEPT ![d].out = "idle"], t)
    /\ UNCHANGED stream_vars

DatagramNext == \E d \in DgSockets : dg_recvmsg(d) \/ \E t \in DgSockets : dg_sendmsg(d, t)

LocalSocketNext == StreamNext \/ DatagramNext
LocalSocketSpec == LocalSocketInit /\ [][LocalSocketNext]_socket_vars
-----------------------------------------------------------------------------
Clean(s) == /\ sock[s].open /\ ~sock[s].tangled
            /\ sock[s].peer # NoPeer => ~sock[sock[s].peer].tangled

\* The two ends of a connection know each other: an open socket's peer is open
\* and has it as its own peer, through every order of connect, accept, close
\* and signals; unless connect was called again before the last one was over.
SockPeers ==
    ~sock_crashed => \A s \in Socks : Clean(s) /\ sock[s].peer # NoPeer =>
        sock[sock[s].peer].open /\ sock[sock[s].peer].peer = s

\* The bytes that wait in a ring are those the peer has sent and this end has
\* not received, each once and in order.
SockStream ==
    ~sock_crashed => \A s \in Socks : Clean(s) /\ sock[s].peer # NoPeer =>
        sock[s].ring = [i \in 1 .. sock[sock[s].peer].sent - sock[s].received |->
                           sock[s].received + i]

\* Nobody sleeps for what is there: a reader with bytes in its ring, a writer
\* with room in its peer's, connect after accept, accept with sockets to accept.
SockStranded ==
    /\ \A s \in Socks : Clean(s) /\ sock[s].peer # NoPeer =>
          /\ sock_call[s].in = "receives" => sock[s].ring = <<>>
          /\ sock_call[s].out = "sends" => Len(sock[sock[s].peer].ring) = RingCapacity
          /\ sock_call[s].out # "connects"
    /\ sock_listen.acceptor = "asleep" => sock_listen.list = <<>>

\* A datagram sender sleeps only while its target is full, if nobody else sends
\* there: it waits for its own event, and the receipt of another's datagram
\* makes room without triggering it.
DgStranded ==
    \A d \in DgSockets : dg_call[d].out = "sends" /\ dg_from[dg_call[d].target] = {d} =>
        Len(dg_sock[dg_call[d].target]) = DgCapacity

\* Local sockets: both ends agree, bytes arrive once and in order, and nobody
\* sleeps for what is there.
SocketSafe == SockPeers /\ SockStream /\ SockStranded /\ DgStranded
=============================================================================
