-------------------------------- MODULE Net ---------------------------------
(***************************************************************************)
(* The network stack (dev/net.cpp) above one interface, and UDP sockets    *)
(* (userland/socket/udp.cpp): routes, ARP, fragmentation, ports, queues.   *)
(*                                                                         *)
(* A sender is a thread in klib::sync(ipv4_send); the I/O service thread   *)
(* processes what arrives and runs the coroutine of a sender that waits    *)
(* for an ARP reply.  The interface has one callback for all of them.  A   *)
(* reply that finds the callback of a lookup that is over resumes a dead   *)
(* coroutine: whatever happens then is not modelled, net_dead is set.      *)
(* The network is external: it may lose requests and answer in any order.  *)
(***************************************************************************)
EXTENDS Naturals, Sequences, FiniteSets

CONSTANTS Senders, Hosts, Routes,   \* routing_table: matches, gateway, metric
          Lengths, MaxFragment,     \* bytes of a payload; of a fragment at most
          UdpSockets, LastPort,     \* ports 1 .. LastPort; those from FirstAuto on
          FirstAuto,                \* are given out
          QueueLimit, MaxArrivals   \* datagrams a socket keeps; bound on arrivals

ASSUME NetAssumption ==
    /\ MaxFragment \in Nat \ {0} /\ Lengths \subseteq Nat
    /\ {LastPort, FirstAuto, QueueLimit} \subseteq Nat \ {0} /\ MaxArrivals \in Nat
    /\ \A i \in DOMAIN Routes : Routes[i].matches \subseteq Hosts
    /\ "none" \notin Senders \cup UdpSockets

VARIABLES net_call,     \* ipv4_send of each sender
          net_arp,      \* arp_cache, arp_request_callback, requests not yet answered
          net_dead,
          udp_socket, udp_port_table

net_vars == <<net_call, net_arp, net_dead, udp_socket, udp_port_table>>

NoSender == "none"
NoSocket == "none"
IdleCall == [pc |-> "idle", target |-> "none", length |-> 0, sent |-> <<>>]

NetInit ==
    /\ net_call = [s \in Senders |-> IdleCall]
    /\ net_arp = [cache |-> {}, callback |-> NoSender, asked |-> {}]
    /\ net_dead = FALSE
    /\ udp_socket = [u \in UdpSockets |->
          [open |-> TRUE, has_port |-> FALSE, port |-> 0, binds |-> 0,
           queue |-> <<>>, arrived |-> 0]]
    /\ udp_port_table = [p \in 0 .. LastPort |-> NoSocket]
-----------------------------------------------------------------------------
\* The first matching route of the lowest metric.
lookup_route(ip) ==
    LET fits == {i \in DOMAIN Routes : ip \in Routes[i].matches}
        best == {i \in fits : \A j \in fits : \/ Routes[i].metric < Routes[j].metric
                                              \/ Routes[i].metric = Routes[j].metric /\ i <= j}
    IN  {IF Routes[i].gateway = "none" THEN ip ELSE Routes[i].gateway : i \in best}

num_fragments(length) == length \div MaxFragment + 1
Fragment(length, i) ==
    LET offset == (i - 1) * MaxFragment
        rest == length - offset
    IN  [offset |-> offset, length |-> IF rest < MaxFragment THEN rest ELSE MaxFragment,
         last |-> i = num_fragments(length)]

\* ipv4_send up to the cache lookup and, on a miss, the ARP request.
ipv4_send(s, ip, length) ==
    /\ net_call[s].pc = "idle"
    /\ \E target \in lookup_route(ip) :
          /\ net_call' = [net_call EXCEPT ![s] =
                [pc |-> IF target \in net_arp.cache THEN "send" ELSE "asked",
                 target |-> target, length |-> length, sent |-> <<>>]]
          /\ net_arp' = IF target \in net_arp.cache THEN net_arp
                        ELSE [net_arp EXCEPT !.asked = @ \cup {target}]
    /\ UNCHANGED <<net_dead, udp_socket, udp_port_table>>

\* The callback is set after the request has left; it replaces the one of a
\* sender that waits already.
arp_lookup_wait(s) ==
    /\ net_call[s].pc = "asked"
    /\ net_call' = [net_call EXCEPT ![s].pc = "waits"]
    /\ net_arp' = [net_arp EXCEPT !.callback = s]
    /\ UNCHANGED <<net_dead, udp_socket, udp_port_table>>

\* Mutant: whoever is resumed takes the reply for its own.
arp_process_unchecked(ip) ==
    LET s == net_arp.callback IN
    /\ net_arp' = [net_arp EXCEPT !.cache = @ \cup {ip}, !.asked = @ \ {ip}]
    /\ IF s = NoSender THEN UNCHANGED <<net_call, net_dead>>
       ELSE /\ net_dead' = (net_call[s].pc # "waits")
            /\ net_call' = IF net_call[s].pc = "waits"
                           THEN [net_call EXCEPT ![s].pc = "send"] ELSE net_call
    /\ UNCHANGED <<udp_socket, udp_port_table>>

\* A reply.  The sender it resumes looks into the cache again and fails with
\* -ENETUNREACH if the reply was for another address.
arp_process(ip) ==
    LET s == net_arp.callback IN
    /\ net_arp' = [net_arp EXCEPT !.cache = @ \cup {ip}, !.asked = @ \ {ip}]
    /\ IF s = NoSender THEN UNCHANGED <<net_call, net_dead>>
       ELSE /\ net_dead' = (net_call[s].pc # "waits")
            /\ net_call' = IF net_call[s].pc # "waits" THEN net_call
                           ELSE IF net_call[s].target \in net_arp.cache \cup {ip}
                           THEN [net_call EXCEPT ![s].pc = "send"]
                           ELSE [net_call EXCEPT ![s] = IdleCall]
    /\ UNCHANGED <<udp_socket, udp_port_table>>
arp_reply == \E ip \in net_arp.asked : arp_process(ip)

\* The transmit queue may refuse a fragment, which ends the call.
ipv4_send_fragment(s) ==
    LET c == net_call[s] IN
    /\ c.pc = "send"
    /\ \/ /\ Len(c.sent) < num_fragments(c.length)
          /\ net_call' = [net_call EXCEPT ![s].sent =
                            Append(@, Fragment(c.length, Len(c.sent) + 1))]
       \/ /\ Len(c.sent) < num_fragments(c.length)
          /\ net_call' = [net_call EXCEPT ![s] = IdleCall]
       \/ /\ Len(c.sent) = num_fragments(c.length)
          /\ net_call' = [net_call EXCEPT ![s].pc = "done"]
    /\ UNCHANGED <<net_arp, net_dead, udp_socket, udp_port_table>>
sender_returns(s) ==
    /\ net_call[s].pc = "done"
    /\ net_call' = [net_call EXCEPT ![s] = IdleCall]
    /\ UNCHANGED <<net_arp, net_dead, udp_socket, udp_port_table>>
-----------------------------------------------------------------------------
\* Port 0 asks for a free port, but not for the last one of the range; when
\* none is free it is itself given out once.
AutoPorts == {p \in FirstAuto .. LastPort - 1 : udp_port_table[p] = NoSocket}
ChosenPort(chosen) == IF chosen # 0 \/ AutoPorts = {} THEN chosen
                      ELSE CHOOSE p \in AutoPorts : \A q \in AutoPorts : p <= q
alloc_port(chosen) == {p \in {ChosenPort(chosen)} : udp_port_table[p] = NoSocket}

\* bind takes the new port, overwrites the bound address and then frees the
\* port of the address, which is no longer the old one.
udp_bind(u, chosen) ==
    /\ udp_socket[u].open /\ udp_socket[u].binds < 2
    /\ \E p \in alloc_port(chosen) :
          /\ udp_port_table' =
               LET taken == [udp_port_table EXCEPT ![p] = u]
               IN  IF udp_socket[u].has_port THEN [taken EXCEPT ![chosen] = NoSocket] ELSE taken
          /\ udp_socket' = [udp_socket EXCEPT ![u].has_port = TRUE, ![u].port = p,
                                              ![u].binds = @ + 1]
    /\ UNCHANGED <<net_call, net_arp, net_dead>>

\* sendmsg binds a socket that has no port.
udp_sendmsg_binds(u) ==
    /\ udp_socket[u].open /\ ~udp_socket[u].has_port
    /\ \E p \in alloc_port(0) :
          /\ udp_port_table' = [udp_port_table EXCEPT ![p] = u]
          /\ udp_socket' = [udp_socket EXCEPT ![u].has_port = TRUE, ![u].port = p,
                                              ![u].binds = @ + 1]
    /\ UNCHANGED <<net_call, net_arp, net_dead>>

\* The destructor leaves the port table alone.
udp_close(u) ==
    /\ udp_socket[u].open
    /\ udp_socket' = [udp_socket EXCEPT ![u].open = FALSE, ![u].queue = <<>>]
    /\ UNCHANGED <<net_call, net_arp, net_dead, udp_port_table>>

\* A full queue gives up its oldest datagram.
Pushed(queue, d) ==
    Append(IF Len(queue) = QueueLimit THEN Tail(queue) ELSE queue, d)

\* Datagrams are numbered as they arrive.  One for a socket that is closed is
\* written into freed memory and changes nothing that the model keeps.
udp_process(port) ==
    LET u == udp_port_table[port] IN
    /\ u # NoSocket
    /\ udp_socket[u].arrived < MaxArrivals /\ udp_socket[u].open
    /\ udp_socket' = [udp_socket EXCEPT
                        ![u].queue = Pushed(@, udp_socket[u].arrived + 1),
                        ![u].arrived = @ + 1]
    /\ UNCHANGED <<net_call, net_arp, net_dead, udp_port_table>>

\* Datagrams that need reassembly, for others or for a port that nobody has
\* are dropped.
ipv4_process == \E p \in 0 .. LastPort : udp_process(p)

udp_recvmsg(u) ==
    /\ udp_socket[u].open /\ udp_socket[u].queue # <<>>
    /\ udp_socket' = [udp_socket EXCEPT ![u].queue = Tail(@)]
    /\ UNCHANGED <<net_call, net_arp, net_dead, udp_port_table>>

NetSendNext ==
    /\ ~net_dead
    /\ \/ \E s \in Senders :
             \/ \E ip \in Hosts, length \in Lengths : ipv4_send(s, ip, length)
             \/ arp_lookup_wait(s)
             \/ ipv4_send_fragment(s)
             \/ sender_returns(s)
       \/ arp_reply
UdpNext ==
    \/ \E u \in UdpSockets :
          \/ \E p \in 0 .. LastPort : udp_bind(u, p)
          \/ udp_sendmsg_binds(u)
          \/ udp_recvmsg(u)
          \/ udp_close(u)
    \/ ipv4_process

NetNext == NetSendNext \/ UdpNext

NetSpec == NetInit /\ [][NetNext]_net_vars
-----------------------------------------------------------------------------
\* When ipv4_send returns 0 the fragments it has sent are the payload: every
\* byte is in exactly one fragment, and only the final one is marked as last,
\* also when the length is a multiple of the fragment size.
NetFragments ==
    \A s \in Senders : net_call[s].pc = "done" =>
        LET sent == net_call[s].sent
            covers(i, b) == b \in sent[i].offset .. sent[i].offset + sent[i].length - 1
        IN  /\ \A b \in 0 .. net_call[s].length - 1 :
                  Cardinality({i \in DOMAIN sent : covers(i, b)}) = 1
            /\ \A i \in DOMAIN sent :
                  /\ sent[i].offset + sent[i].length <= net_call[s].length
                  /\ sent[i].last <=> i = Len(sent)

\* A packet only leaves for a target whose hardware address has been learnt,
\* although a reply may resume a sender that asked for another address.
NetResolved ==
    \A s \in Senders : net_call[s].pc \in {"send", "done"} =>
        net_call[s].target \in net_arp.cache

\* An open socket that was bound once, to a port other than 0, is the one the
\* port table has for that port: it receives its datagrams and nobody else
\* does, whatever other sockets bind, rebind or leave behind when they close.
NetPorts ==
    \A u \in UdpSockets :
        /\ udp_socket[u].open /\ udp_socket[u].has_port
        /\ udp_socket[u].binds = 1 /\ udp_socket[u].port # 0
        => udp_port_table[udp_socket[u].port] = u

\* The queue of a socket always holds the newest datagrams, in the order of
\* their arrival and without a gap: only the oldest are ever lost.
NetQueue ==
    \A u \in UdpSockets :
        LET q == udp_socket[u].queue IN
        \A i \in DOMAIN q : q[i] = udp_socket[u].arrived - Len(q) + i

\* The network stack: fragments, resolution, ports and queues.
NetSafe == NetFragments /\ NetResolved /\ NetPorts /\ NetQueue
=============================================================================
